# BitGraph: TLA+ models

BitGraph binds digests of files into a signed sequence. A Nitro enclave draws a nonce and signs it together with a
digest under two consecutive counts; a parent service beside it takes requests, adds records of its own and keeps what
was made; a separate process writes Merkle roots of the records, and one transaction at each end of an epoch, to the
Base chain. Around them are the block timeline the parent keeps, the recovery copies that browsers and the command line
write, and the audit and the player, which answer questions of order from a bundle of proofs. This directory models
these programs, model-checks them with TLC and proves most of their safety properties with TLAPS. Paths below are relative to
`server/commit-service/src/` unless they start with `packages/`, `website/` or `src/`.

## 1. Inventory

| component | state it keeps | operations | talks to |
|---|---|---|---|
| enclave (`enclave/app.ts`) | key, epoch id, `chain.counter`, `chain.lastProofHashB64`, `initialized`, `enclaveLock` | `init`, `bind`, `health`, `key` | the parent, over a socket |
| parent (`parent/server.ts`, `vsock-client.ts`, `epoch-floor.ts`, `epoch-end.ts`) | `openEpochId`, `epochStarting`, `bindChain`, the vsock queue, each request's `proofs`, the `genesis-requested-*` and `genesis-bound-*` files | `/commit`, drop floors, the first record, the genesis record, the closing note, shutdown | enclave; ceiling queue and request files; journal; S3 |
| timeline (`parent/timeline*.ts`, `chain-sources.ts`) | per chain a cursor and the last 256 hashes; `pending.jsonl` and batch files | poll, rewind, append, upload, alerts | `bindExclusive`, RPC nodes, S3 |
| Base writer (`ceiling/*.ts`) | cursor, backlog, batch files, `chain.json`, `*.sent.json`, result files, sidecars | one `tick` after another | queue file and request directories; Base RPC; S3 |
| ledger writes (`persistToLedger` in `parent/server.ts`) | none; S3 keys `proofs/`, `digest-journal/`, `by-digest/` | three puts per proof, fire and forget | S3 |
| recovery copies (`website/src/lib/recovery-queue.ts`, `recovery-store*.ts`; `packages/sdk/src/recovery-jobs.ts`; `src/recovery-write.ts`) | per browser a database of jobs and progress; per machine a job file and a lock file; in S3 create-only entries | load, enqueue, run, salts, finish; register, lock, write, release; `POST /api/recovery` | the site's store |
| audit (`packages/audit`), player (`packages/player`) | none: functions of a bundle | partitions, epoch lineage, temporal bounds; compare, resolve, evaluate | callers |
| rate limits, API keys, Base head, TSA, verify helper | token buckets; recent headers | per request | `/commit`, `/allocate-slot` |
| core library (`src/`), `packages/verify` | none | construct and verify proofs, trees, bundles | callers |
| `packages/adapter-nitro` | KMS counter value | `restore`, `next` | KMS, a blob store, an anchor |
| `packages/sdk`, `packages/mcp`, `packages/titles`, website pages | none of their own | clients and presentation | the service |

What is hard in them:

* **Interleavings in one Node process.** Every `await` lets other handlers run. The enclave relies on a promise lock,
  the parent on two promise chains (`bindExclusive` and the vsock client's queue).
* **Calls that time out and happen anyway.** The vsock client gives up after 30 s; the enclave has no cancel.
* **Independent restarts.** Parent, enclave and writer each stop on their own. The parent's `openEpochId` can outlive
  its epoch; the enclave can serve requests of a parent that is gone.
* **Crashes between two file writes.** The writer's state is spread over six kinds of files, each written atomically,
  but never two at once.
* **A chain that drops, replaces and reorganises.** One nonce sequence is shared by three kinds of transactions.
* **Writers that share storage and not memory.** Two tabs work one job over one database; two processes take turns over
  a job file with a lock that can go stale under a live holder.
* **Answers from part of the evidence.** The audit and the player see a bundle, never the history; counters and anchors
  are weaker evidence than hash links, and the answer has to say which it rests on.
* **Order.** A floor directly before its file, a first record first, a closing note last, a batch alone in flight.

What makes each component correct:

* enclave: one gapless sequence per epoch, no nonce in two proofs, a bind all or nothing, every request answered;
* parent: floors adjacent to their files, records bound in the epoch they name, made proofs kept, callers' files and only those
  queued for Base, no digest bound more often than asked, one settled genesis, every request and every stop ends;
* writer: no record lost, nothing broadcast that is not on disk, one nonce per transaction, statuses that the canonical
  chain backs, closes answered when the roots are found, every genesis and every record written in the end;
* timeline: no block of the chain skipped, every appended record readable until and after its upload, bundles complete;
* recovery: what counts as kept is on the server, the list is dropped only when nothing needs it, one copy per entry,
  work that was taken up ends;
* audit and player: an answer is right about the history for the reasons its tier names, and later evidence never
  reverses it;
* ledger: a by-digest key implies a journal entry and names the earliest record.

`PROJECT.json` lists every component with its status, and under `hazards` every place found that a test would hardly
reach, with the properties that cover it or the reason none does.

## 2. Modules

| module | models | used by |
|---|---|---|
| `BoundSequence` | the abstract promise: an epoch's sequence, a bind as one atomic action | `Enclave` (refines it), `Parent` (uses it in the enclave's place) |
| `Enclave` | `enclave/app.ts` | `MCEnclave`, `EnclaveProofs` |
| `EnclaveProofs`, `ParentProofs`, `CeilingProofs`, `TimelineProofs`, `RecoveryProofs`, `RecoveryCopyProofs`, `CausalProofs`, `VerdictProofs` | inductive invariants, lemmas and theorems | |
| `Parent` | the parent composed with the enclave | `MCParent`, `ParentProofs` |
| `CeilingWriter` | the Base writer composed with the queue file, the request files and the chain | `MCCeilingWriter`, `CeilingProofs` |
| `Timeline` | one chain's poller, its providers, the journal, the upload and the reading back | `MCTimeline`, `TimelineProofs` |
| `RecoveryStore` | the site's create-only store and the requests under way | `RecoveryQueue`, `RecoveryJobs` |
| `RecoveryQueue` | the browser's queue: tabs over one database | `Recovery` |
| `RecoveryJobs` | the command line's jobs: processes over one file and its lock | `Recovery` |
| `Recovery` | the three together, with their properties | `MCRecovery`, `RecoveryProofs`, `RecoveryCopyProofs` |
| `CausalAudit` | histories of proofs, bundles, and what the audit derives from a bundle | `CausalPlayer` |
| `CausalPlayer` | the player's order, roles and rules, with the properties of both | `MCCausalPlayer`, `CausalProofs`, `VerdictProofs` |

An operator whose comment starts with "Bug:" is a plausible mistake in the definition below it; no specification uses
it. Replacing the definition by it breaks the property named with it in `PROJECT.json`, which shows that the property
depends on that piece of code.

### Enclave

A connection's `task` is its request and, once it runs, the local variables of `handleBind` with the name of what it
awaits: `getFreshNonce`, `signSlot`, `getAttestation`, `signBody`. `lock` and `waiting` are the promise chain
`enclaveLock`. `Receive` is the socket's data callback, `Acquire` the turn of the next `then`, and `HandleInit`,
`HandleRead`, `RefuseBind`, `StartBind`, `NonceDrawn`, `SlotSigned`, `Attested`, `BodySigned` the stretches of code
between awaits. `BindFails` is an exception from any of them. `Boot` is a new process: a new key and epoch, memory gone.
Health, key and unknown actions are one `read`. A proof's hash is named by its nonce, which is unique. The generator
never repeats a value (`NonceDrawn`): the model takes fresh 32-byte random values as distinct. `drawn` and `released`
are history.

### Parent

The enclave is `BoundSequence`, with a `wire` of requests that reached it; `live` says whether somebody still waits for
the answer. Each asynchronous function is an actor with a `pc`: a request, `Boot` (the listen callback and
`bindEpochFloor`), `Reader` (a poller), `Genesis` (`bindTimelineGenesis`), `End` (`bindEpochEnd`). `bindChain` is
`bindExclusive`; the vsock client's queue never holds more than one bind besides `init`, so `call` is enough for it. A
call ends as `ok`, `refused` (an error reply) or `rejected` (timeout, reset, empty reply), and `FileSettled`,
`DropSettled`, `NoteSettled`, `InitSettled` say how each caller goes on. `Timeout` either loses the request or leaves
it in the enclave, to be served for nobody. `Crash` and `Exit` end the process, `Reboot` the enclave.

`KeepMade` is `keepMade`. `CeilingItems` gives no line to an anchor service's records (`Anchors`), and `EnqueueCeiling`
does not wait: `ceiling` holds the proofs whose line was handed to the append, `queueFile` those whose line is in the
file, any part of them, since an append may fail, the process may end first, or a proof may have no `proofHash`. Every
caller's file is queued: the comment on `body.ceiling` (`parent/server.ts:624`) speaks of opting in, but no code reads
that field, both calls of `handleCommit` pass `true` (810, 826), and the comment on `keepMade` (832) says "whatever the
caller sends".

In `bindEpochFloor` the genesis transaction and the fallback block read are one kind of attempt, "first": what differs
between them is the file. The gate's 401, 400, 413 and 429 answers are the refusing disjunct of `Body`. Left out: the
path for enclaves before v11 (the enclave of this commit answers its calls with an error), `/allocate-slot`, and the
routes that only read.

### CeilingWriter

A tick is a walk of `pc` through `ingest`, `genesis`, `publish`, `batch`, `closes`, `poll`, with a step for every file
written: `Ingest` writes the backlog and `SaveCursor` the cursor; `Cut`, `TakeItems`, `SaveChain`, `WriteSidecars`,
`Send`, `MarkPending` are `startBatch` and `send`; `Drop`, `Requeue`, `WriteSidecars` are `reorged`. Memory and file are
separate variables where they differ, and `Restart` may come between any two steps. `GenesisWriter.pass` and
`PublishWriter.pass` have the same shape and are one set of actions with a parameter.

The chain is the canonical blocks that hold the writer's transactions, a mempool, and the safe and finalized heights.
`NextNonce` is the pending transaction count. `Reorg` empties an unsafe tip and puts its transaction back. `Compared` is
`blockHashAt` and its comparison: the batch's own block, another one, or null, as a node answers that has no block there.
A null throws nothing and promotes without a comparison, so `Promote` has it too; it takes a lost call from the budget,
and `unread` is history that tells such a batch. A request
file's time is represented by the set of records bound before it, which is what `closedGroup` compares. A replacement
has the nonce and payload of the transaction it replaces, so all sends of a batch are one transaction that is broadcast
again; that replacements of a batch race each other, with other fees and hashes, is therefore not covered. Left out:
S3 copies of the sidecars and write records, floor headers and their repair, fees, costs and events.

### Timeline

A block is its whole ancestry, so its number is its length and a reorg is a new branch. `views` is what each of the two
providers knows; a read succeeds when `Agreed` holds (`CrossChecked`). `PassStart`, `NextBlock`, `BindRead`, `Rewind`
and `RewindDeep` are `pass`, `bindRead` and `rewind` of `parent/timeline-poller.ts` between their awaits; a pass that
throws is `ReadFails` or `BindFails`. A head below the cursor enables nothing, as the pass then does nothing. `pending`
and `batches` are the journal's files, a line of which is a record, torn, or the unreadable joint of a torn line and the
next; `FlushStart`, `UploadPart`, `Unlink`, `FlushEnd` are `flush`. `ReadLocal` and `ReadBucket` are `around()`, the
upload going on between them. `Crash` and `CrashInBind` end the process, the second inside the synchronous run of
append and cursor save. The files other code records (files, genesis, closing notes) are `RecordFile`.
A record that is appended behind a torn line is `glued`: on disk, and parsed by nobody. `EveryBlockKept` excepts the
blocks of such records and says that a crash makes one at most.

A reorg replaces at most as many blocks as the poller remembers. Deeper ones are outside the model's promise: the code
then restarts from the block before the oldest one remembered, and blocks between the fork and that one are not bound.

### Recovery

An entry is one side of one member of a tree, filed under a deterministic name or, when that is held by something else,
under a salted one. `RecoveryStore` serves each entry of a request by itself; a request whose writer gave up or went
away may still be served (`late`). `RecoveryQueue` has a `pc` per tab for the run loop, the job in memory (`live`) and
the database's two objects (`job`, `progress`), each operation on them a transaction. `RecoveryJobs` has the job file,
the lock with its token, and a `ppc` per process; looking at the lock and acting on it are two steps, as in the code.
A tree belongs to the browser or to the machine that minted it, so a behaviour has tabs or processes, not both. Left
out: `forget()`, the repair of a broken job, a second enqueue that turns keeping on, rate limits, several trees.

Three races in `packages/sdk/src/recovery-jobs.ts` can lead to a second salted copy and are excepted by name (`raced`): a
holder frozen past `LOCK_STALE_MS` between `held()` and `saveJob` (lines 319 to 324); two processes that saw the same stale
lock, of which the later removes the fresh lock of the earlier, and both hold it (256 to 271); and two processes that
register the same job at once (172 to 189). The second needs three processes, the one that died and two that come after
it, and so more than the run has; it was found with three processes, one entry and one fault, where TLC shows the two
copies without the exception and none with it (300 thousand states; 2.3 million with two faults).

### CausalAudit and CausalPlayer

`proofs` is the history in the order of commits, `bundle` the part an auditor holds; the auditor is handed the proofs in
any order, so every sub-bundle is reached. `world` says what the recorders kept to: counter discipline, fresh anchors,
which marks they sign, whether epochs link back, whether a file is recorded twice. The operators of `reconstruct.ts`,
`temporal.ts`, `order.ts`, `cast.ts`, `evaluate.ts` and `logic.ts` are operators here, of the bundle only; the breadth
first search of `lineagePrecedes` is reachability, its result being the best tier over all paths. The properties compare
their answers with the history. Left out: proofs that do not verify, chainless proofs, `signedBy`, anchors without a
witness (they are proofs without an anchor), a proof with both marks.

A claim is a record whose parts are claims; `ClaimsAt` gives the claims at each depth, and a rule that nests deeper than
`MaxDepth` (32 in `rule.ts`) does not parse. `evalClaim` is a recursive function over these claims, with `EvalOf` what it
does at one of them. A claim may name a role the cast does not declare, as a rule is parsed without its cast: such a role
has no candidates and is not known to be absent, so what depends on it is undetermined.

One disagreement is excepted in `PairsCarried`: when an epoch has both floors and anchors, a later floor displaces the
anchor in the segment, so `compare` says unordered where the audit's anchor pair orders the epochs. `temporal.ts` keeps
the anchor's bound apart for that case (`anchorLower`); `order.ts` does not read it. The answer is weaker, not wrong.

## 3. Runs

| run | bounds | states | shows |
|---|---|---|---|
| `enclave` | 2 connections, 1 digest and 1 bad one, 3 nonces, 2 epochs | 17 thousand | sequence, nonces, refinement of `BoundSequence`, liveness |
| `parent_timeline` | a request of 2 digests, timeline and drop floors, 1 poller read, 2 starts, 2 epochs, 1 fault | 2.2 million | safety of the parent with everything switched on |
| `parent_ends` | requests of 2 and 1 digests, the second an anchor service's; drop floors, first record, 2 epochs, 1 start, 1 fault | 390 thousand | every request and every stop ends; the Base queue is handed the callers' files and nothing else |
| `writer_roll` | 2 records in 2 epochs, roll mode; one crash, reorg, lost call or publish, or a reorg and a lost call; 2 steps of finality | 3.7 million | safety of the writer |
| `writer_lands` | 1 record, 2 epochs, roll mode; two of a reorg, a lost call and a publish, or a crash and a reorg; no finality | 139 thousand | genesis and records reach the chain |
| `recovery` | 2 tabs or 2 processes; members of 2 and 1 entries, 2 entries a request; 4 salts; nothing held, a name held, a name and a salt held; 1 fault | 321 thousand | safety of the copies, and that the work ends |
| `timeline` | 4 blocks and 2 reorgs with a fault; 2 blocks with upload, files, a reader and up to 2 faults; 2 hashes remembered | 661 thousand | nothing skipped, lost or overlooked, and every block kept |
| `player` | histories of 3 or 4 proofs in 1 or 2 epochs, 2 ticks, five kinds of recorders, six claims nested up to three deep, one about a role nobody declared | 142 thousand | answers are right about the history and are never reversed |

Why these bounds are enough to be interesting: two connections already overlap at every await, and a third nonce lets a
bind fail after drawing and another succeed, in either epoch; a request of two digests has a middle to fail in; two
starts and two epochs let the parent outlive the enclave and the enclave the parent; two epochs let a genesis, a
publish, a late line and a close of the epoch before meet. `MaxBinds` is never reached. Two members and a batch of two
entries make a job of two batches, so a pass has a middle; a fault is a failed put that landed or not, a failed save, a
timeout with late puts, a reload, a kill or a lock gone stale. Two remembered hashes with reorgs of depth two reach both
kinds of rewind. Four proofs in two epochs give forks, links, anchors on both sides and floors between them.
Deadlock is checked for the enclave; the others are bounded in ways that let them come to rest, and the parent really
may stop.

Four further runs expect a violation. Each checks a sentence of a comment against the code and prints a behaviour that
breaks it:

* `parent_end_is_last`: "the closing note is bound as the epoch's last BitGraph". The stop does not stop the pollers; a
  block read that queues behind the note is bound after it.
* `parent_made_proofs_kept`: "Proofs already made in this request are kept and returned". True for an error reply; a
  rejected call leaves by an exception.
* `writer_record_lost`: "so no record is left without a root". `reorged` saves the dropped batch before the backlog; a
  crash between them loses the records. It needs a reorg and a crash, which `writer_roll` never
  has together. `writer_lands` has them, and `RecordLands` excepts such a record by name (`Lost`). `SidecarBacked` names
  the same exception.
* `writer_nonce`: "never alongside a genesis". A publish whose broadcast was lost is still watched while a genesis is
  signed, and the pending count gives both the same nonce. Only one of the two can be mined, and the other is replaced
  for ever. `writer_lands` has this combination too, and `GenesisLands` and `RecordLands` except it by name (`Outrun`):
  what waits behind the loser waits for ever.

Three more sentences of comments do not hold as they stand and have no run of their own. "so it is the first record of the
epoch" (`parent/server.ts:333`): the gate is tested before the body is awaited and closed only once `init` has answered,
so a request let in early binds its file first. "so a record the caller goes on to use is on disk"
(`parent/timeline-journal.ts:8`): a record appended behind the torn line of a crash is on disk and cannot be parsed;
`JournalKeeps` and `EveryBlockKept` except it. "Absent or false: no Base write" (`parent/server.ts:628`): nothing reads
the field, and every file is queued.

### Fairness

* Enclave: weak fairness of the lock's hand-over and of each running handler. Promises settle; the NSM calls return or
  throw.
* Parent: weak fairness of each actor's next step and of the enclave's service. Node starves no ready callback, and each
  vsock call ends by its own timeout at the latest. Nothing is assumed of new requests, faults, stops or reboots.
* Writer: weak fairness of the tick (the loop of `main.ts` catches and goes on) and of mining; strong fairness of
  `Replace`, `PassReplace` and `Drop`, since a wait ends after `replaceAfterBlocks` blocks and the status poll comes
  round every four seconds, though not in every tick. Nothing is assumed of the parent: a line may never reach the queue.
* Timeline: weak fairness of the poller and of the flush (a timer each, armed again after every pass and every error)
  and of a provider catching up with the chain. Nothing is assumed of growth, reorgs, requests or faults.
* Recovery: weak fairness of an open tab's run loop and of the server's answers to tabs. Nothing is assumed of users: a
  tab may never be opened or kicked, a process never started; the liveness property speaks of a tab that stays open.
* Player: none; it is a function of the bundle.

## 4. Proofs

Each theorem holds for every value of the constants that satisfies the named assumptions of its module; the bounds of a
module (`MaxBinds`, `MaxHeight`, `Budgets` and so on) are constants too, so nothing depends on their size. None of the
properties below is inductive as it stands; what each proof adds is the part of the state that the property leaves out.

### Enclave (`EnclaveProofs`)

`TypeCorrect` (`TypeOK`), `SequenceUnbroken` (`UnbrokenSequence`), `NoncesBoundOnce` (`NonceBoundOnce`), and
`BindIsAtomic`, the refinement of `BoundSequence`; and `NobodyIsLeftBehind`. Assumed: the placeholders differ from the values they stand beside
(`NoProof` is no nonce, `NoConn` no connection, `BadDigest` no digest).

The sequence property speaks of proofs that are out, and what the next proof says is decided in the
local variables of a running bind. `IInv` adds four parts. `LockInv`: only the holder of the lock runs. `LocalInv`: a
running bind's counts are the two after the chain's, its nonce is drawn and in no proof, its `prev` is the chain's last.
`HeadInv`: the chain's counter and last hash are those of the last proof of this epoch, or fresh. `PastInv`: proofs are
of past or present epochs and their nonces are drawn. With the lock, no other bind can move the chain while one runs, so
`LocalInv` survives until `BodySigned`, which is where the sequence grows. The refinement uses the same invariant:
`BodySigned` is the abstract `Bind`, `HandleInit` is `OpenEpoch`, `Boot` is `NewEpoch`, every other step stutters.

`NobodyLeftBehind` is the safety half of `EveryRequestEnds`: a request that arrived has the lock or one place in the line,
and the lock is held by a request that has a step to take. It is inductive together with `LockInv`.

### Parent (`ParentProofs`)

`ServiceTypes` (`TypeOK`), `FloorIsDirectlyBefore` (`FloorDirectlyBefore`), `NotesAreRight` (`NotesNameTheirEpoch`),
`BaseIsRight` (`BaseGetsTheFiles`), `NothingBoundTwice` (`NoDigestBoundTwice`) and the action property
`GenesisIsSettled` (`GenesisSettled`); besides, `NobodyIsStuck` and `EnclaveIsKept`. Assumed: a request has at least one digest, the actors
are distinct, there is an epoch to start in.

All of them rest on `FlowInv`. `TurnInv`: who waits, and nobody else, is in `bindExclusive`'s chain, once, and only its
head has begun to bind. `CallInv`: one call is in flight, the init or the head's; of what is on the wire only the last can still
be heard, and it is what the caller would send now. Everything else on the wire is left over from a timeout or a crash
and will be served for nobody, which is where each property could go wrong:

* floors: `WireFloor` and `HeldFloor` say that a drop floor is the ledger's last proof until its file is bound, or that
  the enclave is closed and will refuse the file. A left over call ahead of the file would come between them; there is
  none, because a floor is only held when its own call was answered, and calls are answered in their order;
* notes: `EpochInv` says that a known epoch that is not the enclave's means a closed enclave, and that a note that names
  another epoch cannot be served before the next init, which comes with a new start of the parent, behind the note;
* digests: `CountInv` counts a request's files in the ledger together with the one that may be on the wire. A call that
  timed out and is bound later was the request's last, as the request ends with it;
* genesis: `MarkInv` says that the marker is written when no genesis bind of the epoch is on the way;
* Base: `MadeInv` says that what a request has made are its own files in the ledger, so what `CeilingItems` hands on
  when the request ends are files of callers, and all of those that are kept. Nothing is promised of `queueFile` but
  that it has no other line.

`NobodyStuck` says what `EveryCommitEnds` needs of every state: whoever waits has a turn, the head of the chain can start,
send, or is waiting for its call or the init's, and the call in flight has somebody who takes its answer. With
`CHECK_DEADLOCK FALSE` in the runs, which their bounds end, it is what tells that end from one where a caller waits for
nobody. `EnclaveIsKept` is the refinement `Spec => Sequence!SeqSpec`: late, lost and doubled calls included, the enclave under the service goes
through a behaviour of `BoundSequence`, which by `BindIsAtomic` is all that `Enclave` can show.

### Base writer (`CeilingProofs`)

`WriterTypes` (`TypeOK`), `SignedBytes` (`SignedBytesKept`), `OneInTheAir` (`BatchFliesAlone`), `FinalStays`
(`FinalIsCanonical`), `NothingReadIsLost` (`NoRecordLost`), `CloseIsTrue` (the action property `ClosedIsWritten`) and
`SidecarsAreTrue` (`SidecarBacked`). Assumed: finitely many records, each in an epoch, and a `None` that is no value.

* `SentInv`: what is in the mempool or a block is what a file holds, under the nonce that file names. Files are written
  before anything is sent and a saved nonce never changes, so this survives every crash.
* `AloneInv`: what the genesis and publish passes of this tick found is still so when the batch is cut. It needs `AskInv`:
  requests come in the order of epochs, so the one a pass looks at is the one that was sent.
* `ChainInv`: the block a batch was found in is still there, as it was or emptied by a reorg, and below the safe height
  nothing is emptied. So a batch that was promoted on a hash it read is in its block for good; `FinalStays` is about
  these, and not about batches promoted on a null answer.
* `NonceInv`: transactions are mined in the order of their nonces, and a batch that stands shares its nonce with no
  transaction that was seen, and with no genesis or publish that may still be sent. With `AloneInv` it holds from the cut
  on, since nothing else is watched then and the pending count is past all that was seen. So nothing pushes a batch's
  transaction out: after a reorg it is in the mempool until it is mined again, which is what `CloseIsTrue` says of a root
  whose block is gone when the close is answered.
* `KeepInv`: a record that was read is queued, in a batch that stands, or in the batch that `reorged` is about to queue
  again. `NothingReadIsLost` and `CloseIsTrue` assume `RequeueHappens`: the process does not end between the two writes of
  `reorged`. The run `writer_record_lost` shows that this cannot be left out; it is the finding, stated as a
  hypothesis. `SidecarsAreTrue` likewise assumes `ReorgedIsWhole`, that the process does not end inside `reorged`.
  In `writer_roll` no behaviour has both a crash and a reorg, so neither can happen.

### Timeline (`TimelineProofs`)

`TimelineTypes` (`TypeOK`), `NoBlockIsSkipped` (`NoBlockSkipped`), `JournalIsKept` (`JournalKeeps`) and `AroundIsComplete`
(`AroundFindsAll`). Assumed: the poller remembers at least one block, and (in the actions) no reorg is deeper than what it
remembers.

`PollInv`: whatever the poller read was on the chain when it was read, so it agrees with the chain and with every view
a provider will ever show, up to `KeepRecent` blocks below; what the cursor remembers is a line of ancestors; and what lies
below the oldest of them is settled or before the timeline. So a rewind that finds no common block loses nothing that
is on the chain. `KeepInv`: no two of the journal's files, and no file and object, hold records of the same position,
except the oldest batch and the objects its upload has put already, which are its own parts. So the unlink after the
last part takes nothing that is not in the bucket, and an object's key, its epoch and first count, is never taken
by another. `ReaderInv`: between a reader's two reads, every record it has to find is among those it read on the machine or
in the bucket, whatever goes up and is deleted meanwhile. That the listing then names the object is a matter of numbers:
`TimelineRecords.around` starts it 100,000 counts before the window, as "a batch holds about a minute of records". So
`AroundIsComplete` assumes `BatchesAreShort`, that no object spans more counts than that; with a slack of 0 TLC shows the
record that is missed. A batch is what came in between two flushes, and `flush()` returns at once while an earlier one
is still putting, so it is the end of each put that keeps batches short.

### Recovery (`RecoveryProofs`, `RecoveryCopyProofs`)

`RecoveryTypes` (`TypeOK`), `BelievedIsThere` (`KeptIsThere`) and `ListIsNeededNoMore` (`ListDroppedWhenWritten`), for
tabs and processes alike. Assumed: the tabs and processes are writers, a member of the tree has no
more entries than a batch may hold.

`Lasting` is what everything rests on: the store is create-only, so a name that is taken keeps what it holds. `BeliefInv`
says of every place that remembers something that it is still so. `AnswerInv`: an answer on its way says what is under
the name the request asked for, also when the put came from a request that was given up. `QueueBelief` and `JobsBelief`:
what memory, database or file counts as kept is there, what they count as blocked is held twice, and a salt is chosen
only for an entry whose own name another holds. The last part looks out of place and is what the blocked entries need:
an entry is given up on when a salted name is held, and the list could then be dropped with the entry's own name still free.
A tab that finishes and a process that removes its file have found nothing pending, and every entry that is not pending
is kept or blocked. Saves that fail, are merged with another tab's or are overwritten after a race only ever exchange sound
beliefs for sound ones, which is why these theorems need no exception for `raced`.

`OneCopyIsWritten` (`OneSaltedCopy`) assumes besides that no tab is a process (`RecoveryAssumption`). A copy under a salt
cannot be taken back, and a put that was given up may still land, so the invariant (`CopyInv`) is about the salts in
play: those under which a copy of the entry exists, is asked for or may come late. An entry's own name is another's when
a salt of it is in play, so the two kinds of copies exclude each other.

* Tabs (`TabCopies`): the salts in play are those of the stored record (`StoredInv`), and no stored salt is ever replaced:
  `saltFor` and `finish` merge, the stored salt first. Only `saveJob` puts a whole record there, and a tab that comes to it
  has merged and read back, and has found every entry with a held name salted, so no other tab can have added one since
  (`SharedInv`). A job that could not be stored is known to the tab it came to and to no other; when its record is stored
  after all, it is done and no tab posts for it (`AloneInv`).
* Processes (`ProcCopies`): one at a time holds the lock (`LockInv`). A salt in play is the job file's or its name is
  taken (`SureInv`: state is saved before it is written under), and a usable salt of the file, the memory of the holder
  and the copies are one (`AgreeInv`). The next holder takes the file, or its own snapshot when the file is gone; it is
  removed only when nothing is pending, so no name in play is free by then (`BlockInv`, `EndInv`). The three races
  of `raced` are exactly the steps that break `LockInv` or replace another's file, and the proof needs no other exception.
  Two more theorems come from it. `OneProcessWorks`: between taking the lock and letting it go a process is alone.
  `ProgressIsKept`: no save makes the job file forget an entry it counts as kept or blocked, since whoever saves has
  started from the file (`LoadedInv`) and nobody saved since; without the exception for `raced` this is false.

### Audit and player (`CausalProofs`, `VerdictProofs`)

`CausalTypes` (`TypeOK`), `HashLinkedIsOrder` (`HashLinkedHolds`), `BoundsAreRight` (`BoundsHold`), `AnswersAreOrder`
(`AssumptionsSuffice`), `PairsAreOrder` (`PairsHold`), `PairsAreCarried` (`PairsCarried`). Here the invariant,
`HistoryInv`, is about the history alone: hashes point back, proofs are in the order of time and name blocks that exist
by then, and, where the world is disciplined, counters rise with the proofs of an epoch. That the answers are right
follows in every such state for every bundle whatever, by lemmas about the operators of the audit (segments, lineage,
bounds, `Compare`). The lineage is reachability over a path, so its lemma is about a path's ends, by way of the
greatest place on it.

`VerdictsAreRight` (`VerdictHolds`) and `VerdictsStand` (the action property `VerdictNeverReversed`). Assumed: the claims
have the six operators of `rule.ts` and none is below `MaxDepth` (`ClaimsAssumption`).

* Claims are trees, and the prover has no induction over trees. But they are at most `MaxDepth` deep, so the claims for
  which a statement fails have a deepest level, and that level contradicts the step (`DepthInduction`,
  `ClaimInduction`; both are about sets, so no theorem has an operator as its parameter). That the recursive functions
  exist, and so have the values their definitions say, is shown in the same way, level by level (`ClaimLevels`,
  `EvalWalk`, `TruthWalk`, `RolesWalk`).
* `ClaimRight`: what `evalClaim` decides is what the claim says wherever the roles left open are put. For two roles it
  comes from the answers of `Compare` (`FloorRight`, `PrecedesRight`: hash-linked answers hold with no assumption, the
  others where the recorders kept to what the tier assumes), for "all", "any" and "not" from strong Kleene logic
  (`KleeneRight`): an open part may be either, and is decided only when it makes no difference.
* `NeverReversed`: a required role that resolves in both bundles resolves to the same proof, so one way to put the open
  roles agrees with both, and under it the claim is so or not. A verdict may become undetermined again: a
  second candidate may turn up.

### Only model-checked

All liveness properties: the prover has no rules here for fairness and ENABLED (`NobodyIsLeftBehind` and `NobodyIsStuck`
are what can be said without them). Every safety invariant and every action property of the passing runs has a theorem:
`NothingReadIsLost` and `CloseIsTrue` under `RequeueHappens`, `SidecarsAreTrue` under `ReorgedIsWhole`, `AroundIsComplete`
under `BatchesAreShort`, the others as they stand. The counterexamples of the four findings are TLC's. Outside
the prover's reach in general: induction over unbounded data, and modules with RECURSIVE operators, of which there are
none.

## 5. Plan

1. Done: all modules of section 2; the proofs of section 4.
2. `Ledger`: `persistToLedger` with several proofs in flight, each put able to fail; journal before key, earliest record.
3. `KmsCounter` and the library's `commitInternal`; the rate limits in discrete time.
4. The verifier's timeline bundle and Merkle checks as functions against reference definitions.

## 6. Not modelled

Signatures, hashes, attestation documents and encodings (values are abstract and unique); HTTP and S3 as transports;
command-line tools, the website's pages and generated artwork (most of the repository's lines), parsers and reports of
the player, and the test doubles. `PROJECT.json` gives the reason for
each component.
