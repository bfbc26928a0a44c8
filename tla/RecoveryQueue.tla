--------------------------- MODULE RecoveryQueue ---------------------------
(***************************************************************************)
(* The browser's recovery queue (website lib/recovery-queue.ts): several   *)
(* tabs of one browser work one tree's job, each from its own memory, over *)
(* one IndexedDB database and one server.                                  *)
(*                                                                         *)
(* The job's record and its progress are separate objects of the database; *)
(* every operation on one of them is a transaction.  A tab's run loop is   *)
(* the variable pc; between two of its steps the other tab, the server and *)
(* the user do anything.  Delays are left out: they only say how long a    *)
(* step takes.                                                             *)
(***************************************************************************)
EXTENDS RecoveryStore, Sequences, FiniteSetsExt

CONSTANTS Tabs,         \* subset of Writers
          Tree,         \* the members, in tree order: each a set of entries
          MaxBatch      \* entries per request

ASSUME RecoveryQueueAssumption ==
    /\ Tabs \subseteq Writers
    /\ Tree \in Seq(SUBSET Entries)
    /\ MaxBatch \in Nat /\ \A i \in DOMAIN Tree : Cardinality(Tree[i]) <= MaxBatch

VARIABLES job,          \* the stored record, or NoJob
          progress,     \* the stored progress
          minted,       \* the tree is made, and was handed to the queue
          pc,           \* per tab, where its run loop is
          live,         \* per tab, the job in memory (LiveJob), or NoJob
          loc           \* per tab, the local variables of the step under way

queueVars == <<job, progress, minted, pc, live, loc>>

NoJob == [made |-> FALSE]
NoLoc == [start |-> 1, toSalt |-> {}, chosen |-> [e \in Entries |-> NoSalt]]
Record == [made : {TRUE}, keep : BOOLEAN, list : BOOLEAN, done : BOOLEAN,
           salts : [Entries -> Names]]
Progress == [kept : SUBSET Entries, blocked : SUBSET Entries]
LiveJob == [rec : Record, progress : Progress, cursor : 1..(Len(Tree) + 1),
            dirty : BOOLEAN, persisted : BOOLEAN]

QueueTypeOK ==
    /\ job \in Record \cup {NoJob}
    /\ progress \in Progress
    /\ minted \in BOOLEAN
    /\ pc \in [Tabs -> {"closed", "loading", "idle", "run", "next", "posting", "lookup",
                        "salting", "after", "finish", "closing", "marking", "passEnd", "nap"}]
    /\ \A t \in Tabs : live[t] \in LiveJob \cup {NoJob}
    /\ loc \in [Tabs -> [start : 1..(Len(Tree) + 1), toSalt : SUBSET Entries,
                         chosen : [Entries -> Names]]]

QueueInit ==
    /\ job = NoJob
    /\ progress = [kept |-> {}, blocked |-> {}]
    /\ minted = FALSE
    /\ pc = [t \in Tabs |-> "closed"]
    /\ live = [t \in Tabs |-> NoJob]
    /\ loc = [t \in Tabs |-> NoLoc]

(***************************************************************************)
(* Progress: kept and blocked bits per entry.  Merging ORs them, and kept  *)
(* wins over blocked.                                                      *)
(***************************************************************************)
Resolved(p) == p.kept \cup p.blocked

MergeProgress(p, q) == [kept |-> p.kept \cup q.kept, blocked |-> p.blocked \cup q.blocked]

\* Bug: a salt that comes later replaces the one stored.
MergeSaltsIncoming(stored, incoming) ==
    [e \in Entries |-> IF incoming[e] = NoSalt THEN stored[e] ELSE incoming[e]]

\* The stored salts win: a salt already saved may already name an entry.
MergeSalts(stored, incoming) ==
    [e \in Entries |-> IF stored[e] = NoSalt THEN incoming[e] ELSE stored[e]]

Working(l) == l # NoJob /\ l.rec.keep /\ ~l.rec.done /\ l.rec.list
Unresolved(l) == IF Working(l) THEN Entries \ Resolved(l.progress) ELSE {}

\* Bug: the first member is taken for number 0.
AdoptedAtZero(rec, p, persisted) ==
    [rec |-> rec, progress |-> p, cursor |-> 0, dirty |-> FALSE, persisted |-> persisted]

Adopted(rec, p, persisted) ==
    [rec |-> rec, progress |-> p, cursor |-> 1, dirty |-> FALSE, persisted |-> persisted]

Goto(t, l) == pc' = [pc EXCEPT ![t] = l]
NoProgress == [kept |-> {}, blocked |-> {}]

(***************************************************************************)
(* Loading and enqueueing.                                                 *)
(***************************************************************************)

\* load: the records first, each one's progress after it.
LoadJobs(t) ==
    /\ pc[t] = "closed"
    /\ \/ /\ live' = [live EXCEPT ![t] = IF job = NoJob THEN NoJob ELSE Adopted(job, NoProgress, TRUE)]
          /\ Goto(t, IF job = NoJob THEN "idle" ELSE "loading")
          /\ UNCHANGED faults
       \/ Fault /\ Goto(t, "idle") /\ UNCHANGED live
    /\ UNCHANGED <<job, progress, minted, loc, objects, req, late, drawn>>

\* refresh, for a tab that does not know the job: another tab saved it since.
RefreshUnknown(t) ==
    /\ pc[t] = "idle" /\ live[t] = NoJob /\ job # NoJob
    /\ live' = [live EXCEPT ![t] = Adopted(job, NoProgress, TRUE)]
    /\ Goto(t, "loading")
    /\ UNCHANGED <<job, progress, minted, loc, storeVars>>

\* refresh, for a job the tab knows: it takes salts it did not have.
RefreshKnown(t) ==
    /\ pc[t] \notin {"closed", "loading"} /\ live[t] # NoJob /\ job # NoJob
    /\ live' = [live EXCEPT ![t].rec.salts = MergeSalts(job.salts, @)]
    /\ live' # live
    /\ UNCHANGED <<job, progress, minted, pc, loc, storeVars>>

LoadProgress(t) ==
    /\ pc[t] = "loading"
    /\ \/ live' = [live EXCEPT ![t].progress = progress] /\ UNCHANGED faults
       \/ Fault /\ UNCHANGED live
    /\ Goto(t, "run")
    /\ UNCHANGED <<job, progress, minted, loc, objects, req, late, drawn>>

\* enqueueTree, once the tree is minted: create the record and start the run
\* loop.  A record that cannot be saved is worked from memory.
EnqueueTree(t, keep) ==
    LET rec == [made |-> TRUE, keep |-> keep, list |-> keep, done |-> ~keep,
                salts |-> [e \in Entries |-> NoSalt]] IN
    /\ pc[t] = "idle" /\ ~minted /\ minted' = TRUE
    /\ \/ job' = rec /\ live' = [live EXCEPT ![t] = Adopted(rec, NoProgress, TRUE)] /\ UNCHANGED faults
       \/ Fault /\ live' = [live EXCEPT ![t] = Adopted(rec, NoProgress, FALSE)] /\ UNCHANGED job
    /\ Goto(t, "run")
    /\ UNCHANGED <<progress, loc, objects, req, late, drawn>>

(***************************************************************************)
(* The pump.                                                               *)
(***************************************************************************)

\* kick, from wake: the browser came back online.
Kick(t) ==
    /\ pc[t] = "idle" /\ Working(live[t])
    /\ Goto(t, "run")
    /\ UNCHANGED <<job, progress, minted, live, loc, storeVars>>

\* run: a job whose progress already covers every member is closed out first.
RunStart(t) ==
    /\ pc[t] = "run"
    /\ Goto(t, IF Working(live[t]) /\ Unresolved(live[t]) = {} THEN "finish" ELSE "next")
    /\ UNCHANGED <<job, progress, minted, live, loc, storeVars>>

Pending(l, from, to) == (UNION {Tree[i] : i \in from..to}) \cap Unresolved(l)

\* nextBatch stops before the member that does not fit.
BatchEnd(l) ==
    Max({i \in (l.cursor - 1)..Len(Tree) : Cardinality(Pending(l, l.cursor, i)) <= MaxBatch})

\* nextBatch and the post.
NextBatch(t) ==
    LET l == live[t]
        batch == Pending(l, l.cursor, BatchEnd(l)) IN
    /\ pc[t] = "next"
    /\ live' = [live EXCEPT ![t].cursor = IF Unresolved(l) = {} THEN @ ELSE BatchEnd(l) + 1]
    /\ IF batch = {}
       THEN Goto(t, "passEnd") /\ UNCHANGED <<loc, req>>
       ELSE /\ Post(t, [e \in batch |-> l.rec.salts[e]])
            /\ loc' = [loc EXCEPT ![t] = [NoLoc EXCEPT !.start = l.cursor]]
            /\ Goto(t, "posting")
    /\ UNCHANGED <<job, progress, minted, objects, late, drawn, faults>>

\* The request fails as a whole: the batch is sent again.
PostFails(t) ==
    /\ pc[t] = "posting" /\ Fault
    /\ Abandon(t)
    /\ live' = [live EXCEPT ![t].cursor = loc[t].start]
    /\ loc' = [loc EXCEPT ![t] = NoLoc]
    /\ Goto(t, "next")
    /\ UNCHANGED <<job, progress, minted, objects, drawn>>

\* Bug: whatever is there already counts.
KeptByAny(res) == {e \in DOMAIN res : res[e] # "failed"}

\* The entries that an answer says are kept: created, or there and this member's.
KeptBy(res) == {e \in DOMAIN res : res[e] \in {"created", "mine"}}

\* apply: kept, blocked when even the salted name is held, else a salt is due.
Apply(t) ==
    LET r == req[t]
        held == {e \in DOMAIN r.res : r.res[e] = "other"} \ KeptBy(r.res)
        blocked == {e \in held : r.name[e] # Det}
        news == [kept |-> KeptBy(r.res), blocked |-> blocked] IN
    /\ pc[t] = "posting" /\ AllServed(t)
    /\ live' = [live EXCEPT ![t].progress = MergeProgress(@, news),
                            ![t].dirty = @ \/ Resolved(news) # {}]
    /\ loc' = [loc EXCEPT ![t].toSalt = held \ blocked]
    /\ req' = [req EXCEPT ![t] = NoReq]
    /\ Goto(t, IF held \ blocked = {} THEN "after" ELSE "lookup")
    /\ UNCHANGED <<job, progress, minted, objects, late, drawn, faults>>

\* saltFor, for one entry: an entry of this member may be there already under
\* a salted name; else a fresh salt is drawn.  An address that cannot be read
\* leaves the entry pending.
Lookup(t, e) ==
    LET l == live[t]
        settle(salt, kept) ==
          /\ loc' = [loc EXCEPT ![t].chosen[e] = salt, ![t].toSalt = @ \ {e}]
          /\ live' = [live EXCEPT ![t].progress.kept = @ \cup kept, ![t].dirty = @ \/ kept # {}] IN
    /\ pc[t] = "lookup" /\ e \in loc[t].toSalt
    /\ \/ l.rec.salts[e] # NoSalt /\ settle(NoSalt, {}) /\ UNCHANGED <<drawn, faults>>
       \/ /\ l.rec.salts[e] = NoSalt
          /\ \/ \E n \in Kept(e) : settle(n, {e}) /\ UNCHANGED <<drawn, faults>>
             \/ /\ Kept(e) = {} /\ drawn < MaxSalt
                /\ drawn' = drawn + 1
                /\ settle(drawn + 1, {})
                /\ UNCHANGED faults
             \/ Fault /\ settle(NoSalt, {}) /\ UNCHANGED drawn
    /\ UNCHANGED <<job, progress, minted, pc, objects, req, late>>

\* saltFor, its end: the salts are saved before any write under them.
SaveSalts(t) ==
    LET chosen == loc[t].chosen
        none == \A e \in Entries : chosen[e] = NoSalt IN
    /\ pc[t] = "lookup" /\ loc[t].toSalt = {}
    /\ \/ none /\ UNCHANGED <<job, live, faults>>
       \/ /\ ~none /\ ~live[t].persisted
          /\ live' = [live EXCEPT ![t].rec.salts = MergeSalts(@, chosen)]
          /\ UNCHANGED <<job, faults>>
       \/ /\ ~none /\ live[t].persisted
          /\ job' = [job EXCEPT !.salts = MergeSalts(@, chosen)]
          /\ live' = [live EXCEPT ![t].rec.salts = job'.salts]
          /\ UNCHANGED faults
       \/ ~none /\ live[t].persisted /\ Fault /\ UNCHANGED <<job, live>>
    /\ loc' = [loc EXCEPT ![t] = NoLoc]
    /\ Goto(t, "after")
    /\ UNCHANGED <<progress, minted, objects, req, late, drawn>>

\* persist: OR into the database, and take what other tabs put there.
Persist(t) ==
    IF ~live[t].dirty
    THEN UNCHANGED <<progress, live, faults>>
    ELSE \/ /\ progress' = MergeProgress(progress, live[t].progress)
            /\ live' = [live EXCEPT ![t].progress = MergeProgress(progress', @), ![t].dirty = FALSE]
            /\ UNCHANGED faults
         \/ Fault /\ UNCHANGED <<progress, live>>

\* Bug: a job whose pass met failures is taken for finished.
AfterBatchEager(t) ==
    /\ pc[t] = "after"
    /\ IF Working(live[t]) THEN Goto(t, "finish") ELSE Goto(t, "next")
    /\ UNCHANGED <<job, progress, minted, live, loc, storeVars>>

\* afterBatch: finish, or save the progress when the last save is long ago.
AfterBatch(t) ==
    /\ pc[t] = "after"
    /\ IF Unresolved(live[t]) = {} /\ Working(live[t])
       THEN Goto(t, "finish") /\ UNCHANGED <<progress, live, faults>>
       ELSE /\ Goto(t, "next")
            /\ Persist(t) \/ UNCHANGED <<progress, live, faults>>
    /\ UNCHANGED <<job, minted, loc, objects, req, late, drawn>>

\* A pass is over: save, then end or wait and go round again.
PassEnd(t) ==
    /\ pc[t] = "passEnd"
    /\ Persist(t)
    /\ Goto(t, IF Unresolved(live'[t]) = {} THEN "idle" ELSE "nap")
    /\ UNCHANGED <<job, minted, loc, objects, req, late, drawn>>

\* Bug: the next pass goes on where the last one ended.
NapNoRewind(t) ==
    /\ pc[t] = "nap"
    /\ Goto(t, "next")
    /\ UNCHANGED <<job, progress, minted, live, loc, storeVars>>

\* The next pass starts at the first member.
Nap(t) ==
    /\ pc[t] = "nap"
    /\ live' = [live EXCEPT ![t].cursor = 1]
    /\ Goto(t, "next")
    /\ UNCHANGED <<job, progress, minted, loc, storeVars>>

(***************************************************************************)
(* finish: the progress, then the salts, then the record without its list. *)
(***************************************************************************)
FinishProgress(t) ==
    LET all == MergeProgress(progress, live[t].progress)
        ended(p, dirty) == [live EXCEPT ![t] = [@ EXCEPT !.progress = p, !.dirty = dirty,
                                                         !.rec.done = TRUE, !.rec.list = FALSE]] IN
    /\ pc[t] = "finish"
    /\ \/ progress' = all /\ live' = ended(all, FALSE) /\ UNCHANGED faults
       \/ Fault /\ live' = ended(live[t].progress, TRUE) /\ UNCHANGED progress
    /\ Goto(t, "closing")
    /\ UNCHANGED <<job, minted, loc, objects, req, late, drawn>>

FinishSalts(t) ==
    /\ pc[t] = "closing"
    /\ \/ ~live[t].persisted /\ Goto(t, "marking") /\ UNCHANGED <<job, live, faults>>
       \/ /\ live[t].persisted
          /\ job' = [job EXCEPT !.salts = MergeSalts(@, live[t].rec.salts)]
          /\ live' = [live EXCEPT ![t].rec.salts = job'.salts]
          /\ Goto(t, "marking")
          /\ UNCHANGED faults
       \/ live[t].persisted /\ Fault /\ Goto(t, "next") /\ UNCHANGED <<job, live>>
    /\ UNCHANGED <<progress, minted, loc, objects, req, late, drawn>>

SaveJob(t) ==
    /\ pc[t] = "marking"
    /\ \/ job' = live[t].rec /\ UNCHANGED faults
       \/ Fault /\ UNCHANGED job
    /\ Goto(t, "next")
    /\ UNCHANGED <<progress, minted, live, loc, objects, req, late, drawn>>

\* The page is closed or reloaded: memory is gone, the request may still land.
CloseTab(t) ==
    /\ pc[t] # "closed" /\ Fault
    /\ Abandon(t)
    /\ live' = [live EXCEPT ![t] = NoJob]
    /\ loc' = [loc EXCEPT ![t] = NoLoc]
    /\ Goto(t, "closed")
    /\ UNCHANGED <<job, progress, minted, objects, drawn>>

TabStep(t) ==
    \/ RunStart(t) \/ NextBatch(t) \/ Apply(t) \/ (\E e \in Entries : Lookup(t, e))
    \/ SaveSalts(t) \/ AfterBatch(t) \/ PassEnd(t)
    \/ FinishProgress(t) \/ FinishSalts(t) \/ SaveJob(t)
    \/ LoadProgress(t) \/ Nap(t)

TabNext(t) ==
    \/ TabStep(t) \/ PostFails(t) \/ CloseTab(t) \/ LoadJobs(t) \/ Kick(t)
    \/ RefreshUnknown(t) \/ RefreshKnown(t)
    \/ \E keep \in BOOLEAN : EnqueueTree(t, keep)

=============================================================================
