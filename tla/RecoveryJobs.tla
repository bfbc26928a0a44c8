---------------------------- MODULE RecoveryJobs ----------------------------
(***************************************************************************)
(* The command line's recovery jobs (packages/sdk recovery-jobs.ts, and    *)
(* writeRecoveryEntries of src/recovery-write.ts, which does the writing): *)
(* one job file, a lock file beside it, and several processes.             *)
(*                                                                         *)
(* The lock is created exclusively, goes stale when its holder is frozen   *)
(* or gone, and is then removed and taken over.  Its token fences the old  *)
(* holder: each save first reads whether the lock still carries the token. *)
(* Reading and saving are two operations, so both are steps here.          *)
(***************************************************************************)
EXTENDS RecoveryStore

CONSTANTS Procs         \* subset of Writers

ASSUME RecoveryJobsAssumption == Procs \subseteq Writers

VARIABLES file,         \* the job file's state, or NoFile
          lock,         \* the lock file, or NoLock
          ppc,          \* per process, where it is
          mem,          \* per process, its progress and salts
          todo          \* per process, what it does next (after a save), and its fallbacks

jobsVars == <<file, lock, ppc, mem, todo>>

State == [made : {TRUE}, kept : SUBSET Entries, blocked : SUBSET Entries,
          salts : [Entries -> Names]]
NoFile == [made |-> FALSE]
NoLock == [token |-> "none"]
Fresh == [made |-> TRUE, kept |-> {}, blocked |-> {}, salts |-> [e \in Entries |-> NoSalt]]
NoTodo == [next |-> "none", held |-> {}, fresh |-> {}]

JobsTypeOK ==
    /\ file \in State \cup {NoFile}
    /\ \/ lock = NoLock
       \/ lock \in [token : Procs, stale : BOOLEAN]
    /\ ppc \in [Procs -> {"new", "registering", "lock", "stale", "relock", "restale", "load",
                          "round", "posting", "lookup", "held", "save", "end", "ending",
                          "release", "releasing", "out"}]
    /\ \A p \in Procs : mem[p] \in State
    /\ todo \in [Procs -> [next : {"none", "round", "salted", "exit"}, held : SUBSET Entries,
                           fresh : SUBSET Entries]]

JobsInit ==
    /\ file = NoFile
    /\ lock = NoLock
    /\ ppc = [p \in Procs |-> "new"]
    /\ mem = [p \in Procs |-> Fresh]
    /\ todo = [p \in Procs |-> NoTodo]

At(p, l) == ppc' = [ppc EXCEPT ![p] = l]
PendingOf(s) == Entries \ (s.kept \cup s.blocked)

(***************************************************************************)
(* registerRecoveryJob: a job already there is kept; two processes may     *)
(* both find none.  flushRecoveryJobs starts from a job it listed, which   *)
(* is the first disjunct.                                                  *)
(***************************************************************************)
Register(p) ==
    /\ ppc[p] = "new"
    /\ \/ file # NoFile /\ mem' = [mem EXCEPT ![p] = file] /\ At(p, "lock")
       \/ file = NoFile /\ At(p, "registering") /\ UNCHANGED mem
    /\ UNCHANGED <<file, lock, todo, storeVars>>

RegisterSave(p) ==
    /\ ppc[p] = "registering"
    /\ file' = Fresh
    /\ At(p, "lock")
    /\ UNCHANGED <<lock, mem, todo, storeVars>>

(***************************************************************************)
(* lock: two attempts to create the file, a stale one removed after each.  *)
(***************************************************************************)
TakeLock(p) ==
    /\ ppc[p] \in {"lock", "relock"}
    /\ \/ lock = NoLock /\ lock' = [token |-> p, stale |-> FALSE] /\ At(p, "load")
       \/ /\ lock # NoLock /\ lock.stale
          /\ At(p, IF ppc[p] = "lock" THEN "stale" ELSE "restale")
          /\ UNCHANGED lock
       \/ lock # NoLock /\ ~lock.stale /\ At(p, "out") /\ UNCHANGED lock
    /\ UNCHANGED <<file, mem, todo, storeVars>>

\* What is removed is whatever is there now.
RemoveStale(p) ==
    /\ ppc[p] \in {"stale", "restale"}
    /\ lock' = NoLock
    /\ At(p, IF ppc[p] = "stale" THEN "relock" ELSE "out")
    /\ UNCHANGED <<file, mem, todo, storeVars>>

\* Under the lock, the job as it is on disk now; the snapshot when it is gone.
LoadJob(p) ==
    /\ ppc[p] = "load"
    /\ mem' = [mem EXCEPT ![p] = IF file = NoFile THEN @ ELSE file]
    /\ At(p, "round")
    /\ UNCHANGED <<file, lock, todo, storeVars>>

(***************************************************************************)
(* writeRecoveryEntries.                                                   *)
(***************************************************************************)

\* A round: post what is pending, or stop (nothing left, retries or budget spent).
Round(p) ==
    /\ ppc[p] = "round"
    /\ \/ /\ PendingOf(mem[p]) # {}
          /\ Post(p, [e \in PendingOf(mem[p]) |-> mem[p].salts[e]])
          /\ At(p, "posting")
          /\ todo' = [todo EXCEPT ![p] = NoTodo]
          /\ UNCHANGED faults
       \/ PendingOf(mem[p]) = {} /\ At(p, "end") /\ UNCHANGED <<req, todo, faults>>
       \/ PendingOf(mem[p]) # {} /\ Fault /\ At(p, "end") /\ UNCHANGED <<req, todo>>
    /\ UNCHANGED <<file, lock, mem, objects, late, drawn>>

\* Whatever was answered before the failure is not heard of.
ProcPostFails(p) ==
    /\ ppc[p] = "posting" /\ Fault
    /\ Abandon(p)
    /\ todo' = [todo EXCEPT ![p] = [NoTodo EXCEPT !.next = "round"]]
    /\ At(p, "held")
    /\ UNCHANGED <<file, lock, mem, objects, drawn>>

Answered(res) == {e \in DOMAIN res : res[e] \in {"created", "mine"}}

ProcApply(p) ==
    LET r == req[p]
        held == {e \in DOMAIN r.res : r.res[e] = "other"}
        blocked == {e \in held : r.name[e] # Det} IN
    /\ ppc[p] = "posting" /\ AllServed(p)
    /\ mem' = [mem EXCEPT ![p].kept = @ \cup Answered(r.res), ![p].blocked = @ \cup blocked]
    /\ req' = [req EXCEPT ![p] = NoReq]
    /\ todo' = [todo EXCEPT ![p] = [next |-> "round", held |-> held \ blocked, fresh |-> {}]]
    /\ At(p, IF held \ blocked = {} THEN "held" ELSE "lookup")
    /\ UNCHANGED <<file, lock, objects, late, drawn, faults>>

\* The address is read before a fresh salt.
ProcLookup(p, e) ==
    LET drop == [todo EXCEPT ![p].held = @ \ {e}] IN
    /\ ppc[p] = "lookup" /\ e \in todo[p].held
    /\ \/ /\ \E n \in Kept(e) : mem' = [mem EXCEPT ![p].kept = @ \cup {e}, ![p].salts[e] = n]
          /\ todo' = drop /\ UNCHANGED <<drawn, faults>>
       \/ /\ Kept(e) = {}
          /\ todo' = [drop EXCEPT ![p].fresh = @ \cup {e}]
          /\ IF mem[p].salts[e] # NoSalt
             THEN UNCHANGED <<mem, drawn>>
             ELSE /\ drawn < MaxSalt /\ drawn' = drawn + 1
                  /\ mem' = [mem EXCEPT ![p].salts[e] = drawn + 1]
          /\ UNCHANGED faults
       \/ Fault /\ todo' = drop /\ UNCHANGED <<mem, drawn>>
    /\ UNCHANGED <<file, lock, ppc, objects, req, late>>

\* keep, before the salted writes, or after the batch.
LookedUp(p) ==
    /\ ppc[p] = "lookup" /\ todo[p].held = {}
    /\ todo' = [todo EXCEPT ![p].next = IF todo[p].fresh = {} THEN "round" ELSE "salted"]
    /\ At(p, "held")
    /\ UNCHANGED <<file, lock, mem, storeVars>>

Held(p) == lock # NoLock /\ lock.token = p

\* onState: stop when the lock is another's.
CheckHeld(p) ==
    /\ ppc[p] = "held"
    /\ At(p, IF Held(p) THEN "save" ELSE "release")
    /\ UNCHANGED <<file, lock, mem, todo, storeVars>>

\* onState: the save, the touch, and back to the writer.
SaveState(p) ==
    /\ ppc[p] = "save"
    /\ file' = mem[p]
    /\ lock' = IF Held(p) THEN [lock EXCEPT !.stale = FALSE] ELSE lock
    /\ \/ /\ todo[p].next = "salted"
          /\ Post(p, [e \in todo[p].fresh |-> mem[p].salts[e]])
          /\ todo' = [todo EXCEPT ![p].fresh = {}, ![p].next = "round"]
          /\ At(p, "posting")
       \/ /\ todo[p].next # "salted"
          /\ At(p, IF todo[p].next = "round" THEN "round" ELSE "release")
          /\ UNCHANGED <<req, todo>>
    /\ UNCHANGED <<mem, objects, late, drawn, faults>>

\* The writer returned: with everything done the file goes, else it is saved.
Finished(p) ==
    /\ ppc[p] = "end"
    /\ \/ ~Held(p) /\ At(p, "release") /\ UNCHANGED todo
       \/ Held(p) /\ PendingOf(mem[p]) = {} /\ At(p, "ending") /\ UNCHANGED todo
       \/ /\ Held(p) /\ PendingOf(mem[p]) # {}
          /\ todo' = [todo EXCEPT ![p].next = "exit"] /\ At(p, "save")
    /\ UNCHANGED <<file, lock, mem, storeVars>>

RemoveJob(p) ==
    /\ ppc[p] = "ending"
    /\ file' = NoFile
    /\ At(p, "release")
    /\ UNCHANGED <<lock, mem, todo, storeVars>>

\* release: the lock is read, then removed.
CheckRelease(p) ==
    /\ ppc[p] = "release"
    /\ At(p, IF Held(p) THEN "releasing" ELSE "out")
    /\ UNCHANGED <<file, lock, mem, todo, storeVars>>

Release(p) ==
    /\ ppc[p] = "releasing"
    /\ lock' = NoLock
    /\ At(p, "out")
    /\ UNCHANGED <<file, mem, todo, storeVars>>

\* The lock is untouched for LOCK_STALE_MS: its holder is gone, or (a fault)
\* frozen.
GoesStale ==
    /\ lock # NoLock /\ ~lock.stale
    /\ IF ppc[lock.token] = "out" THEN UNCHANGED faults ELSE Fault
    /\ lock' = [lock EXCEPT !.stale = TRUE]
    /\ UNCHANGED <<file, ppc, mem, todo, objects, req, late, drawn>>

\* Ctrl-C, a crash, the end of the machine's patience.
Kill(p) ==
    /\ ppc[p] \notin {"new", "out"} /\ Fault
    /\ Abandon(p)
    /\ At(p, "out")
    /\ UNCHANGED <<file, lock, mem, todo, objects, drawn>>

ProcNext(p) ==
    \/ Register(p) \/ RegisterSave(p) \/ TakeLock(p) \/ RemoveStale(p) \/ LoadJob(p)
    \/ Round(p) \/ ProcPostFails(p) \/ ProcApply(p) \/ (\E e \in Entries : ProcLookup(p, e))
    \/ LookedUp(p) \/ CheckHeld(p) \/ SaveState(p) \/ Finished(p) \/ RemoveJob(p)
    \/ CheckRelease(p) \/ Release(p) \/ Kill(p)

=============================================================================
