------------------------------ MODULE Recovery ------------------------------
(***************************************************************************)
(* The recovery copies of one tree: the writers of one kind (the tabs of   *)
(* one browser, or the processes of one command line, whichever minted the *)
(* tree) over the server they share.                                       *)
(***************************************************************************)
EXTENDS RecoveryQueue, RecoveryJobs

\* A tab of a browser is no process of a command line.
ASSUME RecoveryAssumption == Tabs \cap Procs = {}

VARIABLES active,       \* the writers of this behaviour: Tabs or Procs
          raced         \* history: a lock went stale under a live holder, a
                        \* fresh lock was removed for a stale one, or two
                        \* processes registered the job at the same time

vars == <<storeVars, queueVars, jobsVars, active, raced>>

TypeOK ==
    /\ StoreTypeOK
    /\ QueueTypeOK
    /\ JobsTypeOK
    /\ active \in {Tabs, Procs}
    /\ raced \in BOOLEAN

Init ==
    /\ StoreInit
    /\ QueueInit
    /\ JobsInit
    /\ active \in {Tabs, Procs}
    /\ raced = FALSE

Server == ServerNext /\ UNCHANGED <<queueVars, jobsVars, active, raced>>

\* Two of the races that OneSaltedCopy excepts; the third is in Stale.
RegistersOver(p) == ppc[p] = "registering" /\ ppc'[p] = "lock" /\ file # NoFile
RemovesFresh(p) ==
    /\ ppc[p] \in {"stale", "restale"} /\ lock' = NoLock
    /\ lock # NoLock /\ ~lock.stale

Tab(t) == t \in active /\ TabNext(t) /\ UNCHANGED <<jobsVars, active, raced>>
Proc(p) ==
    /\ p \in active /\ ProcNext(p)
    /\ raced' = (raced \/ RegistersOver(p) \/ RemovesFresh(p))
    /\ UNCHANGED <<queueVars, active>>
Stale ==
    /\ GoesStale
    /\ raced' = (raced \/ ppc[lock.token] # "out")
    /\ UNCHANGED <<queueVars, active>>

Next ==
    \/ Server
    \/ \E t \in Tabs : Tab(t)
    \/ \E p \in Procs : Proc(p)
    \/ Stale

Serve == (\E w \in Tabs : \E e \in Unserved(w) : PutIfAbsent(w, e)) /\ UNCHANGED <<queueVars, jobsVars, active, raced>>
Step(t) == t \in active /\ TabStep(t) /\ UNCHANGED <<jobsVars, active, raced>>

(***************************************************************************)
(* The event loop of an open tab runs it on; the server answers.  Nothing  *)
(* makes a user open or close a tab, or start or kill a process.           *)
(***************************************************************************)
Fairness ==
    /\ \A t \in Tabs : WF_vars(Step(t))
    /\ WF_vars(Serve)

Spec == Init /\ [][Next]_vars /\ Fairness

-----------------------------------------------------------------------------
Believed == progress.kept
            \cup (UNION {IF live[t] = NoJob THEN {} ELSE live[t].progress.kept : t \in Tabs})
            \cup (IF file = NoFile THEN {} ELSE file.kept)
            \cup (UNION {mem[p].kept : p \in Procs})

\* An entry that any memory, the browser's database or the job file counts as
\* kept can be read back from the server: a recording shown as recoverable is.
KeptIsThere == \A e \in Believed : Kept(e) # {}

\* The list of a tree is dropped (finish marks the record done without its
\* leaves, runRecoveryJob removes the job file) only when no entry needs it:
\* each is on the server, or held by another under its own name and under
\* the salted one that was tried.
GivenUp(e) == objects[e][Det] = "other" /\ \E n \in Names \ {Det} : objects[e][n] = "other"
ListDroppedWhenWritten ==
    /\ job # NoJob /\ job.keep /\ job.done =>
         \A e \in Entries : Kept(e) # {} \/ GivenUp(e)
    /\ \A p \in Procs : ppc[p] = "ending" =>
         \A e \in Entries : Kept(e) # {} \/ GivenUp(e)

\* No entry is left in two copies: mergeSalts keeps the salt stored first and
\* every tab writes under what came back; a process saves its salt before it
\* writes under it, and the next holder of the lock goes on from there, also
\* after a kill.  Three races are the exception: a holder frozen past
\* LOCK_STALE_MS may wake between looking at its lock and saving; of two
\* processes that saw the same stale lock the later removes the fresh lock of
\* the earlier; and of two that register at once the second replaces the
\* other's state.
OneSaltedCopy == ~raced => \A e \in Entries : Cardinality(Kept(e)) <= 1

\* Work that a tab has taken up ends with every entry kept or blocked, as long
\* as the tab stays open: failed requests, failed saves and conflicts are
\* retried, and no batch is skipped for good.
Covered(t) == Unresolved(live[t]) = {} /\ \A e \in Entries : Kept(e) # {} \/ GivenUp(e)
EntriesLand ==
    \A t \in Tabs :
      (live[t] # NoJob /\ live[t].rec.keep) ~>
        (live[t] = NoJob \/ Covered(t))

=============================================================================
