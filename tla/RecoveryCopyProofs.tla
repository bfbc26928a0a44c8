------------------------- MODULE RecoveryCopyProofs -------------------------
(***************************************************************************)
(* OneSaltedCopy for any tree, any number of tabs or processes, any names  *)
(* held by others and any number of faults: no entry is left in two        *)
(* copies, unless one of the three races of the job files happened.        *)
(*                                                                         *)
(* A copy under a salt cannot be taken back, so the argument is about the  *)
(* salts under which a copy is or may still be written.  Among tabs they   *)
(* are the salt of the stored record, which the first to save decides; a   *)
(* job that was never stored has one tab that works it.  Among processes   *)
(* they are in the job file, or their names are taken.  The same lock      *)
(* keeps a process alone with its job, and the file's progress.            *)
(***************************************************************************)
EXTENDS RecoveryProofs

-----------------------------------------------------------------------------
(* The invariants.                                                         *)

\* A request asks for entry e under the name n.
Asked(e, n) == \E w \in Writers : e \in DOMAIN req[w].name /\ req[w].name[e] = n

\* A copy of entry e is, or may still be written, under the salt n.
InPlay(e, n) ==
    /\ n \in Names \ {Det}
    /\ objects[e][n] = "mine" \/ <<e, n>> \in late \/ Asked(e, n)

\* Salts in play are for entries whose own name is held.
HeldInv == \A e \in Entries, n \in Names : InPlay(e, n) => Held0(e)

OneInPlay == \A e \in Entries : \A m, n \in Names : InPlay(e, m) /\ InPlay(e, n) => m = n

\* Before the tree is made there is nothing.
UnmintedInv ==
    ~minted => /\ job = NoJob /\ progress = NoProgress
               /\ \A t \in Tabs : live[t] = NoJob
               /\ \A e \in Entries, n \in Names : ~InPlay(e, n)

\* The salts in play are those of the stored record, and a blocked entry has one.
StoredInv ==
    job # NoJob =>
      /\ \A e \in Entries, n \in Names : InPlay(e, n) => job.salts[e] = n
      /\ \A e \in progress.blocked : job.salts[e] # NoSalt
      /\ \A t \in Tabs : live[t] # NoJob =>
           \A e \in live[t].progress.blocked : job.salts[e] # NoSalt

\* A tab's salts are the stored ones; once it finishes, no entry that needs one is without.
SharedInv(t) ==
    live[t] # NoJob /\ live[t].persisted =>
      /\ \A e \in Entries : live[t].rec.salts[e] # NoSalt => live[t].rec.salts[e] = job.salts[e]
      /\ pc[t] \in {"finish", "closing", "marking"} =>
           \A e \in Entries : Held0(e) => job.salts[e] # NoSalt
      /\ pc[t] = "marking" => live[t].rec.salts = job.salts

\* A job that could not be stored is one tab's; once it is stored after all, it is done.
AloneInv(t) ==
    live[t] # NoJob /\ ~live[t].persisted =>
      /\ job = NoJob =>
           /\ \A u \in Tabs \ {t} : live[u] = NoJob
           /\ \A e \in Entries, n \in Names : InPlay(e, n) => live[t].rec.salts[e] = n
           /\ \A e \in progress.blocked \cup live[t].progress.blocked : live[t].rec.salts[e] # NoSalt
      /\ job # NoJob => live[t].rec.done /\ pc[t] \notin {"closing", "marking"}

\* Only a job that is worked off has a batch under way, and an ended one is done.
WorkInv(t) ==
    /\ pc[t] \in {"posting", "lookup", "finish"} => Working(live[t])
    /\ pc[t] \in {"closing", "marking"} => live[t].rec.done

TabCopies ==
    /\ OneInPlay /\ UnmintedInv /\ StoredInv
    /\ \A t \in Tabs : SharedInv(t) /\ AloneInv(t) /\ WorkInv(t)

\* A process between taking the lock and letting it go; one that has loaded the job.
Inside == {"load", "round", "posting", "lookup", "held", "save", "end", "ending", "release", "releasing"}
Loaded == {"round", "posting", "lookup", "held", "save", "end", "ending"}
\* Where its salts may be newer than the file.
Unsaved == {"lookup", "held", "save", "release", "releasing", "out"}

\* The lock is what it is for.
LockInv == \A p \in Procs : ppc[p] \in Inside => lock = [token |-> p, stale |-> FALSE]

\* The name is taken, or the salt is the file's.
Sure(e, n) == objects[e][n] # "free" \/ (file # NoFile /\ file.salts[e] = n)

\* What is sent, and what processes go on from, is sure.
SureInv ==
    /\ \A e \in Entries, n \in Names : InPlay(e, n) => Sure(e, n)
    /\ \A p \in Procs : ppc[p] \notin Unsaved =>
         \A e \in Entries : mem[p].salts[e] # NoSalt => Sure(e, mem[p].salts[e])

\* s has the salt n for entry e, and others do not hold it.
Usable(s, e, n) == n # NoSalt /\ s.salts[e] = n /\ objects[e][n] # "other"

\* The file's salts, the holder's and the copies agree.
AgreeInv ==
    \A e \in Entries, n \in Names :
      /\ file # NoFile /\ Usable(file, e, n) =>
           /\ \A p \in Procs : ppc[p] \in Loaded => mem[p].salts[e] = n
           /\ \A m \in Kept(e) : m = n
      /\ \A p \in Procs : ppc[p] \in Loaded /\ Usable(mem[p], e, n) => \A m \in Kept(e) : m = n
      /\ n \in Kept(e) => \A m \in Kept(e) : m = n

\* A blocked entry's salt is held by others.
BlockedRight(s) == \A e \in s.blocked : e \in s.kept \/ (s.salts[e] # NoSalt /\ objects[e][s.salts[e]] = "other")
BlockInv ==
    /\ file # NoFile => BlockedRight(file)
    /\ \A p \in Procs : BlockedRight(mem[p])
    /\ \A p \in Procs : ppc[p] = "posting" =>
         \A e \in DOMAIN req[p].name : req[p].name[e] = mem[p].salts[e]

\* A job that is taken away has nothing left to do.
EndInv == \A p \in Procs : ppc[p] = "ending" => PendingOf(mem[p]) = {}

ProcCopies == LockInv /\ SureInv /\ AgreeInv /\ BlockInv /\ EndInv

\* The writers of one kind.
CopyInv ==
    /\ HeldInv
    /\ active = Tabs => TabCopies
    /\ active = Procs /\ ~raced => ProcCopies

-----------------------------------------------------------------------------
(* What is in play.                                                        *)

\* A request names entries, by names.
LEMMA AskedFor ==
    ASSUME TypeInv, NEW w \in Writers
    PROVE  /\ req[w] \in Request /\ DOMAIN req[w].name \subseteq Entries
           /\ \A e \in DOMAIN req[w].name : req[w].name[e] \in Names
<1>1. req[w] \in Request /\ req[w].name \in Partial(Names)
  BY DEF TypeInv, StoreInv, Request
<1> QED
  BY <1>1, PartialHas

\* Nothing of the store is touched.
LEMMA SamePlay ==
    ASSUME UNCHANGED <<objects, req, late>>
    PROVE  \A e, n : InPlay(e, n)' <=> InPlay(e, n)
BY DEF InPlay, Asked

\* A request comes into play.
LEMMA PostPlay ==
    ASSUME TypeInv, UNCHANGED <<objects, late>>, NEW w \in Writers, NEW name, Post(w, name)
    PROVE  \A e, n : InPlay(e, n)' => InPlay(e, n) \/ (e \in DOMAIN name /\ name[e] = n)
<1>1. req'[w] = [name |-> name, res |-> <<>>] /\ \A v \in Writers \ {w} : req'[v] = req[v]
  BY DEF Post, TypeInv, StoreInv
<1>2. \A e, n : Asked(e, n)' => Asked(e, n) \/ (e \in DOMAIN name /\ name[e] = n)
  BY <1>1 DEF Asked
<1> QED
  BY <1>2 DEF InPlay

\* A request leaves it, or is given up.
LEMMA EndPlay ==
    ASSUME TypeInv, UNCHANGED objects, NEW w \in Writers,
           Abandon(w) \/ (req' = [req EXCEPT ![w] = NoReq] /\ UNCHANGED late)
    PROVE  \A e, n : InPlay(e, n)' => InPlay(e, n)
<1>1. req'[w] = NoReq /\ \A v \in Writers \ {w} : req'[v] = req[v]
  BY DEF Abandon, TypeInv, StoreInv
<1>2. DOMAIN NoReq.name = {}
  BY NoReqIs
<1>3. \A e, n : Asked(e, n)' => Asked(e, n)
  BY <1>1, <1>2 DEF Asked
<1>4. \A e, n : <<e, n>> \in late' => <<e, n>> \in late \/ Asked(e, n)
  BY DEF Abandon, Unserved, Asked
<1> QED
  BY <1>3, <1>4 DEF InPlay

\* The server writes what is in play, if it writes at all.
LEMMA ServerPlay ==
    ASSUME TypeInv, ServerNext
    PROVE  /\ \A e \in Entries, n \in Names : InPlay(e, n)' => InPlay(e, n)
           /\ \A e \in Entries, n \in Names :
                objects'[e][n] # objects[e][n] =>
                  /\ objects[e][n] = "free" /\ objects'[e][n] = "mine"
                  /\ n # Det => InPlay(e, n)
<1>1. objects \in [Entries -> [Names -> {"free", "mine", "other"}]] /\ req \in [Writers -> Request]
  BY DEF TypeInv, StoreInv
<1>2. ASSUME NEW d \in Entries, NEW k \in Names, UNCHANGED objects \/ Created(d, k)
      PROVE  \A e \in Entries, n \in Names :
               objects'[e][n] # objects[e][n] =>
                 objects[e][n] = "free" /\ objects'[e][n] = "mine" /\ e = d /\ n = k
  BY <1>1, <1>2 DEF Created
<1>3. ASSUME NEW w \in Writers, NEW d \in DOMAIN req[w].name, PutIfAbsent(w, d)
      PROVE  /\ UNCHANGED late /\ \A e, n : Asked(e, n)' => Asked(e, n)
             /\ d \in Entries /\ req[w].name[d] \in Names /\ Asked(d, req[w].name[d])
             /\ UNCHANGED objects \/ Created(d, req[w].name[d])
  <2>1. UNCHANGED late /\ (UNCHANGED objects \/ Created(d, req[w].name[d]))
        /\ \E a : Answer(w, d, a)
    BY <1>3 DEF PutIfAbsent
  <2>2. PICK a : Answer(w, d, a)
    BY <2>1
  <2>3. \A v \in Writers : req'[v].name = req[v].name
    BY <1>1, <2>2 DEF Answer, Request
  <2>4. d \in Entries /\ req[w].name[d] \in Names
    BY AskedFor
  <2> QED
    BY <2>1, <2>3, <2>4 DEF Asked
<1>4. ASSUME NEW p \in late, LatePut(p[1], p[2]) \/ LateLost(p[1], p[2])
      PROVE  /\ late' \subseteq late /\ UNCHANGED req
             /\ p[1] \in Entries /\ p[2] \in Names /\ <<p[1], p[2]>> \in late
             /\ UNCHANGED objects \/ Created(p[1], p[2])
  BY <1>4 DEF LatePut, LateLost, TypeInv, StoreInv
<1>5. ASSUME NEW d \in Entries, NEW k \in Names, <<d, k>> \in late \/ Asked(d, k),
             UNCHANGED objects \/ Created(d, k),
             late' \subseteq late, \A e, n : Asked(e, n)' => Asked(e, n)
      PROVE  /\ \A e \in Entries, n \in Names : InPlay(e, n)' => InPlay(e, n)
             /\ \A e \in Entries, n \in Names :
                  objects'[e][n] # objects[e][n] =>
                    /\ objects[e][n] = "free" /\ objects'[e][n] = "mine"
                    /\ n # Det => InPlay(e, n)
  <2>1. \A e \in Entries, n \in Names :
          objects'[e][n] # objects[e][n] =>
            objects[e][n] = "free" /\ objects'[e][n] = "mine" /\ e = d /\ n = k
    BY <1>2, <1>5
  <2> QED
    BY <1>5, <2>1 DEF InPlay
<1>6. ASSUME NEW w \in Writers, NEW d \in DOMAIN req[w].name, PutIfAbsent(w, d)
      PROVE  /\ \A e \in Entries, n \in Names : InPlay(e, n)' => InPlay(e, n)
             /\ \A e \in Entries, n \in Names :
                  objects'[e][n] # objects[e][n] =>
                    /\ objects[e][n] = "free" /\ objects'[e][n] = "mine"
                    /\ n # Det => InPlay(e, n)
  <2>1. PICK k \in Names : k = req[w].name[d]
    BY <1>3, <1>6
  <2> QED
    BY <1>3, <1>5, <1>6, <2>1
<1>7. ASSUME NEW p \in late, LatePut(p[1], p[2]) \/ LateLost(p[1], p[2])
      PROVE  /\ \A e \in Entries, n \in Names : InPlay(e, n)' => InPlay(e, n)
             /\ \A e \in Entries, n \in Names :
                  objects'[e][n] # objects[e][n] =>
                    /\ objects[e][n] = "free" /\ objects'[e][n] = "mine"
                    /\ n # Det => InPlay(e, n)
  <2>1. \A e, n : Asked(e, n)' => Asked(e, n)
    BY <1>4, <1>7 DEF Asked
  <2> QED
    BY <1>4, <1>5, <1>7, <2>1
<1> QED
  BY <1>6, <1>7 DEF ServerNext

\* What another holds is what it was.
LEMMA ServerHeld ==
    ASSUME TypeInv, ServerNext
    PROVE  /\ \A e \in Entries, n \in Names : objects'[e][n] = "other" <=> objects[e][n] = "other"
           /\ \A e \in Entries : Held0(e)' <=> Held0(e)
<1>1. \A e \in Entries, n \in Names : objects'[e][n] = "other" <=> objects[e][n] = "other"
  <2>1. ASSUME NEW e \in Entries, NEW n \in Names
        PROVE  objects'[e][n] = "other" <=> objects[e][n] = "other"
    <3>1. CASE objects'[e][n] = objects[e][n]
      BY <3>1
    <3>2. CASE objects'[e][n] # objects[e][n]
      BY <3>2, ServerPlay
    <3> QED
      BY <3>1, <3>2
  <2> QED
    BY <2>1
<1>2. Det \in Names
  BY NamesAre DEF Det, NoSalt
<1> QED
  BY <1>1, <1>2 DEF Held0

\* A writer's step puts into play what it asks for, and nothing else.
LEMMA WriterPlay ==
    ASSUME TypeInv, UNCHANGED objects, NEW w \in Writers, UNCHANGED late \/ Abandon(w)
    PROVE  \A e, n : InPlay(e, n)' => InPlay(e, n) \/ Asked(e, n)'
<1>1. \A e, n : <<e, n>> \in late' => <<e, n>> \in late \/ Asked(e, n)
  BY DEF Abandon, Unserved, Asked
<1> QED
  BY <1>1 DEF InPlay

\* A tab leaves late puts to the server.
LEMMA TabLate == ASSUME NEW t \in Tabs, TabNext(t) PROVE UNCHANGED late \/ Abandon(t)
<1>1. CASE PostFails(t) \/ CloseTab(t)
  BY <1>1 DEF PostFails, CloseTab
<1>2. CASE LoadJobs(t) \/ Kick(t) \/ RefreshUnknown(t) \/ RefreshKnown(t) \/ \E keep \in BOOLEAN : EnqueueTree(t, keep)
  BY <1>2 DEF LoadJobs, Kick, RefreshUnknown, RefreshKnown, EnqueueTree, storeVars
<1>3. CASE TabStep(t)
  BY <1>3 DEF TabStep, RunStart, NextBatch, Apply, Lookup, SaveSalts, AfterBatch, PassEnd, FinishProgress,
              FinishSalts, SaveJob, LoadProgress, Nap, storeVars
<1> QED
  BY <1>1, <1>2, <1>3 DEF TabNext

\* So does a process.
LEMMA ProcLate == ASSUME NEW p \in Procs, ProcNext(p) PROVE UNCHANGED late \/ Abandon(p)
<1>1. CASE ProcPostFails(p) \/ Kill(p)
  BY <1>1 DEF ProcPostFails, Kill
<1>2. CASE Register(p) \/ RegisterSave(p) \/ TakeLock(p) \/ RemoveStale(p) \/ LoadJob(p) \/ Round(p)
  BY <1>2 DEF Register, RegisterSave, TakeLock, RemoveStale, LoadJob, Round, storeVars
<1>3. CASE ProcApply(p) \/ (\E e \in Entries : ProcLookup(p, e)) \/ LookedUp(p) \/ CheckHeld(p) \/ SaveState(p)
  BY <1>3 DEF ProcApply, ProcLookup, LookedUp, CheckHeld, SaveState, storeVars
<1>4. CASE Finished(p) \/ RemoveJob(p) \/ CheckRelease(p) \/ Release(p)
  BY <1>4 DEF Finished, RemoveJob, CheckRelease, Release, storeVars
<1> QED
  BY <1>1, <1>2, <1>3, <1>4 DEF ProcNext

\* What is asked for under a salt is held under its own name, and stays so.
LEMMA HeldStays ==
    ASSUME TypeInv, TypeInv', Lasting, AnswerInv', HeldInv,
           \A e \in Entries, n \in Names : InPlay(e, n)' => InPlay(e, n) \/ Asked(e, n)'
    PROVE  HeldInv'
<1> SUFFICES ASSUME NEW e \in Entries, NEW n \in Names, InPlay(e, n)' PROVE Held0(e)'
  BY DEF HeldInv
<1>1. CASE InPlay(e, n)
  BY <1>1, FactsLast DEF HeldInv, TypeInv
<1>2. CASE Asked(e, n)'
  <2>1. PICK w \in Writers : e \in DOMAIN req'[w].name /\ req'[w].name[e] = n
    BY <1>2 DEF Asked
  <2>2. n # Det
    BY DEF InPlay
  <2> QED
    BY <2>1, <2>2 DEF AnswerInv
<1> QED
  BY <1>1, <1>2

\* Every step keeps the own names held of what is in play.
LEMMA NextHeld ==
    ASSUME TypeInv, BeliefInv, HeldInv, [Next]_vars
    PROVE  HeldInv'
<1>1. TypeInv' /\ Lasting /\ AnswerInv' /\ Tabs \subseteq Writers /\ Procs \subseteq Writers
  BY NextTypes, NextBelief, WritersAre DEF BeliefInv
<1>2. SUFFICES \A e \in Entries, n \in Names : InPlay(e, n)' => InPlay(e, n) \/ Asked(e, n)'
  BY <1>1, HeldStays
<1>3. CASE Server
  BY <1>3, ServerPlay DEF Server
<1>4. ASSUME NEW t \in Tabs, Tab(t)
      PROVE  \A e \in Entries, n \in Names : InPlay(e, n)' => InPlay(e, n) \/ Asked(e, n)'
  <2>1. UNCHANGED objects /\ (UNCHANGED late \/ Abandon(t))
    BY <1>4, TabNextTypes, TabLate DEF Tab
  <2> QED
    BY <1>1, <2>1, WriterPlay
<1>5. ASSUME NEW p \in Procs, Proc(p)
      PROVE  \A e \in Entries, n \in Names : InPlay(e, n)' => InPlay(e, n) \/ Asked(e, n)'
  <2>1. UNCHANGED objects /\ (UNCHANGED late \/ Abandon(p))
    BY <1>5, ProcNextTypes, ProcLate DEF Proc
  <2> QED
    BY <1>1, <2>1, WriterPlay
<1>6. CASE Stale \/ UNCHANGED vars
  BY <1>6, SamePlay DEF Stale, GoesStale, vars, storeVars
<1> QED
  BY <1>3, <1>4, <1>5, <1>6 DEF Next

-----------------------------------------------------------------------------
(* Tabs: what a step of one has to keep.                                   *)

\* The record is stored, and keeps its salts.
LEMMA StoredMoves ==
    ASSUME TypeInv, TypeInv', BeliefInv', TabCopies, NEW t \in Tabs, UNCHANGED objects,
           minted', job # NoJob, job' # NoJob,
           \A u \in Tabs \ {t} : live'[u] = live[u] /\ pc'[u] = pc[u],
           \A e \in Entries : job.salts[e] # NoSalt => job'.salts[e] = job.salts[e],
           \A e \in Entries, n \in Names : InPlay(e, n)' => InPlay(e, n) \/ job'.salts[e] = n,
           \A e \in progress'.blocked : job'.salts[e] # NoSalt,
           live'[t] # NoJob => \A e \in live'[t].progress.blocked : job'.salts[e] # NoSalt,
           SharedInv(t)', AloneInv(t)', WorkInv(t)'
    PROVE  TabCopies'
<1>1. job \in Record /\ job' \in Record /\ \A e \in Entries : job'.salts[e] # NoSalt => Held0(e)'
  BY DEF TypeInv, QueueInv, BeliefInv, QueueBelief, JobSound, SaltsSound
<1>2. \A e \in Entries, n \in Names : InPlay(e, n)' => job'.salts[e] = n
  <2> SUFFICES ASSUME NEW e \in Entries, NEW n \in Names, InPlay(e, n)' PROVE job'.salts[e] = n
    OBVIOUS
  <2>1. CASE InPlay(e, n)
    <3>1. job.salts[e] = n /\ n # NoSalt
      BY <2>1 DEF TabCopies, StoredInv, InPlay, Det, NoSalt
    <3> QED
      BY <3>1
  <2> QED
    BY <2>1
<1>3. \A u \in Tabs : live'[u] # NoJob => \A e \in live'[u].progress.blocked : job'.salts[e] # NoSalt
  <2> SUFFICES ASSUME NEW u \in Tabs \ {t}, live'[u] # NoJob, NEW e \in live'[u].progress.blocked
               PROVE  job'.salts[e] # NoSalt
    OBVIOUS
  <2>1. live'[u] = live[u] /\ live[u] \in LiveJob
    BY DEF TypeInv, QueueInv
  <2>2. e \in Entries /\ job.salts[e] # NoSalt
    BY <2>1, NoJobIs DEF TabCopies, StoredInv, LiveJob, Progress
  <2> QED
    BY <2>2
<1>4. StoredInv'
  BY <1>2, <1>3 DEF StoredInv
<1>5. OneInPlay' /\ UnmintedInv'
  BY <1>2 DEF OneInPlay, UnmintedInv
<1>6. ASSUME NEW u \in Tabs \ {t} PROVE SharedInv(u)' /\ AloneInv(u)' /\ WorkInv(u)'
  <2>1. live'[u] = live[u] /\ pc'[u] = pc[u] /\ SharedInv(u) /\ AloneInv(u) /\ WorkInv(u)
    BY DEF TabCopies
  <2>2. \A e \in Entries : Held0(e)' = Held0(e)
    BY DEF Held0
  <2>3. ASSUME live[u] # NoJob, live[u].persisted, pc[u] \in {"finish", "closing", "marking"}
        PROVE  job'.salts = job.salts
    <3>1. ASSUME NEW e \in Entries PROVE job'.salts[e] = job.salts[e]
      <4>1. CASE Held0(e)
        BY <2>1, <2>3, <4>1 DEF SharedInv
      <4>2. CASE ~Held0(e)
        BY <1>1, <2>2, <4>2
      <4> QED
        BY <4>1, <4>2
    <3>2. job.salts \in [Entries -> Names] /\ job'.salts \in [Entries -> Names]
      BY <1>1 DEF Record
    <3> QED
      BY <3>1, <3>2
  <2>4. SharedInv(u)'
    BY <2>1, <2>2, <2>3 DEF SharedInv
  <2>5. AloneInv(u)' /\ WorkInv(u)'
    BY <2>1 DEF AloneInv, WorkInv
  <2> QED
    BY <2>4, <2>5
<1> QED
  BY <1>4, <1>5, <1>6 DEF TabCopies

\* The record is not stored, and this tab works the job.
LEMMA AloneMoves ==
    ASSUME TypeInv, TypeInv', TabCopies, NEW t \in Tabs,
           minted', job = NoJob, job' = NoJob, live[t] # NoJob,
           \A u \in Tabs \ {t} : live'[u] = live[u] /\ pc'[u] = pc[u],
           \/ live'[t] = NoJob /\ \A e \in Entries, n \in Names : InPlay(e, n)' => InPlay(e, n)
           \/ /\ live'[t] # NoJob
              /\ \A e \in Entries, n \in Names : InPlay(e, n)' => live'[t].rec.salts[e] = n
              /\ \A e \in progress'.blocked \cup live'[t].progress.blocked : live'[t].rec.salts[e] # NoSalt,
           WorkInv(t)'
    PROVE  TabCopies'
<1>1. ~live[t].persisted /\ AloneInv(t)
  BY DEF TypeInv, QueueInv, TabCopies
<1>2. \A u \in Tabs \ {t} : live'[u] = NoJob
  BY <1>1 DEF AloneInv
<1>3. OneInPlay'
  BY DEF OneInPlay, TabCopies
<1>4. UnmintedInv' /\ StoredInv'
  BY DEF UnmintedInv, StoredInv
<1>5. live'[t] # NoJob => ~live'[t].persisted
  BY DEF TypeInv, QueueInv
<1>6. SharedInv(t)' /\ AloneInv(t)'
  BY <1>2, <1>5 DEF SharedInv, AloneInv
<1>7. \A u \in Tabs \ {t} : SharedInv(u)' /\ AloneInv(u)' /\ WorkInv(u)'
  BY <1>2 DEF SharedInv, AloneInv, WorkInv, TabCopies
<1> QED
  BY <1>3, <1>4, <1>6, <1>7 DEF TabCopies

\* There is no job that this tab knows.
LEMMA QuietMoves ==
    ASSUME TypeInv, TypeInv', TabCopies, NEW t \in Tabs,
           UNCHANGED <<job, live, minted, progress>>, job = NoJob, live[t] = NoJob,
           \A u \in Tabs \ {t} : pc'[u] = pc[u],
           \A e \in Entries, n \in Names : InPlay(e, n)' => InPlay(e, n),
           WorkInv(t)'
    PROVE  TabCopies'
<1>1. OneInPlay' /\ UnmintedInv' /\ StoredInv'
  BY DEF OneInPlay, UnmintedInv, StoredInv, TabCopies
<1>2. ASSUME NEW u \in Tabs PROVE SharedInv(u)' /\ AloneInv(u)'
  <2>1. live'[u] # NoJob => u # t /\ ~live'[u].persisted /\ live[u] = live'[u]
    BY DEF TypeInv, QueueInv
  <2>2. AloneInv(u)
    BY DEF TabCopies
  <2>3. SharedInv(u)'
    BY <2>1 DEF SharedInv
  <2>4. AloneInv(u)'
    BY <2>1, <2>2 DEF AloneInv
  <2> QED
    BY <2>3, <2>4
<1>3. \A u \in Tabs : WorkInv(u)'
  BY DEF WorkInv, TabCopies
<1> QED
  BY <1>1, <1>2, <1>3 DEF TabCopies

\* A tab that finishes has no entry left that needs a salt and has none.
LEMMA FinishReady ==
    ASSUME TypeInv, BeliefInv, HeldInv, TabCopies, NEW t \in Tabs, job # NoJob,
           live[t] # NoJob, Working(live[t]), Unresolved(live[t]) = {}
    PROVE  \A e \in Entries : Held0(e) => job.salts[e] # NoSalt
<1> SUFFICES ASSUME NEW e \in Entries, Held0(e) PROVE job.salts[e] # NoSalt
  OBVIOUS
<1>1. e \in live[t].progress.kept \/ e \in live[t].progress.blocked
  BY DEF Unresolved, Resolved
<1>2. CASE e \in live[t].progress.kept
  <2>1. PICK n \in Names : objects[e][n] = "mine"
    BY <1>2 DEF BeliefInv, QueueBelief, LiveSound, Sound, Kept
  <2>2. n # Det
    BY <2>1 DEF Held0
  <2>3. InPlay(e, n)
    BY <2>1, <2>2 DEF InPlay
  <2> QED
    BY <2>2, <2>3 DEF TabCopies, StoredInv, Det, NoSalt
<1>3. CASE e \in live[t].progress.blocked
  BY <1>3 DEF TabCopies, StoredInv
<1> QED
  BY <1>1, <1>2, <1>3

\* A step that leaves the salts as they are.
LEMMA CalmMoves ==
    ASSUME TypeInv, TypeInv', BeliefInv, BeliefInv', HeldInv, TabCopies, NEW t \in Tabs,
           UNCHANGED <<objects, job, minted>>,
           \A u \in Tabs \ {t} : live'[u] = live[u] /\ pc'[u] = pc[u],
           \A e \in Entries, n \in Names : InPlay(e, n)' => InPlay(e, n),
           \/ live'[t] = NoJob /\ UNCHANGED progress
           \/ /\ live[t] # NoJob /\ live'[t] # NoJob
              /\ live'[t].persisted = live[t].persisted /\ live'[t].rec.salts = live[t].rec.salts
              /\ live[t].rec.done => live'[t].rec.done
              /\ live'[t].progress.blocked \subseteq live[t].progress.blocked \cup progress.blocked
              /\ progress'.blocked \subseteq live[t].progress.blocked \cup progress.blocked,
           WorkInv(t)', pc'[t] # "marking",
           pc'[t] = "closing" => pc[t] = "finish",
           pc'[t] = "finish" => Working(live[t]) /\ Unresolved(live[t]) = {}
    PROVE  TabCopies'
<1>0. SharedInv(t) /\ AloneInv(t) /\ WorkInv(t) /\ StoredInv /\ UnmintedInv
  BY DEF TabCopies
<1>1. CASE job # NoJob
  <2>1. minted'
    BY <1>0, <1>1 DEF UnmintedInv
  <2>2. SharedInv(t)'
    <3> SUFFICES ASSUME live'[t] # NoJob, live'[t].persisted
                 PROVE  /\ \A e \in Entries : live'[t].rec.salts[e] # NoSalt => live'[t].rec.salts[e] = job.salts[e]
                        /\ pc'[t] \in {"finish", "closing"} => \A e \in Entries : Held0(e) => job.salts[e] # NoSalt
      BY DEF SharedInv, Held0
    <3>1. live[t] # NoJob /\ live[t].persisted /\ live'[t].rec.salts = live[t].rec.salts
      OBVIOUS
    <3> QED
      BY <1>0, <1>1, <3>1, FinishReady DEF SharedInv
  <2>3. AloneInv(t)'
    BY <1>0, <1>1 DEF AloneInv, WorkInv, Working
  <2>4. /\ \A e \in progress'.blocked : job.salts[e] # NoSalt
        /\ live'[t] # NoJob => \A e \in live'[t].progress.blocked : job.salts[e] # NoSalt
    BY <1>0, <1>1 DEF StoredInv
  <2> QED
    BY <1>1, <2>1, <2>2, <2>3, <2>4, StoredMoves
<1>2. CASE job = NoJob /\ live[t] # NoJob
  <2>1. minted' /\ job' = NoJob
    BY <1>0, <1>2 DEF UnmintedInv
  <2>2. ~live[t].persisted
    BY <1>2 DEF TypeInv, QueueInv
  <2>3. /\ \A e \in Entries, n \in Names : InPlay(e, n) => live[t].rec.salts[e] = n
        /\ \A e \in progress.blocked \cup live[t].progress.blocked : live[t].rec.salts[e] # NoSalt
    BY <1>0, <1>2, <2>2 DEF AloneInv
  <2>4. \/ live'[t] = NoJob
        \/ /\ live'[t] # NoJob
           /\ \A e \in Entries, n \in Names : InPlay(e, n)' => live'[t].rec.salts[e] = n
           /\ \A e \in progress'.blocked \cup live'[t].progress.blocked : live'[t].rec.salts[e] # NoSalt
    BY <2>3
  <2> QED
    BY <1>2, <2>1, <2>4, AloneMoves
<1>3. CASE job = NoJob /\ live[t] = NoJob
  <2>1. live'[t] = NoJob /\ UNCHANGED progress
    BY <1>3
  <2>2. live' = live
    BY <1>3, <2>1 DEF TypeInv, QueueInv
  <2> QED
    BY <1>3, <2>1, <2>2, QuietMoves
<1> QED
  BY <1>1, <1>2, <1>3

-----------------------------------------------------------------------------
(* Tabs: the steps.                                                        *)

\* A step of a tab is its own.
LEMMA OwnStep ==
    ASSUME TypeInv, NEW t \in Tabs, NEW l, live' = [live EXCEPT ![t] = l], NEW s, Goto(t, s)
    PROVE  /\ live'[t] = l /\ pc'[t] = s
           /\ \A u \in Tabs \ {t} : live'[u] = live[u] /\ pc'[u] = pc[u]
BY DEF TypeInv, QueueInv, Goto

\* The part of a job in memory that the salts are about.
SameWork(l, k) ==
    /\ k # NoJob /\ k.persisted = l.persisted /\ k.rec = l.rec
    /\ k.progress.blocked \subseteq l.progress.blocked \cup progress.blocked

\* Saving the progress leaves it.
LEMMA PersistKeeps ==
    ASSUME TypeInv, NEW t \in Tabs, live[t] \in LiveJob, Persist(t)
    PROVE  /\ \E l : live' = [live EXCEPT ![t] = l] /\ SameWork(live[t], l)
           /\ progress'.blocked \subseteq live[t].progress.blocked \cup progress.blocked
<1>1. live = [live EXCEPT ![t] = live[t]] /\ SameWork(live[t], live[t])
  BY NoJobIs DEF TypeInv, QueueInv, SameWork
<1>2. CASE UNCHANGED <<progress, live>>
  BY <1>1, <1>2
<1>3. CASE /\ progress' = MergeProgress(progress, live[t].progress)
           /\ live' = [live EXCEPT ![t].progress = MergeProgress(progress', @), ![t].dirty = FALSE]
  <2>1. PICK p \in Progress : /\ p = MergeProgress(progress', live[t].progress)
                              /\ p.blocked \subseteq live[t].progress.blocked \cup progress.blocked
    BY <1>3 DEF MergeProgress, TypeInv, QueueInv, LiveJob, Progress
  <2>2. PICK l : l = [live[t] EXCEPT !.progress = p, !.dirty = FALSE]
    OBVIOUS
  <2>3. live' = [live EXCEPT ![t] = l] /\ SameWork(live[t], l)
    <3>1. live' = [live EXCEPT ![t] = l]
      BY <1>3, <2>1, <2>2
    <3>2. l \in LiveJob /\ l.persisted = live[t].persisted
      BY <2>2, LiveParts
    <3>3. l.rec = live[t].rec /\ l.progress = p
      BY <2>2 DEF LiveJob
    <3> QED
      BY <2>1, <3>1, <3>2, <3>3, NoJobIs DEF SameWork
  <2>4. progress'.blocked \subseteq live[t].progress.blocked \cup progress.blocked
    BY <1>3 DEF MergeProgress
  <2> QED
    BY <2>3, <2>4
<1> QED
  BY <1>2, <1>3 DEF Persist

\* A step that does nothing to the salts.
LEMMA CalmStep ==
    ASSUME TypeInv, TypeInv', BeliefInv, BeliefInv', HeldInv, TabCopies, NEW t \in Tabs,
           UNCHANGED <<objects, job, minted>>,
           \A e \in Entries, n \in Names : InPlay(e, n)' => InPlay(e, n),
           live[t] # NoJob, NEW l, live' = [live EXCEPT ![t] = l], SameWork(live[t], l),
           NEW s, Goto(t, s), s \notin {"closing", "marking"},
           progress'.blocked \subseteq live[t].progress.blocked \cup progress.blocked,
           s \in {"posting", "lookup"} => Working(live[t]),
           s = "finish" => Working(live[t]) /\ Unresolved(live[t]) = {}
    PROVE  TabCopies'
<1>1. /\ live'[t] = l /\ pc'[t] = s
      /\ \A u \in Tabs \ {t} : live'[u] = live[u] /\ pc'[u] = pc[u]
  BY OwnStep
<1>2. Working(l) <=> Working(live[t])
  BY DEF Working, SameWork
<1>3. WorkInv(t)'
  BY <1>1, <1>2 DEF WorkInv, Working
<1> QED
  BY <1>1, <1>3, CalmMoves DEF SameWork

\* Loading, waking and waiting.
LEMMA PumpCopies ==
    ASSUME TypeInv, TypeInv', BeliefInv, BeliefInv', HeldInv, TabCopies, NEW t \in Tabs,
           LoadProgress(t) \/ Kick(t) \/ RunStart(t) \/ Nap(t)
    PROVE  TabCopies'
<1>1. UNCHANGED <<objects, job, minted, req, late, progress>>
  BY DEF LoadProgress, Kick, RunStart, Nap, storeVars
<1>2. \A e \in Entries, n \in Names : InPlay(e, n)' => InPlay(e, n)
  BY <1>1, SamePlay
<1>3. live[t] \in LiveJob /\ live[t] # NoJob
  <2>1. CASE Kick(t)
    BY <2>1 DEF Kick, Working, TypeInv, QueueInv
  <2>2. CASE ~Kick(t)
    <3>1. pc[t] \notin {"closed", "idle"}
      BY <2>2 DEF LoadProgress, RunStart, Nap
    <3> QED
      BY <3>1, RunsWithJob, NoJobIs DEF TypeInv
  <2> QED
    BY <2>1, <2>2
<1>4. SameWork(live[t], live[t]) /\ live = [live EXCEPT ![t] = live[t]]
  BY <1>3 DEF SameWork, TypeInv, QueueInv
<1>5. \E l : live' = [live EXCEPT ![t] = l] /\ SameWork(live[t], l)
  <2>1. PICK p \in Progress : p = progress
    BY DEF TypeInv, QueueInv
  <2>2. SameWork(live[t], [live[t] EXCEPT !.progress = p]) /\ SameWork(live[t], [live[t] EXCEPT !.cursor = 1])
    <3>1. [live[t] EXCEPT !.progress = p] \in LiveJob /\ [live[t] EXCEPT !.cursor = 1] \in LiveJob
      BY <1>3, TreeIs DEF LiveJob
    <3> QED
      BY <1>3, <2>1, <3>1, NoJobIs DEF SameWork, LiveJob
  <2>3. \/ live' = live \/ live' = [live EXCEPT ![t] = [live[t] EXCEPT !.progress = p]]
        \/ live' = [live EXCEPT ![t] = [live[t] EXCEPT !.cursor = 1]]
    BY <2>1 DEF LoadProgress, Kick, RunStart, Nap
  <2> QED
    BY <1>4, <2>2, <2>3
<1>6. PICK l : live' = [live EXCEPT ![t] = l] /\ SameWork(live[t], l)
  BY <1>5
<1>7. PICK s : /\ Goto(t, s) /\ s \in {"run", "finish", "next"}
               /\ s = "finish" => Working(live[t]) /\ Unresolved(live[t]) = {}
  BY DEF LoadProgress, Kick, RunStart, Nap
<1> QED
  BY <1>1, <1>2, <1>3, <1>6, <1>7, CalmStep

\* afterBatch, the end of a pass, and what saltFor looks up.
LEMMA PassCopies ==
    ASSUME TypeInv, TypeInv', BeliefInv, BeliefInv', HeldInv, TabCopies, NEW t \in Tabs,
           AfterBatch(t) \/ PassEnd(t) \/ \E e \in Entries : Lookup(t, e)
    PROVE  TabCopies'
<1>1. UNCHANGED <<objects, job, minted, req, late>>
  BY DEF AfterBatch, PassEnd, Lookup
<1>2. \A e \in Entries, n \in Names : InPlay(e, n)' => InPlay(e, n)
  BY <1>1, SamePlay
<1>3. live[t] \in LiveJob /\ live[t] # NoJob
  BY RunsWithJob, NoJobIs DEF AfterBatch, PassEnd, Lookup, TypeInv
<1>4. SameWork(live[t], live[t]) /\ live = [live EXCEPT ![t] = live[t]]
  BY <1>3 DEF SameWork, TypeInv, QueueInv
<1>5. CASE AfterBatch(t) \/ PassEnd(t)
  <2>1. /\ \E l : live' = [live EXCEPT ![t] = l] /\ SameWork(live[t], l)
        /\ progress'.blocked \subseteq live[t].progress.blocked \cup progress.blocked
    BY <1>3, <1>4, <1>5, PersistKeeps DEF AfterBatch, PassEnd
  <2>2. PICK l : live' = [live EXCEPT ![t] = l] /\ SameWork(live[t], l)
    BY <2>1
  <2>3. PICK s : /\ Goto(t, s) /\ s \in {"finish", "next", "idle", "nap"}
                 /\ s = "finish" => Working(live[t]) /\ Unresolved(live[t]) = {}
    BY <1>5 DEF AfterBatch, PassEnd
  <2> QED
    BY <1>1, <1>2, <1>3, <2>1, <2>2, <2>3, CalmStep
<1>6. ASSUME NEW e \in Entries, Lookup(t, e) PROVE TabCopies'
  <2>1. \E K, d : live' = [live EXCEPT ![t].progress.kept = @ \cup K, ![t].dirty = d]
    BY <1>6 DEF Lookup
  <2>2. PICK K, d : live' = [live EXCEPT ![t].progress.kept = @ \cup K, ![t].dirty = d]
    BY <2>1
  <2>3. PICK l : l = [live[t] EXCEPT !.progress.kept = @ \cup K, !.dirty = d]
    OBVIOUS
  <2>4. live' = [live EXCEPT ![t] = l]
    BY <2>2, <2>3
  <2>5. l.persisted = live[t].persisted /\ l.rec = live[t].rec /\ l.progress.blocked = live[t].progress.blocked
    BY <1>3, <2>3 DEF LiveJob, Progress
  <2>6. l # NoJob
    BY <1>6, <2>4 DEF Lookup, TypeInv, QueueInv
  <2>7. SameWork(live[t], l)
    BY <2>5, <2>6 DEF SameWork
  <2>8. Goto(t, "lookup") /\ progress' = progress /\ Working(live[t])
    <3>1. Goto(t, "lookup") /\ progress' = progress /\ pc[t] = "lookup"
      BY <1>6 DEF Lookup, Goto, TypeInv, QueueInv
    <3>2. WorkInv(t)
      BY DEF TabCopies
    <3> QED
      BY <3>1, <3>2 DEF WorkInv
  <2> QED
    BY <1>1, <1>2, <1>3, <2>4, <2>7, <2>8, CalmStep
<1> QED
  BY <1>5, <1>6

\* A batch is sent under the tab's salts, or its answers are taken in.
LEMMA SendMoves ==
    ASSUME TypeInv, TypeInv', BeliefInv, BeliefInv', HeldInv, TabCopies, NEW t \in Tabs,
           UNCHANGED <<objects, job, minted, progress>>, Working(live[t]),
           NEW l, live' = [live EXCEPT ![t] = l], l # NoJob,
           l.persisted = live[t].persisted, l.rec = live[t].rec,
           \A e \in l.progress.blocked : e \in live[t].progress.blocked \/ \E n \in Names : InPlay(e, n),
           \A e \in Entries, n \in Names : InPlay(e, n)' => InPlay(e, n) \/ live[t].rec.salts[e] = n,
           NEW s, Goto(t, s), s \notin {"finish", "closing", "marking"}
    PROVE  TabCopies'
<1>0. SharedInv(t) /\ AloneInv(t) /\ WorkInv(t) /\ StoredInv /\ UnmintedInv
  BY DEF TabCopies
<1>1. /\ live'[t] = l /\ pc'[t] = s
      /\ \A u \in Tabs \ {t} : live'[u] = live[u] /\ pc'[u] = pc[u]
  BY OwnStep
<1>2. WorkInv(t)' /\ live[t] # NoJob /\ l.progress.blocked \subseteq Entries
  <2>1. l \in LiveJob
    BY <1>1, NoJobIs DEF TypeInv, QueueInv
  <2> QED
    BY <1>1, <2>1 DEF WorkInv, Working, LiveJob, Progress
<1>3. minted'
  BY <1>0, <1>2 DEF UnmintedInv
<1>4. \A e \in Entries, n \in Names : InPlay(e, n) => n # NoSalt
  BY DEF InPlay, Det, NoSalt
<1>5. CASE job # NoJob
  <2>1. live[t].persisted
    BY <1>0, <1>2, <1>5 DEF AloneInv, Working, TypeInv, QueueInv, LiveJob
  <2>2. \A e \in Entries : live[t].rec.salts[e] # NoSalt => live[t].rec.salts[e] = job.salts[e]
    BY <1>0, <1>2, <2>1 DEF SharedInv
  <2>3. AloneInv(t)' /\ SharedInv(t)'
    <3>1. live'[t].persisted /\ live'[t].rec = live[t].rec
      BY <1>1, <2>1
    <3>2. pc'[t] \notin {"finish", "closing", "marking"}
      BY <1>1
    <3>3. \A e \in Entries : live'[t].rec.salts[e] # NoSalt => live'[t].rec.salts[e] = job'.salts[e]
      BY <2>2, <3>1
    <3>4. AloneInv(t)'
      BY <3>1 DEF AloneInv
    <3>5. SharedInv(t)'
      BY <3>2, <3>3 DEF SharedInv
    <3> QED
      BY <3>4, <3>5
  <2>4. \A e \in l.progress.blocked : job.salts[e] # NoSalt
    <3> SUFFICES ASSUME NEW e \in l.progress.blocked PROVE job.salts[e] # NoSalt
      OBVIOUS
    <3>1. CASE e \in live[t].progress.blocked
      BY <1>0, <1>2, <1>5, <3>1 DEF StoredInv
    <3>2. CASE \E n \in Names : InPlay(e, n)
      BY <1>0, <1>2, <1>4, <1>5, <3>2 DEF StoredInv
    <3> QED
      BY <3>1, <3>2
  <2>5. \A e \in Entries, n \in Names : InPlay(e, n)' => InPlay(e, n) \/ job.salts[e] = n
    BY <2>2 DEF InPlay, Det, NoSalt
  <2>6. \A e \in progress'.blocked : job.salts[e] # NoSalt
    BY <1>0, <1>5 DEF StoredInv
  <2> QED
    BY <1>1, <1>2, <1>3, <1>5, <2>3, <2>4, <2>5, <2>6, StoredMoves
<1>6. CASE job = NoJob
  <2>1. ~live[t].persisted
    BY <1>2, <1>6 DEF TypeInv, QueueInv
  <2>2. /\ \A e \in Entries, n \in Names : InPlay(e, n) => live[t].rec.salts[e] = n
        /\ \A e \in progress.blocked \cup live[t].progress.blocked : live[t].rec.salts[e] # NoSalt
    BY <1>0, <1>2, <1>6, <2>1 DEF AloneInv
  <2>3. \A e \in l.progress.blocked : live[t].rec.salts[e] # NoSalt
    BY <1>2, <1>4, <2>2
  <2>4. /\ live'[t] # NoJob
        /\ \A e \in Entries, n \in Names : InPlay(e, n)' => live'[t].rec.salts[e] = n
        /\ \A e \in progress'.blocked \cup live'[t].progress.blocked : live'[t].rec.salts[e] # NoSalt
    BY <1>1, <2>2, <2>3
  <2> QED
    BY <1>1, <1>2, <1>3, <1>6, <2>4, AloneMoves
<1> QED
  BY <1>5, <1>6

\* nextBatch and the post.
LEMMA NextBatchCopies ==
    ASSUME TypeInv, TypeInv', BeliefInv, BeliefInv', HeldInv, TabCopies, NEW t \in Tabs, NextBatch(t)
    PROVE  TabCopies'
<1>1. UNCHANGED <<objects, job, minted, progress, late>> /\ t \in Writers
  BY WritersAre DEF NextBatch
<1>2. live[t] \in LiveJob /\ live[t] # NoJob
  BY RunsWithJob, NoJobIs DEF NextBatch, TypeInv
<1>3. PICK l : /\ live' = [live EXCEPT ![t] = l] /\ l # NoJob
               /\ l.persisted = live[t].persisted /\ l.rec = live[t].rec
               /\ l.progress = live[t].progress
  <2>1. PICK n : live' = [live EXCEPT ![t] = [live[t] EXCEPT !.cursor = n]]
    BY DEF NextBatch
  <2>2. PICK l : l = [live[t] EXCEPT !.cursor = n]
    OBVIOUS
  <2>3. live' = [live EXCEPT ![t] = l]
    BY <2>1, <2>2
  <2>4. l # NoJob
    <3>1. PICK s : Goto(t, s) /\ s \notin {"closed", "idle"}
      BY DEF NextBatch
    <3>2. live'[t] = l /\ pc'[t] = s
      BY <2>3, <3>1, OwnStep
    <3> QED
      BY <3>1, <3>2 DEF TypeInv, QueueInv
  <2>5. l.persisted = live[t].persisted /\ l.rec = live[t].rec /\ l.progress = live[t].progress
    BY <1>2, <2>2 DEF LiveJob
  <2> QED
    BY <2>3, <2>4, <2>5
<1>4. PICK batch : batch = Pending(live[t], live[t].cursor, BatchEnd(live[t]))
  OBVIOUS
<1>5. CASE batch = {}
  <2>1. UNCHANGED req /\ Goto(t, "passEnd")
    BY <1>4, <1>5 DEF NextBatch
  <2>2. \A e \in Entries, n \in Names : InPlay(e, n)' => InPlay(e, n)
    BY <1>1, <2>1, SamePlay
  <2>3. SameWork(live[t], l)
    BY <1>3 DEF SameWork
  <2> QED
    BY <1>1, <1>2, <1>3, <2>1, <2>2, <2>3, CalmStep
<1>6. CASE batch # {}
  <2>1. PICK name : name = [e \in batch |-> live[t].rec.salts[e]]
    OBVIOUS
  <2>2. Post(t, name) /\ Goto(t, "posting")
    BY <1>4, <1>6, <2>1 DEF NextBatch
  <2>3. \A e, n : InPlay(e, n)' => InPlay(e, n) \/ (e \in DOMAIN name /\ name[e] = n)
    BY <1>1, <2>2, PostPlay
  <2>4. \A e \in Entries, n \in Names : InPlay(e, n)' => InPlay(e, n) \/ live[t].rec.salts[e] = n
    BY <2>1, <2>3
  <2>5. Working(live[t])
    BY <1>4, <1>6 DEF Pending, Unresolved
  <2> QED
    BY <1>1, <1>3, <2>2, <2>4, <2>5, SendMoves
<1> QED
  BY <1>5, <1>6

\* apply.
LEMMA ApplyCopies ==
    ASSUME TypeInv, TypeInv', BeliefInv, BeliefInv', HeldInv, TabCopies, NEW t \in Tabs, Apply(t)
    PROVE  TabCopies'
<1>1. UNCHANGED <<objects, job, minted, progress, late>> /\ t \in Writers
  BY WritersAre DEF Apply
<1>2. live[t] \in LiveJob /\ live[t] # NoJob
  BY RunsWithJob, NoJobIs DEF Apply, TypeInv
<1>3. Working(live[t])
  BY DEF Apply, TabCopies, WorkInv
<1> DEFINE r == req[t]
           held == {e \in DOMAIN r.res : r.res[e] = "other"} \ KeptBy(r.res)
           blocked == {e \in held : r.name[e] # Det}
           news == [kept |-> KeptBy(r.res), blocked |-> blocked]
<1>4. \A e \in blocked : \E n \in Names : InPlay(e, n)
  <2> SUFFICES ASSUME NEW e \in blocked PROVE InPlay(e, r.name[e]) /\ r.name[e] \in Names
    OBVIOUS
  <2>1. e \in DOMAIN r.name /\ r.name[e] # Det
    BY <1>1 DEF TypeInv, StoreInv
  <2>2. r.name[e] \in Names
    BY <1>1, <2>1, AskedFor
  <2> QED
    BY <1>1, <2>1, <2>2 DEF InPlay, Asked
<1>5. PICK p, d : /\ p = MergeProgress(live[t].progress, news) /\ d = (live[t].dirty \/ Resolved(news) # {})
                  /\ p.blocked = live[t].progress.blocked \cup blocked
  <2>1. MergeProgress(live[t].progress, news).blocked = live[t].progress.blocked \cup blocked
    BY DEF MergeProgress
  <2> HIDE DEF news, blocked
  <2> QED
    BY <2>1
<1>6. PICK l : l = [live[t] EXCEPT !.progress = p, !.dirty = d]
  OBVIOUS
<1>7. live' = [live EXCEPT ![t] = l]
  BY <1>5, <1>6 DEF Apply
<1>8. /\ l # NoJob /\ l.persisted = live[t].persisted /\ l.rec = live[t].rec
      /\ l.progress = p
  <2>1. l # NoJob
    <3>1. PICK s : Goto(t, s) /\ s \notin {"closed", "idle"}
      BY DEF Apply
    <3>2. live'[t] = l /\ pc'[t] = s
      BY <1>7, <3>1, OwnStep
    <3> QED
      BY <3>1, <3>2 DEF TypeInv, QueueInv
  <2> QED
    BY <1>2, <1>6, <2>1 DEF LiveJob
<1>9. \A e \in Entries, n \in Names : InPlay(e, n)' => InPlay(e, n)
  BY <1>1, EndPlay DEF Apply
<1>10. PICK s : Goto(t, s) /\ s \in {"after", "lookup"}
  BY DEF Apply
<1>11. \A e \in l.progress.blocked : e \in live[t].progress.blocked \/ \E n \in Names : InPlay(e, n)
  BY <1>4, <1>5, <1>8
<1> HIDE DEF news, blocked, held, r
<1> QED
  BY <1>1, <1>3, <1>7, <1>8, <1>9, <1>10, <1>11, SendMoves

\* A request that fails, a page that is closed, and the progress before the record is closed.
LEMMA EndCopies ==
    ASSUME TypeInv, TypeInv', BeliefInv, BeliefInv', HeldInv, TabCopies, NEW t \in Tabs,
           PostFails(t) \/ CloseTab(t) \/ FinishProgress(t)
    PROVE  TabCopies'
<1>1. UNCHANGED <<objects, job, minted>> /\ t \in Writers
  BY WritersAre DEF PostFails, CloseTab, FinishProgress
<1>2. CASE PostFails(t)
  <2>1. live[t] \in LiveJob /\ live[t] # NoJob
    BY <1>2, RunsWithJob, NoJobIs DEF PostFails, TypeInv
  <2>2. Goto(t, "next") /\ progress' = progress /\ Abandon(t)
    BY <1>2 DEF PostFails
  <2>3. PICK l : l = [live[t] EXCEPT !.cursor = loc[t].start]
    OBVIOUS
  <2>4. live' = [live EXCEPT ![t] = l]
    BY <1>2, <2>3 DEF PostFails
  <2>5. live'[t] = l /\ pc'[t] = "next"
    BY <2>2, <2>4, OwnStep
  <2>6. l # NoJob
    BY <2>5 DEF TypeInv, QueueInv
  <2>7. SameWork(live[t], l)
    BY <2>1, <2>3, <2>6 DEF SameWork, LiveJob
  <2>8. \A e \in Entries, n \in Names : InPlay(e, n)' => InPlay(e, n)
    BY <1>1, <2>2, EndPlay
  <2> QED
    BY <1>1, <2>1, <2>2, <2>4, <2>7, <2>8, CalmStep
<1>3. CASE CloseTab(t)
  <2>1. Goto(t, "closed") /\ progress' = progress /\ Abandon(t) /\ live' = [live EXCEPT ![t] = NoJob]
    BY <1>3 DEF CloseTab
  <2>2. /\ live'[t] = NoJob /\ pc'[t] = "closed"
        /\ \A u \in Tabs \ {t} : live'[u] = live[u] /\ pc'[u] = pc[u]
    BY <2>1, OwnStep
  <2>3. \A e \in Entries, n \in Names : InPlay(e, n)' => InPlay(e, n)
    BY <1>1, <2>1, EndPlay
  <2>4. WorkInv(t)'
    BY <2>2 DEF WorkInv
  <2> QED
    BY <1>1, <2>1, <2>2, <2>3, <2>4, CalmMoves
<1>4. CASE FinishProgress(t)
  <2>1. live[t] \in LiveJob /\ live[t] # NoJob
    BY <1>4, RunsWithJob, NoJobIs DEF FinishProgress, TypeInv
  <2>2. Goto(t, "closing") /\ pc[t] = "finish" /\ UNCHANGED <<req, late>>
    BY <1>4 DEF FinishProgress
  <2>3. PICK p, d : /\ live' = [live EXCEPT ![t] = [@ EXCEPT !.progress = p, !.dirty = d,
                                                           !.rec.done = TRUE, !.rec.list = FALSE]]
                    /\ p.blocked \subseteq live[t].progress.blocked \cup progress.blocked
                    /\ progress'.blocked \subseteq live[t].progress.blocked \cup progress.blocked
    <3>1. PICK all : all = MergeProgress(progress, live[t].progress)
      OBVIOUS
    <3>2. all.blocked = progress.blocked \cup live[t].progress.blocked
      BY <3>1 DEF MergeProgress
    <3>3. PICK q : q = live[t].progress
      OBVIOUS
    <3>4. \/ /\ progress' = all
             /\ live' = [live EXCEPT ![t] = [@ EXCEPT !.progress = all, !.dirty = FALSE,
                                                      !.rec.done = TRUE, !.rec.list = FALSE]]
          \/ /\ progress' = progress
             /\ live' = [live EXCEPT ![t] = [@ EXCEPT !.progress = q, !.dirty = TRUE,
                                                      !.rec.done = TRUE, !.rec.list = FALSE]]
      BY <1>4, <3>1, <3>3 DEF FinishProgress
    <3> QED
      BY <3>2, <3>3, <3>4
  <2>4. PICK l : l = [live[t] EXCEPT !.progress = p, !.dirty = d, !.rec.done = TRUE, !.rec.list = FALSE]
    OBVIOUS
  <2>5. live' = [live EXCEPT ![t] = l]
    BY <2>3, <2>4
  <2>6. /\ live'[t] = l /\ pc'[t] = "closing"
        /\ \A u \in Tabs \ {t} : live'[u] = live[u] /\ pc'[u] = pc[u]
    BY <2>2, <2>5, OwnStep
  <2>7. /\ l.persisted = live[t].persisted /\ l.rec.salts = live[t].rec.salts /\ l.rec.done
        /\ l.progress.blocked \subseteq live[t].progress.blocked \cup progress.blocked
    BY <2>1, <2>3, <2>4 DEF LiveJob, Record
  <2>8. l # NoJob
    BY <2>6 DEF TypeInv, QueueInv
  <2>9. WorkInv(t)'
    BY <2>6, <2>7 DEF WorkInv
  <2>10. \A e \in Entries, n \in Names : InPlay(e, n)' => InPlay(e, n)
    BY <1>1, <2>2, SamePlay
  <2> QED
    BY <1>1, <2>1, <2>2, <2>3, <2>6, <2>7, <2>8, <2>9, <2>10, CalmMoves
<1> QED
  BY <1>2, <1>3, <1>4

\* A tab takes the stored record up, or finds none.
LEMMA AdoptCopies ==
    ASSUME TypeInv, TypeInv', BeliefInv, BeliefInv', HeldInv, TabCopies, NEW t \in Tabs,
           LoadJobs(t) \/ RefreshUnknown(t)
    PROVE  TabCopies'
<1>1. UNCHANGED <<objects, job, minted, progress, req, late>>
  BY DEF LoadJobs, RefreshUnknown, storeVars
<1>2. \A e \in Entries, n \in Names : InPlay(e, n)' => InPlay(e, n)
  BY <1>1, SamePlay
<1>3. CASE job # NoJob /\ live' = [live EXCEPT ![t] = Adopted(job, NoProgress, TRUE)] /\ Goto(t, "loading")
  <2>1. PICK l : l = Adopted(job, NoProgress, TRUE)
    OBVIOUS
  <2>2. /\ live'[t] = l /\ pc'[t] = "loading"
        /\ \A u \in Tabs \ {t} : live'[u] = live[u] /\ pc'[u] = pc[u]
    BY <1>3, <2>1, OwnStep
  <2>3. l.persisted /\ l.rec = job /\ l.progress.blocked = {}
    BY <2>1 DEF Adopted, NoProgress
  <2>4. SharedInv(t)' /\ AloneInv(t)' /\ WorkInv(t)'
    BY <1>1, <2>2, <2>3 DEF SharedInv, AloneInv, WorkInv
  <2>5. minted' /\ \A e \in progress.blocked : job.salts[e] # NoSalt
    BY <1>1, <1>3 DEF TabCopies, UnmintedInv, StoredInv
  <2>6. \A e \in live'[t].progress.blocked : job.salts[e] # NoSalt
    BY <2>2, <2>3
  <2> QED
    BY <1>1, <1>2, <1>3, <2>2, <2>4, <2>5, <2>6, StoredMoves
<1>4. CASE live' = [live EXCEPT ![t] = NoJob] /\ Goto(t, "idle")
  <2>1. /\ live'[t] = NoJob /\ pc'[t] = "idle"
        /\ \A u \in Tabs \ {t} : live'[u] = live[u] /\ pc'[u] = pc[u]
    BY <1>4, OwnStep
  <2>2. WorkInv(t)'
    BY <2>1 DEF WorkInv
  <2> QED
    BY <1>1, <1>2, <2>1, <2>2, CalmMoves
<1>5. CASE live' = live /\ Goto(t, "idle")
  <2>1. live = [live EXCEPT ![t] = live[t]]
    BY DEF TypeInv, QueueInv
  <2>2. /\ live'[t] = live[t] /\ pc'[t] = "idle"
        /\ \A u \in Tabs \ {t} : live'[u] = live[u] /\ pc'[u] = pc[u]
    BY <1>5, <2>1, OwnStep
  <2>3. WorkInv(t)'
    BY <2>2 DEF WorkInv
  <2> QED
    BY <1>1, <1>2, <2>2, <2>3, CalmMoves
<1> QED
  BY <1>3, <1>4, <1>5 DEF LoadJobs, RefreshUnknown

\* Merging into the stored salts what agrees with them leaves them.
LEMMA MergeSame ==
    ASSUME NEW s \in [Entries -> Names], NEW k \in [Entries -> Names],
           \A e \in Entries : k[e] # NoSalt => k[e] = s[e]
    PROVE  MergeSalts(s, k) = s
BY DEF MergeSalts

\* refresh takes the stored salts.
LEMMA RefreshCopies ==
    ASSUME TypeInv, TypeInv', BeliefInv, BeliefInv', HeldInv, TabCopies, NEW t \in Tabs, RefreshKnown(t)
    PROVE  TabCopies'
<1>1. /\ UNCHANGED <<objects, job, minted, progress, pc, req, late>>
      /\ job # NoJob /\ live[t] \in LiveJob /\ live[t] # NoJob /\ job \in Record
  BY DEF RefreshKnown, storeVars, TypeInv, QueueInv
<1>2. \A e \in Entries, n \in Names : InPlay(e, n)' => InPlay(e, n)
  BY <1>1, SamePlay
<1>3. PICK m : m = MergeSalts(job.salts, live[t].rec.salts)
  OBVIOUS
<1>4. PICK l : l = [live[t] EXCEPT !.rec.salts = m]
  OBVIOUS
<1>5. live' = [live EXCEPT ![t] = l]
  BY <1>3, <1>4 DEF RefreshKnown
<1>6. /\ live'[t] = l
      /\ \A u \in Tabs \ {t} : live'[u] = live[u] /\ pc'[u] = pc[u]
  BY <1>1, <1>5 DEF TypeInv, QueueInv
<1>7. /\ l.persisted = live[t].persisted /\ l.rec.salts = m /\ l.rec.done = live[t].rec.done
      /\ l.rec.keep = live[t].rec.keep /\ l.rec.list = live[t].rec.list
      /\ l.progress = live[t].progress
  BY <1>1, <1>4 DEF LiveJob, Record
<1>8. SharedInv(t) /\ AloneInv(t) /\ WorkInv(t)
  BY DEF TabCopies
<1>9. live[t].persisted => m = job.salts
  BY <1>1, <1>3, <1>8, MergeSame DEF SharedInv, LiveJob, Record
<1>10. SharedInv(t)'
  <2> SUFFICES ASSUME live[t].persisted PROVE SharedInv(t)'
    BY <1>6, <1>7 DEF SharedInv
  <2>1. live'[t].rec.salts = job'.salts
    BY <1>1, <1>6, <1>7, <1>9
  <2>2. pc'[t] \in {"finish", "closing", "marking"} => \A e \in Entries : Held0(e)' => job'.salts[e] # NoSalt
    BY <1>1, <1>8 DEF SharedInv, Held0
  <2> QED
    BY <2>1, <2>2 DEF SharedInv
<1>11. AloneInv(t)'
  BY <1>1, <1>6, <1>7, <1>8 DEF AloneInv
<1>12. WorkInv(t)'
  <2>1. Working(live[t]) => Working(l)
    <3>1. l # NoJob
      BY <1>5 DEF RefreshKnown, TypeInv, QueueInv, LiveJob, NoJob
    <3> QED
      BY <1>7, <3>1 DEF Working
  <2> QED
    BY <1>1, <1>6, <1>7, <1>8, <2>1 DEF WorkInv
<1>13. /\ minted' /\ \A e \in progress.blocked : job.salts[e] # NoSalt
       /\ \A e \in live[t].progress.blocked : job.salts[e] # NoSalt
  BY <1>1 DEF TabCopies, UnmintedInv, StoredInv
<1> QED
  BY <1>1, <1>2, <1>6, <1>7, <1>10, <1>11, <1>12, <1>13, StoredMoves

\* What a job in memory is with other salts.
LEMMA OtherSalts ==
    ASSUME NEW k \in LiveJob, NEW m \in [Entries -> Names], NEW l, l = [k EXCEPT !.rec.salts = m]
    PROVE  /\ l \in LiveJob /\ l # NoJob
           /\ l.persisted = k.persisted /\ l.rec.salts = m /\ l.progress = k.progress
           /\ l.rec.done = k.rec.done /\ l.rec.keep = k.rec.keep /\ l.rec.list = k.rec.list
<1>1. l \in LiveJob
  BY LiveParts
<1> QED
  BY <1>1, NoJobIs DEF LiveJob, Record

\* What the stored record is with other salts.
LEMMA OtherRecord ==
    ASSUME job \in Record, NEW m \in [Entries -> Names], job' = [job EXCEPT !.salts = m]
    PROVE  job' \in Record /\ job' # NoJob /\ job'.salts = m
BY NoJobIs DEF Record

\* The stored record gets salts, and the tab has all of them.
LEMMA StoreSalts ==
    ASSUME TypeInv, TypeInv', BeliefInv', TabCopies, NEW t \in Tabs,
           UNCHANGED <<objects, minted, progress, req, late>>,
           live[t] \in LiveJob, live[t].persisted, NEW m \in [Entries -> Names],
           \A e \in Entries : job.salts[e] # NoSalt => m[e] = job.salts[e],
           job' = [job EXCEPT !.salts = m], live' = [live EXCEPT ![t].rec.salts = m],
           NEW s, Goto(t, s), s \in {"after", "marking"},
           s = "marking" => live[t].rec.done /\ \A e \in Entries : Held0(e) => job.salts[e] # NoSalt
    PROVE  TabCopies'
<1>1. live[t] # NoJob /\ job # NoJob /\ job \in Record
  BY NoJobIs DEF TypeInv, QueueInv
<1>2. job' \in Record /\ job' # NoJob /\ job'.salts = m
  BY <1>1, OtherRecord
<1>3. PICK l : l = [live[t] EXCEPT !.rec.salts = m]
  OBVIOUS
<1>4. live' = [live EXCEPT ![t] = l]
  BY <1>3
<1>5. /\ live'[t] = l /\ pc'[t] = s
      /\ \A u \in Tabs \ {t} : live'[u] = live[u] /\ pc'[u] = pc[u]
  BY <1>4, OwnStep
<1>6. /\ l # NoJob /\ l.persisted /\ l.rec.salts = m /\ l.rec.done = live[t].rec.done
      /\ l.progress = live[t].progress /\ l.progress.blocked \subseteq Entries
  BY <1>3, OtherSalts DEF LiveJob, Progress
<1>7. \A e \in Entries : job.salts[e] # NoSalt => m[e] # NoSalt
  OBVIOUS
<1>8. SharedInv(t)'
  BY <1>2, <1>5, <1>6, <1>7 DEF SharedInv, Held0
<1>9. AloneInv(t)' /\ WorkInv(t)'
  BY <1>5, <1>6 DEF AloneInv, WorkInv
<1>10. \A e \in Entries, n \in Names : InPlay(e, n)' => InPlay(e, n)
  BY SamePlay
<1>11. /\ minted' /\ \A e \in progress'.blocked : m[e] # NoSalt
       /\ \A e \in l.progress.blocked : m[e] # NoSalt
  <2>1. minted /\ progress.blocked \subseteq Entries
    BY <1>1 DEF TabCopies, UnmintedInv, TypeInv, QueueInv, Progress
  <2>2. /\ \A e \in progress.blocked : job.salts[e] # NoSalt
        /\ \A e \in live[t].progress.blocked : job.salts[e] # NoSalt
    BY <1>1 DEF TabCopies, StoredInv
  <2> QED
    BY <1>6, <1>7, <2>1, <2>2
<1> QED
  BY <1>1, <1>2, <1>5, <1>6, <1>8, <1>9, <1>10, <1>11, StoredMoves

\* Merging keeps what is there first.
LEMMA MergeKeeps ==
    ASSUME NEW s \in [Entries -> Names], NEW k \in [Entries -> Names]
    PROVE  /\ MergeSalts(s, k) \in [Entries -> Names]
           /\ \A e \in Entries : s[e] # NoSalt => MergeSalts(s, k)[e] = s[e]
BY DEF MergeSalts

\* The end of saltFor.
LEMMA SaltsCopies ==
    ASSUME TypeInv, TypeInv', BeliefInv, BeliefInv', HeldInv, TabCopies, NEW t \in Tabs, SaveSalts(t)
    PROVE  TabCopies'
<1>1. /\ UNCHANGED <<objects, minted, progress, req, late>> /\ Goto(t, "after")
      /\ live[t] \in LiveJob /\ live[t] # NoJob /\ pc[t] = "lookup"
  BY RunsWithJob, NoJobIs DEF SaveSalts, TypeInv
<1>2. \A e \in Entries, n \in Names : InPlay(e, n)' => InPlay(e, n)
  BY <1>1, SamePlay
<1>3. SharedInv(t) /\ AloneInv(t) /\ WorkInv(t) /\ UnmintedInv
  BY DEF TabCopies
<1>4. PICK chosen \in [Entries -> Names] : chosen = loc[t].chosen
  BY DEF TypeInv, QueueInv, Locals
<1>5. CASE UNCHANGED <<job, live>>
  <2>1. live' = [live EXCEPT ![t] = live[t]] /\ SameWork(live[t], live[t])
    BY <1>1, <1>5 DEF SameWork, TypeInv, QueueInv
  <2> QED
    BY <1>1, <1>2, <1>5, <2>1, CalmStep
<1>6. CASE /\ ~live[t].persisted /\ job' = job
           /\ live' = [live EXCEPT ![t].rec.salts = MergeSalts(@, chosen)]
  <2>1. job = NoJob
    BY <1>1, <1>3, <1>6 DEF AloneInv, WorkInv, Working
  <2>2. /\ \A e \in Entries, n \in Names : InPlay(e, n) => live[t].rec.salts[e] = n
        /\ \A e \in progress.blocked \cup live[t].progress.blocked : live[t].rec.salts[e] # NoSalt
    BY <1>1, <1>3, <1>6, <2>1 DEF AloneInv
  <2>3. PICK m \in [Entries -> Names] :
          /\ m = MergeSalts(live[t].rec.salts, chosen)
          /\ \A e \in Entries : live[t].rec.salts[e] # NoSalt => m[e] = live[t].rec.salts[e]
    <3>1. PICK a \in [Entries -> Names] : a = live[t].rec.salts
      BY <1>1 DEF LiveJob, Record
    <3>2. /\ MergeSalts(a, chosen) \in [Entries -> Names]
          /\ \A e \in Entries : a[e] # NoSalt => MergeSalts(a, chosen)[e] = a[e]
      BY MergeKeeps
    <3> QED
      BY <3>1, <3>2
  <2>4. PICK l : l = [live[t] EXCEPT !.rec.salts = m]
    OBVIOUS
  <2>5. live' = [live EXCEPT ![t] = l]
    BY <1>6, <2>3, <2>4
  <2>6. /\ live'[t] = l /\ pc'[t] = "after"
        /\ \A u \in Tabs \ {t} : live'[u] = live[u] /\ pc'[u] = pc[u]
    BY <1>1, <2>5, OwnStep
  <2>7. l # NoJob /\ l.rec.salts = m /\ l.progress = live[t].progress
    <3>1. PICK k \in LiveJob : k = live[t]
      BY <1>1
    <3>2. l = [k EXCEPT !.rec.salts = m]
      BY <2>4, <3>1
    <3>3. l # NoJob /\ l.rec.salts = m /\ l.progress = k.progress
      BY <3>2, OtherSalts DEF LiveJob, Record
    <3> QED
      BY <3>1, <3>3
  <2>8. \A e \in Entries, n \in Names : InPlay(e, n)' => m[e] = n
    <3> SUFFICES ASSUME NEW e \in Entries, NEW n \in Names, InPlay(e, n) PROVE m[e] = n
      BY <1>2
    <3>1. live[t].rec.salts[e] = n /\ n # NoSalt
      BY <2>2 DEF InPlay, Det, NoSalt
    <3> QED
      BY <2>3, <3>1
  <2>9. progress'.blocked \cup live[t].progress.blocked \subseteq Entries
    BY <1>1 DEF TypeInv, QueueInv, LiveJob, Progress
  <2>10. \A e \in progress'.blocked \cup live'[t].progress.blocked : m[e] # NoSalt
    <3> SUFFICES ASSUME NEW e \in progress.blocked \cup live[t].progress.blocked PROVE m[e] # NoSalt
      BY <1>1, <2>6, <2>7
    <3>1. live[t].rec.salts[e] # NoSalt /\ e \in Entries
      BY <1>1, <2>2, <2>9
    <3> QED
      BY <2>3, <3>1
  <2>11. WorkInv(t)' /\ minted'
    BY <1>1, <1>3, <2>6 DEF WorkInv, UnmintedInv
  <2> QED
    BY <1>1, <1>6, <2>1, <2>6, <2>7, <2>8, <2>10, <2>11, AloneMoves
<1>7. CASE /\ live[t].persisted /\ job' = [job EXCEPT !.salts = MergeSalts(@, chosen)]
           /\ live' = [live EXCEPT ![t].rec.salts = job'.salts]
  <2>1. job \in Record
    BY <1>1, <1>7 DEF TypeInv, QueueInv
  <2>2. PICK m \in [Entries -> Names] :
          /\ m = MergeSalts(job.salts, chosen)
          /\ \A e \in Entries : job.salts[e] # NoSalt => m[e] = job.salts[e]
    BY <2>1, MergeKeeps DEF Record
  <2>3. job' = [job EXCEPT !.salts = m]
    BY <1>7, <2>2
  <2>4. job'.salts = m
    BY <2>1, <2>3, OtherRecord
  <2>5. live' = [live EXCEPT ![t].rec.salts = m]
    BY <1>7, <2>4
  <2> QED
    BY <1>1, <1>7, <2>2, <2>3, <2>5, StoreSalts
<1> QED
  BY <1>4, <1>5, <1>6, <1>7 DEF SaveSalts

\* The salts before the record is closed.
LEMMA FinishSaltsCopies ==
    ASSUME TypeInv, TypeInv', BeliefInv, BeliefInv', HeldInv, TabCopies, NEW t \in Tabs, FinishSalts(t)
    PROVE  TabCopies'
<1>1. /\ UNCHANGED <<objects, minted, progress, req, late>>
      /\ live[t] \in LiveJob /\ live[t] # NoJob /\ pc[t] = "closing"
  BY RunsWithJob, NoJobIs DEF FinishSalts, TypeInv
<1>2. \A e \in Entries, n \in Names : InPlay(e, n)' => InPlay(e, n)
  BY <1>1, SamePlay
<1>3. SharedInv(t) /\ AloneInv(t) /\ WorkInv(t) /\ UnmintedInv
  BY DEF TabCopies
<1>4. live = [live EXCEPT ![t] = live[t]]
  BY DEF TypeInv, QueueInv
<1>5. CASE UNCHANGED <<job, live>> /\ Goto(t, "next")
  <2>1. SameWork(live[t], live[t])
    BY <1>1 DEF SameWork
  <2> QED
    BY <1>1, <1>2, <1>4, <1>5, <2>1, CalmStep
<1>6. CASE ~live[t].persisted /\ UNCHANGED <<job, live>> /\ Goto(t, "marking")
  <2>1. job = NoJob
    BY <1>1, <1>3, <1>6 DEF AloneInv
  <2>2. /\ live'[t] = live[t] /\ pc'[t] = "marking"
        /\ \A u \in Tabs \ {t} : live'[u] = live[u] /\ pc'[u] = pc[u]
    BY <1>4, <1>6, OwnStep
  <2>3. /\ \A e \in Entries, n \in Names : InPlay(e, n) => live[t].rec.salts[e] = n
        /\ \A e \in progress.blocked \cup live[t].progress.blocked : live[t].rec.salts[e] # NoSalt
    BY <1>1, <1>3, <1>6, <2>1 DEF AloneInv
  <2>4. WorkInv(t)' /\ minted'
    BY <1>1, <1>3, <2>2 DEF WorkInv, UnmintedInv
  <2> QED
    BY <1>1, <1>2, <1>6, <2>1, <2>2, <2>3, <2>4, AloneMoves
<1>7. CASE /\ live[t].persisted /\ job' = [job EXCEPT !.salts = MergeSalts(@, live[t].rec.salts)]
           /\ live' = [live EXCEPT ![t].rec.salts = job'.salts] /\ Goto(t, "marking")
  <2>1. job \in Record
    BY <1>1, <1>7 DEF TypeInv, QueueInv
  <2>2. PICK m \in [Entries -> Names] :
          /\ m = MergeSalts(job.salts, live[t].rec.salts)
          /\ \A e \in Entries : job.salts[e] # NoSalt => m[e] = job.salts[e]
    <3>1. PICK a \in [Entries -> Names], k \in [Entries -> Names] :
            a = job.salts /\ k = live[t].rec.salts
      BY <1>1, <2>1 DEF LiveJob, Record
    <3>2. /\ MergeSalts(a, k) \in [Entries -> Names]
          /\ \A e \in Entries : a[e] # NoSalt => MergeSalts(a, k)[e] = a[e]
      BY MergeKeeps
    <3> QED
      BY <3>1, <3>2
  <2>3. job' = [job EXCEPT !.salts = m]
    BY <1>7, <2>2
  <2>4. job'.salts = m
    BY <2>1, <2>3, OtherRecord
  <2>5. live' = [live EXCEPT ![t].rec.salts = m]
    BY <1>7, <2>4
  <2>6. live[t].rec.done /\ \A e \in Entries : Held0(e) => job.salts[e] # NoSalt
    BY <1>1, <1>3, <1>7 DEF SharedInv, WorkInv
  <2> QED
    BY <1>1, <1>7, <2>2, <2>3, <2>5, <2>6, StoreSalts
<1> QED
  BY <1>5, <1>6, <1>7 DEF FinishSalts

\* The record is closed.
LEMMA SaveJobCopies ==
    ASSUME TypeInv, TypeInv', BeliefInv, BeliefInv', HeldInv, TabCopies, NEW t \in Tabs, SaveJob(t)
    PROVE  TabCopies'
<1>1. /\ UNCHANGED <<objects, minted, progress, live, req, late>> /\ Goto(t, "next")
      /\ live[t] \in LiveJob /\ live[t] # NoJob /\ pc[t] = "marking"
  BY RunsWithJob, NoJobIs DEF SaveJob, TypeInv
<1>2. \A e \in Entries, n \in Names : InPlay(e, n)' => InPlay(e, n)
  BY <1>1, SamePlay
<1>3. SharedInv(t) /\ AloneInv(t) /\ WorkInv(t) /\ UnmintedInv /\ StoredInv
  BY DEF TabCopies
<1>4. live' = [live EXCEPT ![t] = live[t]]
  BY <1>1 DEF TypeInv, QueueInv
<1>5. /\ live'[t] = live[t] /\ pc'[t] = "next"
      /\ \A u \in Tabs \ {t} : live'[u] = live[u] /\ pc'[u] = pc[u]
  BY <1>1, <1>4, OwnStep
<1>6. WorkInv(t)' /\ minted'
  BY <1>1, <1>3, <1>5 DEF WorkInv, UnmintedInv
<1>7. CASE job' = job
  <2>1. SameWork(live[t], live[t])
    BY <1>1 DEF SameWork
  <2> QED
    BY <1>1, <1>2, <1>4, <1>7, <2>1, CalmStep
<1>8. CASE job' = live[t].rec /\ live[t].persisted
  <2>1. job # NoJob /\ job' # NoJob /\ job'.salts = job.salts
    BY <1>1, <1>3, <1>8, NoJobIs DEF SharedInv, TypeInv, QueueInv, LiveJob
  <2>2. SharedInv(t)' /\ AloneInv(t)'
    BY <1>5, <1>8 DEF SharedInv, AloneInv
  <2>3. /\ \A e \in progress.blocked : job.salts[e] # NoSalt
        /\ \A e \in live[t].progress.blocked : job.salts[e] # NoSalt
    BY <1>1, <1>3, <2>1 DEF StoredInv
  <2> QED
    BY <1>1, <1>2, <1>5, <1>6, <2>1, <2>2, <2>3, StoredMoves
<1>9. CASE job' = live[t].rec /\ ~live[t].persisted
  <2>1. job = NoJob
    BY <1>1, <1>3, <1>9 DEF AloneInv
  <2>2. /\ \A u \in Tabs \ {t} : live[u] = NoJob
        /\ \A e \in Entries, n \in Names : InPlay(e, n) => live[t].rec.salts[e] = n
        /\ \A e \in progress.blocked \cup live[t].progress.blocked : live[t].rec.salts[e] # NoSalt
    BY <1>1, <1>3, <1>9, <2>1 DEF AloneInv
  <2>3. StoredInv'
    BY <1>1, <1>2, <1>9, <2>2 DEF StoredInv
  <2>4. OneInPlay' /\ UnmintedInv'
    BY <1>2, <1>6 DEF OneInPlay, UnmintedInv, TabCopies
  <2>5. live[t].rec.done
    BY <1>1, <1>3 DEF WorkInv
  <2>6. SharedInv(t)' /\ AloneInv(t)'
    <3>1. job' # NoJob
      BY <1>1, <1>9, NoJobIs DEF LiveJob
    <3>2. AloneInv(t)'
      BY <1>5, <2>5, <3>1 DEF AloneInv
    <3>3. SharedInv(t)'
      BY <1>5, <1>9 DEF SharedInv
    <3> QED
      BY <3>2, <3>3
  <2>7. \A u \in Tabs \ {t} : SharedInv(u)' /\ AloneInv(u)' /\ WorkInv(u)'
    BY <1>5, <2>2 DEF SharedInv, AloneInv, WorkInv, TabCopies
  <2> QED
    BY <1>6, <2>3, <2>4, <2>6, <2>7 DEF TabCopies
<1> QED
  BY <1>7, <1>8, <1>9 DEF SaveJob

\* A tree comes in.
LEMMA EnqueueCopies ==
    ASSUME TypeInv, TypeInv', BeliefInv, BeliefInv', HeldInv, TabCopies, NEW t \in Tabs,
           NEW keep \in BOOLEAN, EnqueueTree(t, keep)
    PROVE  TabCopies'
<1>1. /\ UNCHANGED <<objects, progress, req, late>> /\ minted' /\ ~minted /\ Goto(t, "run")
  BY DEF EnqueueTree
<1>2. /\ job = NoJob /\ progress.blocked = {} /\ \A u \in Tabs : live[u] = NoJob
      /\ \A e \in Entries, n \in Names : ~InPlay(e, n)
  BY <1>1 DEF TabCopies, UnmintedInv, NoProgress
<1>3. \A e \in Entries, n \in Names : ~InPlay(e, n)'
  BY <1>1, <1>2, SamePlay
<1> DEFINE rec == [made |-> TRUE, keep |-> keep, list |-> keep, done |-> ~keep,
                   salts |-> [e \in Entries |-> NoSalt]]
<1>4. PICK l, b : /\ b \in BOOLEAN /\ l = Adopted(rec, NoProgress, b) /\ live' = [live EXCEPT ![t] = l]
                  /\ job' = IF b THEN rec ELSE NoJob
  BY <1>2 DEF EnqueueTree
<1>5. l.rec = rec /\ l.persisted = b /\ l.progress.blocked = {} /\ \A e \in Entries : rec.salts[e] = NoSalt
  BY <1>4 DEF Adopted, NoProgress
<1> HIDE DEF rec
<1>6. /\ live'[t] = l /\ pc'[t] = "run"
      /\ \A u \in Tabs \ {t} : live'[u] = NoJob /\ pc'[u] = pc[u]
  BY <1>1, <1>2, <1>4, OwnStep
<1>7. OneInPlay' /\ UnmintedInv'
  BY <1>1, <1>3 DEF OneInPlay, UnmintedInv
<1>8. StoredInv'
  <2>1. progress'.blocked = {} /\ \A u \in Tabs : live'[u] # NoJob => live'[u].progress.blocked = {}
    BY <1>1, <1>2, <1>5, <1>6
  <2> QED
    BY <1>3, <2>1 DEF StoredInv
<1>9. SharedInv(t)'
  BY <1>4, <1>5, <1>6 DEF SharedInv
<1>10. AloneInv(t)'
  BY <1>1, <1>2, <1>3, <1>4, <1>5, <1>6 DEF AloneInv
<1>11. WorkInv(t)'
  BY <1>6 DEF WorkInv
<1>12. \A u \in Tabs \ {t} : SharedInv(u)' /\ AloneInv(u)' /\ WorkInv(u)'
  BY <1>2, <1>6 DEF SharedInv, AloneInv, WorkInv, TabCopies
<1> QED
  BY <1>7, <1>8, <1>9, <1>10, <1>11, <1>12 DEF TabCopies

\* Every step of a tab.
LEMMA TabNextCopies ==
    ASSUME TypeInv, TypeInv', BeliefInv, BeliefInv', HeldInv, TabCopies, NEW t \in Tabs, TabNext(t)
    PROVE  TabCopies'
BY PumpCopies, PassCopies, NextBatchCopies, ApplyCopies, EndCopies, AdoptCopies, RefreshCopies,
   SaltsCopies, FinishSaltsCopies, SaveJobCopies, EnqueueCopies DEF TabNext, TabStep

\* The server writes what is in play.
LEMMA ServerTabCopies ==
    ASSUME TypeInv, ServerNext, UNCHANGED queueVars, TabCopies
    PROVE  TabCopies'
<1>1. \A e \in Entries, n \in Names : InPlay(e, n)' => InPlay(e, n)
  BY ServerPlay
<1>2. \A e \in Entries : Held0(e)' <=> Held0(e)
  BY ServerHeld
<1>3. UNCHANGED <<job, progress, minted, pc, live>>
  BY DEF queueVars
<1>4. OneInPlay' /\ UnmintedInv' /\ StoredInv'
  BY <1>1, <1>3 DEF OneInPlay, UnmintedInv, StoredInv, TabCopies
<1>5. ASSUME NEW t \in Tabs PROVE SharedInv(t)' /\ AloneInv(t)' /\ WorkInv(t)'
  <2>1. SharedInv(t) /\ AloneInv(t) /\ WorkInv(t)
    BY DEF TabCopies
  <2> QED
    BY <1>1, <1>2, <1>3, <2>1 DEF SharedInv, AloneInv, WorkInv
<1> QED
  BY <1>4, <1>5 DEF TabCopies

-----------------------------------------------------------------------------
(* Processes.                                                              *)

\* A name that was free is taken: the entry's own, or one that is in play.
LEMMA KeptGrows ==
    ASSUME TypeInv, BeliefInv, HeldInv, ProcCopies, ServerNext, NEW e \in Entries
    PROVE  \/ Kept(e)' = Kept(e)
           \/ ~Held0(e) /\ Kept(e)' \subseteq {Det}
           \/ \E n \in Names \ {Det} : /\ Kept(e)' = {n} /\ file # NoFile /\ Usable(file, e, n)
<1>1. /\ \A n \in Names : objects'[e][n] # objects[e][n] =>
           /\ objects[e][n] = "free" /\ objects'[e][n] = "mine"
           /\ n # Det => InPlay(e, n)
  BY ServerPlay
<1>2. CASE \A n \in Names : objects'[e][n] = objects[e][n]
  BY <1>2 DEF Kept
<1>3. ASSUME NEW n \in Names \ {Det}, objects'[e][n] # objects[e][n]
      PROVE  Kept(e)' = {n} /\ file # NoFile /\ Usable(file, e, n)
  <2>1. InPlay(e, n) /\ objects[e][n] = "free" /\ objects'[e][n] = "mine"
    BY <1>1, <1>3
  <2>2. file # NoFile /\ Usable(file, e, n)
    BY <2>1 DEF ProcCopies, SureInv, Sure, Usable, InPlay, Det, NoSalt
  <2>3. \A m \in Kept(e) : m = n
    BY <2>2 DEF ProcCopies, AgreeInv
  <2>4. ASSUME NEW m \in Names, objects'[e][m] = "mine" PROVE m = n
    <3>1. CASE objects[e][m] = "mine"
      BY <2>3, <3>1 DEF Kept
    <3>2. CASE objects[e][m] # "mine" /\ m # Det
      <4>1. InPlay(e, m) /\ objects[e][m] = "free"
        BY <1>1, <2>4, <3>2
      <4> QED
        BY <2>2, <4>1 DEF ProcCopies, SureInv, Sure, Usable
    <3>3. CASE objects[e][m] # "mine" /\ m = Det
      BY <1>1, <2>1, <2>4, <3>3 DEF HeldInv, Held0
    <3> QED
      BY <3>1, <3>2, <3>3
  <2> QED
    BY <2>1, <2>2, <2>4 DEF Kept
<1>4. CASE objects'[e][Det] # objects[e][Det] /\ \A n \in Names \ {Det} : objects'[e][n] = objects[e][n]
  <2>1. Det \in Names
    BY NamesAre DEF Det, NoSalt
  <2>2. ~Held0(e)
    BY <1>1, <1>4, <2>1 DEF Held0
  <2>3. \A n \in Names \ {Det} : objects'[e][n] # "mine"
    BY <1>4, <2>2 DEF HeldInv, InPlay
  <2> QED
    BY <2>2, <2>3 DEF Kept
<1> QED
  BY <1>2, <1>3, <1>4

\* Answers leave the names of a request.
LEMMA ServerNames ==
    ASSUME TypeInv, ServerNext
    PROVE  \A w \in Writers : req'[w].name = req[w].name
<1>1. req \in [Writers -> Request]
  BY DEF TypeInv, StoreInv
<1>2. ASSUME NEW w \in Writers, NEW d \in DOMAIN req[w].name, PutIfAbsent(w, d)
      PROVE  \A v \in Writers : req'[v].name = req[v].name
  <2>1. \E a : Answer(w, d, a)
    BY <1>2 DEF PutIfAbsent
  <2> QED
    BY <1>1, <2>1 DEF Answer, Request
<1>3. ASSUME NEW p \in late, LatePut(p[1], p[2]) \/ LateLost(p[1], p[2])
      PROVE  \A v \in Writers : req'[v].name = req[v].name
  BY <1>3 DEF LatePut, LateLost
<1> QED
  BY <1>2, <1>3 DEF ServerNext

\* The server keeps what holds among processes.
LEMMA ServerProcCopies ==
    ASSUME TypeInv, BeliefInv, HeldInv, ServerNext, UNCHANGED jobsVars, ProcCopies
    PROVE  ProcCopies'
<1>1. UNCHANGED <<file, lock, ppc, mem>>
  BY DEF jobsVars
<1>2. /\ \A e \in Entries, n \in Names : InPlay(e, n)' => InPlay(e, n)
      /\ \A e \in Entries, n \in Names : objects'[e][n] = "free" => objects[e][n] = "free"
  BY ServerPlay
<1>3. /\ \A e \in Entries, n \in Names : objects'[e][n] = "other" <=> objects[e][n] = "other"
  BY ServerHeld
<1>4. /\ file # NoFile => file \in State
      /\ mem \in [Procs -> State]
      /\ \A s \in State : s.salts \in [Entries -> Names] /\ s.blocked \subseteq Entries
  BY DEF TypeInv, JobsInv, State
<1>5. LockInv' /\ EndInv'
  BY <1>1 DEF ProcCopies, LockInv, EndInv
<1>6. SureInv'
  <2>1. \A e \in Entries, n \in Names : Sure(e, n) => Sure(e, n)'
    BY <1>1, <1>2 DEF Sure
  <2>2. \A p \in Procs, e \in Entries : mem[p].salts[e] \in Names
    BY <1>4
  <2> QED
    BY <1>1, <1>2, <2>1, <2>2 DEF SureInv, ProcCopies
<1>7. BlockInv'
  <2>1. \A s \in State : BlockedRight(s) => BlockedRight(s)'
    BY <1>3, <1>4 DEF BlockedRight
  <2>2. \A p \in Procs : req'[p].name = req[p].name
    BY ServerNames, WritersAre
  <2> QED
    BY <1>1, <1>4, <2>1, <2>2 DEF BlockInv, ProcCopies
<1>8. \A s \in State, e \in Entries, n \in Names : Usable(s, e, n)' <=> Usable(s, e, n)
  BY <1>3 DEF Usable
<1>9. ASSUME NEW e \in Entries, NEW n \in Names
      PROVE  /\ (file # NoFile /\ Usable(file, e, n))' =>
                  /\ \A p \in Procs : ppc'[p] \in Loaded => mem'[p].salts[e] = n
                  /\ \A m \in Kept(e)' : m = n
             /\ \A p \in Procs : ppc'[p] \in Loaded /\ Usable(mem[p], e, n)' => \A m \in Kept(e)' : m = n
             /\ n \in Kept(e)' => \A m \in Kept(e)' : m = n
  <2>1. /\ file # NoFile /\ Usable(file, e, n) =>
             /\ \A p \in Procs : ppc[p] \in Loaded => mem[p].salts[e] = n
             /\ \A m \in Kept(e) : m = n
        /\ \A p \in Procs : ppc[p] \in Loaded /\ Usable(mem[p], e, n) => \A m \in Kept(e) : m = n
        /\ n \in Kept(e) => \A m \in Kept(e) : m = n
    BY DEF ProcCopies, AgreeInv
  <2>2. /\ (file # NoFile /\ Usable(file, e, n))' <=> file # NoFile /\ Usable(file, e, n)
        /\ \A p \in Procs : Usable(mem[p], e, n)' <=> Usable(mem[p], e, n)
    BY <1>1, <1>4, <1>8
  <2>3. CASE Kept(e)' = Kept(e)
    BY <1>1, <2>1, <2>2, <2>3
  <2>4. CASE ~Held0(e) /\ Kept(e)' \subseteq {Det}
    <3>1. ~(file # NoFile /\ Usable(file, e, n)) /\ \A p \in Procs : ~Usable(mem[p], e, n)
      BY <1>4, <2>4, FreshIs DEF BeliefInv, JobsBelief, StateSound, SaltsSound, Usable
    <3> QED
      BY <2>2, <2>4, <3>1
  <2>5. ASSUME NEW k \in Names \ {Det}, Kept(e)' = {k}, file # NoFile, Usable(file, e, k)
        PROVE  /\ (file # NoFile /\ Usable(file, e, n))' =>
                    /\ \A p \in Procs : ppc'[p] \in Loaded => mem'[p].salts[e] = n
                    /\ \A m \in Kept(e)' : m = n
               /\ \A p \in Procs : ppc'[p] \in Loaded /\ Usable(mem[p], e, n)' => \A m \in Kept(e)' : m = n
               /\ n \in Kept(e)' => \A m \in Kept(e)' : m = n
    <3>1. \A p \in Procs : ppc[p] \in Loaded => mem[p].salts[e] = k
      BY <2>5 DEF ProcCopies, AgreeInv
    <3>2. \A p \in Procs : ppc[p] \in Loaded /\ Usable(mem[p], e, n) => n = k
      BY <3>1 DEF Usable
    <3>3. Usable(file, e, n) => n = k
      BY <2>5 DEF Usable
    <3> QED
      BY <1>1, <2>1, <2>2, <2>5, <3>2, <3>3
  <2> QED
    BY <2>3, <2>4, <2>5, KeptGrows
<1>10. AgreeInv'
  BY <1>1, <1>9 DEF AgreeInv
<1> QED
  BY <1>5, <1>6, <1>7, <1>10 DEF ProcCopies

\* A process goes on and the job file stays.
LEMMA FileStays ==
    ASSUME TypeInv, TypeInv', ProcCopies, UNCHANGED <<objects, file>>, NEW p \in Procs, LockInv',
           \A q \in Procs \ {p} : ppc'[q] = ppc[q] /\ mem'[q] = mem[q] /\ req'[q] = req[q],
           \A e \in Entries, n \in Names : InPlay(e, n)' => InPlay(e, n) \/ Sure(e, n),
           ppc'[p] \notin Unsaved =>
             \A e \in Entries : mem'[p].salts[e] # NoSalt => Sure(e, mem'[p].salts[e]),
           ppc'[p] \in Loaded =>
             \A e \in Entries, n \in Names :
               /\ file # NoFile /\ Usable(file, e, n) => mem'[p].salts[e] = n
               /\ Usable(mem'[p], e, n) => \A m \in Kept(e) : m = n,
           BlockedRight(mem'[p]),
           ppc'[p] = "posting" => \A e \in DOMAIN req'[p].name : req'[p].name[e] = mem'[p].salts[e],
           ppc'[p] = "ending" => PendingOf(mem'[p]) = {}
    PROVE  ProcCopies'
<1>1. \A e, n : Sure(e, n)' <=> Sure(e, n)
  BY DEF Sure
<1>2. \A s, e, n : Usable(s, e, n)' <=> Usable(s, e, n)
  BY DEF Usable
<1>3. \A s : BlockedRight(s)' <=> BlockedRight(s)
  BY DEF BlockedRight
<1>4. \A e : Kept(e)' = Kept(e)
  BY DEF Kept
<1>5. SureInv'
  <2>1. \A e \in Entries, n \in Names : InPlay(e, n)' => Sure(e, n)'
    BY <1>1 DEF ProcCopies, SureInv
  <2>2. ASSUME NEW q \in Procs, ppc'[q] \notin Unsaved, NEW e \in Entries, mem'[q].salts[e] # NoSalt
        PROVE  Sure(e, mem'[q].salts[e])
    <3>1. CASE q = p
      BY <2>2, <3>1
    <3>2. CASE q # p
      BY <2>2, <3>2 DEF ProcCopies, SureInv
    <3> QED
      BY <3>1, <3>2
  <2>3. \A q \in Procs, e \in Entries : Sure(e, mem'[q].salts[e]) => Sure(e, mem[q].salts[e])'
    BY DEF Sure
  <2> QED
    BY <2>1, <2>2, <2>3 DEF SureInv
<1>6. ASSUME NEW e \in Entries, NEW n \in Names
      PROVE  /\ (file # NoFile /\ Usable(file, e, n))' =>
                  /\ \A q \in Procs : ppc'[q] \in Loaded => mem'[q].salts[e] = n
                  /\ \A m \in Kept(e)' : m = n
             /\ \A q \in Procs : ppc'[q] \in Loaded /\ Usable(mem[q], e, n)' => \A m \in Kept(e)' : m = n
             /\ n \in Kept(e)' => \A m \in Kept(e)' : m = n
  <2>1. /\ file # NoFile /\ Usable(file, e, n) =>
             /\ \A q \in Procs : ppc[q] \in Loaded => mem[q].salts[e] = n
             /\ \A m \in Kept(e) : m = n
        /\ \A q \in Procs : ppc[q] \in Loaded /\ Usable(mem[q], e, n) => \A m \in Kept(e) : m = n
        /\ n \in Kept(e) => \A m \in Kept(e) : m = n
    BY DEF ProcCopies, AgreeInv
  <2>2. (file # NoFile /\ Usable(file, e, n))' <=> file # NoFile /\ Usable(file, e, n)
    BY DEF Usable
  <2>3. \A q \in Procs : Usable(mem[q], e, n)' <=> Usable(mem'[q], e, n)
    BY DEF Usable
  <2>4. \A q \in Procs : ppc'[q] \in Loaded /\ Usable(mem'[q], e, n) => \A m \in Kept(e) : m = n
    BY <2>1
  <2>5. file # NoFile /\ Usable(file, e, n) => \A q \in Procs : ppc'[q] \in Loaded => mem'[q].salts[e] = n
    BY <2>1
  <2> QED
    BY <1>4, <2>1, <2>2, <2>3, <2>4, <2>5
<1>7. AgreeInv'
  BY <1>6 DEF AgreeInv
<1>8. BlockInv'
  <2>1. \A q \in Procs : BlockedRight(mem'[q])
    BY DEF ProcCopies, BlockInv
  <2>2. file # NoFile => BlockedRight(file)
    BY DEF ProcCopies, BlockInv
  <2>3. \A q \in Procs : ppc'[q] = "posting" =>
          \A e \in DOMAIN req'[q].name : req'[q].name[e] = mem'[q].salts[e]
    BY DEF ProcCopies, BlockInv
  <2>4. (\A q \in Procs : BlockedRight(mem[q])') /\ ((file # NoFile)' => BlockedRight(file)')
    BY <2>1, <2>2 DEF BlockedRight
  <2> QED
    BY <2>3, <2>4 DEF BlockInv
<1>9. EndInv'
  BY DEF ProcCopies, EndInv
<1> QED
  BY <1>5, <1>7, <1>8, <1>9 DEF ProcCopies

\* The lock stays with its holder.
LEMMA LockKept ==
    ASSUME TypeInv, ProcCopies, NEW p \in Procs, UNCHANGED lock, NEW s, At(p, s),
           s \in Inside => ppc[p] \in Inside
    PROVE  LockInv'
BY DEF TypeInv, JobsInv, At, ProcCopies, LockInv

\* Nobody is at work when the lock is free or stale.
LEMMA NobodyInside ==
    ASSUME TypeInv, ProcCopies, lock = NoLock \/ lock.stale
    PROVE  \A p \in Procs : ppc[p] \notin Inside
BY DEF ProcCopies, LockInv, NoLock

\* A step of a process is its own.
LEMMA OwnProc ==
    ASSUME TypeInv, NEW p \in Procs, NEW s, At(p, s)
    PROVE  ppc'[p] = s /\ \A q \in Procs \ {p} : ppc'[q] = ppc[q]
BY DEF TypeInv, JobsInv, At

\* A process that goes on with what it has in memory.
LEMMA GoesOn ==
    ASSUME TypeInv, TypeInv', ProcCopies, UNCHANGED <<objects, file, mem>>, NEW p \in Procs, LockInv',
           NEW s, At(p, s), s \in Loaded => ppc[p] \in Loaded,
           s \notin Unsaved => ppc[p] \notin Unsaved \/ s = "save",
           s # "posting", s = "ending" => PendingOf(mem[p]) = {},
           \A q \in Procs \ {p} : req'[q] = req[q],
           \A e \in Entries, n \in Names : InPlay(e, n)' => InPlay(e, n)
    PROVE  ProcCopies'
<1>1. ppc'[p] = s /\ \A q \in Procs \ {p} : ppc'[q] = ppc[q]
  BY OwnProc
<1>2. s # "save" /\ s \notin Unsaved =>
        \A e \in Entries : mem[p].salts[e] # NoSalt => Sure(e, mem[p].salts[e])
  BY DEF ProcCopies, SureInv
<1>3. s \in Loaded =>
        \A e \in Entries, n \in Names :
          /\ file # NoFile /\ Usable(file, e, n) => mem[p].salts[e] = n
          /\ Usable(mem[p], e, n) => \A m \in Kept(e) : m = n
  BY DEF ProcCopies, AgreeInv
<1>4. BlockedRight(mem[p])
  BY DEF ProcCopies, BlockInv
<1>5. "save" \in Unsaved
  BY DEF Unsaved
<1>6. s \notin Unsaved => \A e \in Entries : mem[p].salts[e] # NoSalt => Sure(e, mem[p].salts[e])
  BY <1>2, <1>5
<1> QED
  BY <1>1, <1>3, <1>4, <1>6, FileStays

\* The steps around the lock.
LEMMA LockCopies ==
    ASSUME TypeInv, TypeInv', BeliefInv, BeliefInv', HeldInv, ProcCopies, NEW p \in Procs, ~RemovesFresh(p),
           TakeLock(p) \/ RemoveStale(p) \/ CheckRelease(p) \/ Release(p) \/ LookedUp(p) \/ CheckHeld(p) \/ Finished(p)
    PROVE  ProcCopies'
<1>1. UNCHANGED <<objects, file, mem, req, late>>
  BY DEF TakeLock, RemoveStale, CheckRelease, Release, LookedUp, CheckHeld, Finished, storeVars
<1>2. \A e \in Entries, n \in Names : InPlay(e, n)' => InPlay(e, n)
  BY <1>1, SamePlay
<1>3. ASSUME LockInv', NEW s, At(p, s), s \in Loaded => ppc[p] \in Loaded,
             s \notin Unsaved => ppc[p] \notin Unsaved \/ s = "save",
             s # "posting", s = "ending" => PendingOf(mem[p]) = {}
      PROVE  ProcCopies'
  BY <1>1, <1>2, <1>3, GoesOn
<1>4. CASE TakeLock(p)
  <2>1. ppc[p] \in {"lock", "relock"}
    BY <1>4 DEF TakeLock
  <2>2. CASE lock = NoLock /\ lock' = [token |-> p, stale |-> FALSE] /\ At(p, "load")
    <3>1. LockInv'
      BY <2>2, NobodyInside, OwnProc DEF LockInv
    <3> QED
      BY <1>3, <2>1, <2>2, <3>1 DEF Loaded, Unsaved
  <2>3. CASE lock' = lock /\ \E s \in {"stale", "restale", "out"} : At(p, s)
    <3>1. PICK s \in {"stale", "restale", "out"} : At(p, s)
      BY <2>3
    <3>2. LockInv'
      BY <2>3, <3>1, LockKept DEF Inside
    <3> QED
      BY <1>3, <2>1, <3>1, <3>2 DEF Loaded, Unsaved
  <2> QED
    BY <1>4, <2>2, <2>3 DEF TakeLock
<1>5. CASE RemoveStale(p)
  <2>1. ppc[p] \in {"stale", "restale"} /\ lock' = NoLock
    BY <1>5 DEF RemoveStale
  <2>2. PICK s \in {"relock", "out"} : At(p, s)
    BY <1>5 DEF RemoveStale
  <2>3. \A q \in Procs : ppc[q] \notin Inside
    BY <2>1, NobodyInside DEF RemovesFresh
  <2>4. LockInv'
    BY <2>2, <2>3, OwnProc DEF LockInv, Inside
  <2> QED
    BY <1>3, <2>1, <2>2, <2>4 DEF Loaded, Unsaved
<1>6. CASE Release(p)
  <2>1. ppc[p] = "releasing" /\ lock' = NoLock /\ At(p, "out")
    BY <1>6 DEF Release
  <2>2. \A q \in Procs \ {p} : ppc[q] \notin Inside
    BY <2>1 DEF ProcCopies, LockInv, Inside
  <2>3. LockInv'
    BY <2>1, <2>2, OwnProc DEF LockInv, Inside
  <2> QED
    BY <1>3, <2>1, <2>3 DEF Loaded, Unsaved
<1>7. CASE CheckRelease(p)
  <2>1. ppc[p] = "release" /\ lock' = lock
    BY <1>7 DEF CheckRelease
  <2>2. PICK s \in {"releasing", "out"} : At(p, s)
    BY <1>7 DEF CheckRelease
  <2>3. LockInv'
    BY <2>1, <2>2, LockKept DEF Inside
  <2> QED
    BY <1>3, <2>1, <2>2, <2>3 DEF Loaded, Unsaved
<1>8. CASE LookedUp(p) \/ CheckHeld(p) \/ Finished(p)
  <2>1. ppc[p] \in {"lookup", "held", "end"} /\ lock' = lock
    BY <1>8 DEF LookedUp, CheckHeld, Finished
  <2>2. PICK s \in {"held", "save", "release", "ending"} :
          At(p, s) /\ (s = "ending" => ppc[p] = "end" /\ PendingOf(mem[p]) = {})
    BY <1>8 DEF LookedUp, CheckHeld, Finished
  <2>3. LockInv'
    BY <2>1, <2>2, LockKept DEF Inside
  <2> QED
    BY <1>3, <2>1, <2>2, <2>3 DEF Loaded, Unsaved
<1> QED
  BY <1>4, <1>5, <1>6, <1>7, <1>8

\* The job as it is on disk.
LEMMA LoadCopies ==
    ASSUME TypeInv, TypeInv', BeliefInv, BeliefInv', HeldInv, ProcCopies, NEW p \in Procs,
           Register(p) \/ LoadJob(p)
    PROVE  ProcCopies'
<1>1. UNCHANGED <<objects, file, lock, req, late>>
  BY DEF Register, LoadJob, storeVars
<1>2. \A e \in Entries, n \in Names : InPlay(e, n)' => InPlay(e, n)
  BY <1>1, SamePlay
<1>3. PICK s \in {"lock", "registering", "round"} :
        At(p, s) /\ (s = "round" <=> LoadJob(p)) /\ (s = "registering" => mem' = mem)
  BY DEF Register, LoadJob, At, TypeInv, JobsInv
<1>4. ppc'[p] = s /\ \A q \in Procs \ {p} : ppc'[q] = ppc[q]
  BY <1>3, OwnProc
<1>5. LockInv'
  BY <1>1, <1>3, LockKept DEF Inside, LoadJob
<1>6. \/ file # NoFile /\ mem' = [mem EXCEPT ![p] = file]
      \/ (file = NoFile \/ s = "registering") /\ mem' = mem
  BY <1>3 DEF Register, LoadJob, TypeInv, JobsInv
<1>7. ppc[p] \in {"new", "load"}
  BY DEF Register, LoadJob
<1>8. CASE file # NoFile /\ mem' = [mem EXCEPT ![p] = file]
  <2>1. mem'[p] = file /\ \A q \in Procs \ {p} : mem'[q] = mem[q]
    BY <1>8 DEF TypeInv, JobsInv
  <2>2. \A e \in Entries : Sure(e, file.salts[e])
    BY <1>8 DEF Sure
  <2>3. \A e \in Entries, n \in Names :
          Usable(file, e, n) => file.salts[e] = n /\ \A m \in Kept(e) : m = n
    BY <1>8 DEF ProcCopies, AgreeInv, Usable
  <2>4. BlockedRight(file)
    BY <1>8 DEF ProcCopies, BlockInv
  <2>5. ppc'[p] \notin {"posting", "ending"}
    BY <1>4
  <2> QED
    BY <1>1, <1>2, <1>4, <1>5, <2>1, <2>2, <2>3, <2>4, <2>5, FileStays
<1>9. CASE (file = NoFile \/ s = "registering") /\ mem' = mem
  <2>1. \A e \in Entries : mem[p].salts[e] # NoSalt => Sure(e, mem[p].salts[e])
    BY <1>7 DEF ProcCopies, SureInv, Unsaved
  <2>2. ASSUME s = "round", NEW e \in Entries, NEW n \in Names, Usable(mem[p], e, n)
        PROVE  \A m \in Kept(e) : m = n
    <3>1. file = NoFile /\ objects[e][n] # "free" /\ objects[e][n] # "other"
      BY <1>9, <2>1, <2>2 DEF Usable, Sure
    <3>2. n \in Kept(e)
      BY <3>1 DEF Kept, TypeInv, StoreInv
    <3> QED
      BY <3>2 DEF ProcCopies, AgreeInv
  <2>3. BlockedRight(mem[p])
    BY DEF ProcCopies, BlockInv
  <2>4. ppc'[p] \notin {"posting", "ending"} /\ (ppc'[p] \in Loaded => s = "round" /\ file = NoFile)
    BY <1>4, <1>9 DEF Loaded
  <2>5. mem'[p] = mem[p] /\ \A q \in Procs \ {p} : mem'[q] = mem[q]
    BY <1>9
  <2> QED
    BY <1>1, <1>2, <1>4, <1>5, <2>1, <2>2, <2>3, <2>4, <2>5, FileStays
<1> QED
  BY <1>6, <1>8, <1>9

\* Requests that end unanswered, and processes.
LEMMA GoneCopies ==
    ASSUME TypeInv, TypeInv', BeliefInv, BeliefInv', HeldInv, ProcCopies, NEW p \in Procs,
           ProcPostFails(p) \/ Kill(p)
    PROVE  ProcCopies'
<1>1. UNCHANGED <<objects, file, mem, lock>> /\ Abandon(p) /\ p \in Writers
  BY WritersAre DEF ProcPostFails, Kill
<1>2. \A e \in Entries, n \in Names : InPlay(e, n)' => InPlay(e, n)
  BY <1>1, EndPlay
<1>3. PICK s \in {"held", "out"} : At(p, s) /\ (s = "held" => ppc[p] = "posting")
  BY DEF ProcPostFails, Kill
<1>4. LockInv'
  BY <1>1, <1>3, LockKept DEF Inside
<1>5. \A q \in Procs \ {p} : req'[q] = req[q]
  BY <1>1, WritersAre DEF Abandon, TypeInv, StoreInv
<1> QED
  BY <1>1, <1>2, <1>3, <1>4, <1>5, GoesOn DEF Loaded, Unsaved

\* A round.
LEMMA RoundCopies ==
    ASSUME TypeInv, TypeInv', BeliefInv, BeliefInv', HeldInv, ProcCopies, NEW p \in Procs, Round(p)
    PROVE  ProcCopies'
<1>1. UNCHANGED <<objects, file, mem, lock, late>> /\ p \in Writers /\ ppc[p] = "round"
  BY WritersAre DEF Round
<1>2. CASE At(p, "end") /\ UNCHANGED req
  <2>1. \A e \in Entries, n \in Names : InPlay(e, n)' => InPlay(e, n)
    BY <1>1, <1>2, SamePlay
  <2>2. LockInv'
    BY <1>1, <1>2, LockKept DEF Inside
  <2> QED
    BY <1>1, <1>2, <2>1, <2>2, GoesOn DEF Loaded, Unsaved
<1>3. CASE At(p, "posting") /\ Post(p, [e \in PendingOf(mem[p]) |-> mem[p].salts[e]])
  <2>1. PICK name : name = [e \in PendingOf(mem[p]) |-> mem[p].salts[e]]
    OBVIOUS
  <2>2. Post(p, name)
    BY <1>3, <2>1
  <2>3. \A e \in Entries : mem[p].salts[e] # NoSalt => Sure(e, mem[p].salts[e])
    BY <1>1 DEF ProcCopies, SureInv, Unsaved
  <2>4. \A e, n : InPlay(e, n)' => InPlay(e, n) \/ (e \in DOMAIN name /\ name[e] = n)
    BY <1>1, <2>2, PostPlay
  <2>5. \A e \in Entries, n \in Names : InPlay(e, n)' => InPlay(e, n) \/ Sure(e, n)
    BY <2>1, <2>3, <2>4 DEF InPlay, Det, NoSalt
  <2>6. req'[p].name = name /\ \A q \in Procs \ {p} : req'[q] = req[q]
    BY <1>1, <2>2, WritersAre DEF Post, TypeInv, StoreInv
  <2>7. \A e \in DOMAIN name : name[e] = mem[p].salts[e]
    BY <2>1
  <2>8. LockInv'
    BY <1>1, <1>3, LockKept DEF Inside
  <2>9. ppc'[p] = "posting" /\ \A q \in Procs \ {p} : ppc'[q] = ppc[q]
    BY <1>3, OwnProc
  <2>10. /\ \A e \in Entries, n \in Names :
              /\ file # NoFile /\ Usable(file, e, n) => mem[p].salts[e] = n
              /\ Usable(mem[p], e, n) => \A m \in Kept(e) : m = n
         /\ BlockedRight(mem[p])
    BY <1>1 DEF ProcCopies, AgreeInv, BlockInv, Loaded
  <2>11. mem'[p] = mem[p] /\ \A q \in Procs \ {p} : mem'[q] = mem[q]
    BY <1>1
  <2> QED
    BY <1>1, <2>3, <2>5, <2>6, <2>7, <2>8, <2>9, <2>10, <2>11, FileStays
<1> QED
  BY <1>2, <1>3 DEF Round

\* The answers of a batch.
LEMMA ProcApplyCopies ==
    ASSUME TypeInv, TypeInv', BeliefInv, BeliefInv', HeldInv, ProcCopies, NEW p \in Procs, ProcApply(p)
    PROVE  ProcCopies'
<1>1. UNCHANGED <<objects, file, lock, late>> /\ p \in Writers /\ ppc[p] = "posting"
  BY WritersAre DEF ProcApply
<1> DEFINE r == req[p]
           held == {e \in DOMAIN r.res : r.res[e] = "other"}
           blocked == {e \in held : r.name[e] # Det}
<1>2. PICK K, B, m : /\ K = Answered(r.res) /\ B = blocked
                     /\ m = [mem[p] EXCEPT !.kept = @ \cup K, !.blocked = @ \cup B]
                     /\ mem' = [mem EXCEPT ![p] = m]
  BY DEF ProcApply
<1>3. m.salts = mem[p].salts /\ m.kept = mem[p].kept \cup K /\ m.blocked = mem[p].blocked \cup B
  BY <1>2 DEF TypeInv, JobsInv, State
<1>4. mem'[p] = m /\ \A q \in Procs \ {p} : mem'[q] = mem[q]
  BY <1>2 DEF TypeInv, JobsInv
<1>5. \A e \in B : m.salts[e] # NoSalt /\ objects[e][m.salts[e]] = "other"
  <2> SUFFICES ASSUME NEW e \in B PROVE mem[p].salts[e] # NoSalt /\ objects[e][mem[p].salts[e]] = "other"
    BY <1>3
  <2>1. e \in DOMAIN r.res /\ r.res[e] = "other" /\ r.name[e] # Det /\ e \in DOMAIN r.name
    BY <1>1, <1>2 DEF TypeInv, StoreInv
  <2>2. r.name[e] = mem[p].salts[e]
    BY <1>1, <2>1 DEF ProcCopies, BlockInv
  <2>3. objects[e][r.name[e]] = "other"
    BY <1>1, <2>1 DEF BeliefInv, AnswerInv
  <2> QED
    BY <2>1, <2>2, <2>3 DEF Det, NoSalt
<1> HIDE DEF r, held, blocked
<1>6. BlockedRight(m)
  <2>1. BlockedRight(mem[p])
    BY DEF ProcCopies, BlockInv
  <2> QED
    BY <1>3, <1>5, <2>1 DEF BlockedRight
<1>7. \A e \in Entries, n \in Names : InPlay(e, n)' => InPlay(e, n)
  BY <1>1, EndPlay DEF ProcApply
<1>8. PICK s \in {"held", "lookup"} : At(p, s)
  BY DEF ProcApply
<1>9. ppc'[p] = s /\ \A q \in Procs \ {p} : ppc'[q] = ppc[q] /\ req'[q] = req[q]
  BY <1>1, <1>8, OwnProc, WritersAre DEF ProcApply, TypeInv, StoreInv
<1>10. LockInv'
  BY <1>1, <1>8, LockKept DEF Inside
<1>11. \A e \in Entries, n \in Names :
         /\ file # NoFile /\ Usable(file, e, n) => m.salts[e] = n
         /\ Usable(m, e, n) => \A k \in Kept(e) : k = n
  BY <1>1, <1>3 DEF ProcCopies, AgreeInv, Loaded, Usable
<1>12. ppc'[p] \in Unsaved /\ ppc'[p] \notin {"posting", "ending"}
  BY <1>9 DEF Unsaved
<1> QED
  BY <1>1, <1>4, <1>6, <1>7, <1>9, <1>10, <1>11, <1>12, FileStays

\* The address is read before a salt is drawn: a copy that is there gives its own salt.
LEMMA ProcLookupCopies ==
    ASSUME TypeInv, TypeInv', BeliefInv, BeliefInv', HeldInv, ProcCopies, NEW p \in Procs,
           NEW e \in Entries, ProcLookup(p, e)
    PROVE  ProcCopies'
<1>1. UNCHANGED <<objects, file, lock, ppc, req, late>> /\ ppc[p] = "lookup"
  BY DEF ProcLookup
<1>2. \A d \in Entries, n \in Names : InPlay(d, n)' => InPlay(d, n)
  BY <1>1, SamePlay
<1>3. LockInv'
  BY <1>1 DEF ProcCopies, LockInv
<1>4. /\ mem[p] \in State /\ mem[p].salts \in [Entries -> Names]
      /\ mem = [mem EXCEPT ![p] = mem[p]]
  BY DEF TypeInv, JobsInv, State
<1>5. /\ \A d \in Entries, n \in Names :
           /\ file # NoFile /\ Usable(file, d, n) => mem[p].salts[d] = n
           /\ Usable(mem[p], d, n) => \A k \in Kept(d) : k = n
           /\ file # NoFile /\ Usable(file, d, n) => \A k \in Kept(d) : k = n
           /\ n \in Kept(d) => \A k \in Kept(d) : k = n
      /\ BlockedRight(mem[p])
  BY <1>1 DEF ProcCopies, AgreeInv, BlockInv, Loaded
<1>6. ASSUME NEW m, mem' = [mem EXCEPT ![p] = m], BlockedRight(m),
             \A d \in Entries \ {e} : m.salts[d] = mem[p].salts[d],
             \A n \in Names : /\ file # NoFile /\ Usable(file, e, n) => m.salts[e] = n
                              /\ Usable(m, e, n) => \A k \in Kept(e) : k = n
      PROVE  ProcCopies'
  <2>1. mem'[p] = m /\ \A q \in Procs \ {p} : mem'[q] = mem[q]
    BY <1>6 DEF TypeInv, JobsInv
  <2>2. \A d \in Entries, n \in Names :
          /\ file # NoFile /\ Usable(file, d, n) => m.salts[d] = n
          /\ Usable(m, d, n) => \A k \in Kept(d) : k = n
    BY <1>5, <1>6 DEF Usable
  <2>3. ppc'[p] \in Unsaved /\ ppc'[p] \notin {"posting", "ending"}
    BY <1>1 DEF Unsaved
  <2> QED
    BY <1>1, <1>2, <1>3, <1>6, <2>1, <2>2, <2>3, FileStays
<1>7. CASE \E n \in Kept(e) : mem' = [mem EXCEPT ![p].kept = @ \cup {e}, ![p].salts[e] = n]
  <2>1. PICK n \in Kept(e) : mem' = [mem EXCEPT ![p].kept = @ \cup {e}, ![p].salts[e] = n]
    BY <1>7
  <2>2. PICK m : m = [mem[p] EXCEPT !.kept = @ \cup {e}, !.salts[e] = n]
    OBVIOUS
  <2>3. mem' = [mem EXCEPT ![p] = m]
    BY <2>1, <2>2
  <2>4. /\ m.kept = mem[p].kept \cup {e} /\ m.blocked = mem[p].blocked
        /\ m.salts[e] = n /\ \A d \in Entries \ {e} : m.salts[d] = mem[p].salts[d]
    BY <1>4, <2>2 DEF State
  <2>5. BlockedRight(m)
    <3>1. mem[p].blocked \subseteq Entries
      BY <1>4 DEF State
    <3> QED
      BY <1>5, <2>4, <3>1 DEF BlockedRight
  <2>6. n \in Names /\ objects[e][n] = "mine"
    BY DEF Kept
  <2>7. \A k \in Names : /\ file # NoFile /\ Usable(file, e, k) => m.salts[e] = k
                         /\ Usable(m, e, k) => \A j \in Kept(e) : j = k
    BY <1>5, <2>4, <2>6 DEF Usable
  <2> QED
    BY <1>6, <2>3, <2>4, <2>5, <2>7
<1>8. CASE mem' = mem
  BY <1>4, <1>5, <1>6, <1>8
<1>9. CASE Kept(e) = {} /\ mem[p].salts[e] = NoSalt /\ mem' = [mem EXCEPT ![p].salts[e] = drawn + 1]
  <2>1. PICK m : m = [mem[p] EXCEPT !.salts[e] = drawn + 1]
    OBVIOUS
  <2>2. mem' = [mem EXCEPT ![p] = m]
    BY <1>9, <2>1
  <2>3. /\ m.kept = mem[p].kept /\ m.blocked = mem[p].blocked
        /\ \A d \in Entries \ {e} : m.salts[d] = mem[p].salts[d]
    BY <1>4, <2>1 DEF State
  <2>4. BlockedRight(m)
    <3>1. mem[p].blocked \subseteq Entries
      BY <1>4 DEF State
    <3> QED
      BY <1>5, <1>9, <2>3, <3>1 DEF BlockedRight
  <2>5. \A k \in Names : ~(file # NoFile /\ Usable(file, e, k))
    BY <1>5, <1>9 DEF Usable
  <2> QED
    BY <1>6, <1>9, <2>2, <2>3, <2>4, <2>5
<1> QED
  BY <1>7, <1>8, <1>9 DEF ProcLookup

\* The job file is written by who registers it, by the holder of the lock, and taken away by it.
LEMMA FileMoves ==
    ASSUME TypeInv, TypeInv', ProcCopies, UNCHANGED <<objects, mem, lock>>, NEW p \in Procs, NEW s, At(p, s),
           s \in Inside => ppc[p] \in Inside, s \in Loaded => ppc[p] \in Loaded, s # "ending",
           \A q \in Procs \ {p} : req'[q] = req[q],
           \A e \in Entries, n \in Names \ {NoSalt} : Sure(e, n) => Sure(e, n)',
           \A e \in Entries, n \in Names : InPlay(e, n)' => InPlay(e, n) \/ Sure(e, n)',
           s \notin Unsaved => \A e \in Entries : mem[p].salts[e] # NoSalt => Sure(e, mem[p].salts[e])',
           file' # NoFile =>
             /\ BlockedRight(file')
             /\ \A e \in Entries, n \in Names : Usable(file', e, n) =>
                  /\ \A q \in Procs : ppc'[q] \in Loaded => mem[q].salts[e] = n
                  /\ \A m \in Kept(e) : m = n,
           s = "posting" => \A e \in DOMAIN req'[p].name : req'[p].name[e] = mem[p].salts[e]
    PROVE  ProcCopies'
<1>1. ppc'[p] = s /\ \A q \in Procs \ {p} : ppc'[q] = ppc[q]
  BY OwnProc
<1>2. \A q \in Procs, e \in Entries : mem[q].salts[e] \in Names
  <2>1. \A m \in State : m.salts \in [Entries -> Names]
    BY DEF State
  <2>2. \A q \in Procs : mem[q] \in State
    BY DEF TypeInv, JobsInv
  <2> QED
    BY <2>1, <2>2
<1>3. LockInv'
  BY LockKept
<1>4. SureInv'
  <2>1. \A e \in Entries, n \in Names : InPlay(e, n)' => Sure(e, n)'
    BY DEF ProcCopies, SureInv, InPlay, Det, NoSalt
  <2>2. \A q \in Procs : ppc'[q] \notin Unsaved =>
          \A e \in Entries : mem[q].salts[e] # NoSalt => Sure(e, mem[q].salts[e])'
    BY <1>1, <1>2 DEF ProcCopies, SureInv
  <2> QED
    BY <2>1, <2>2 DEF SureInv
<1>5. ASSUME NEW e \in Entries, NEW n \in Names
      PROVE  /\ (file # NoFile /\ Usable(file, e, n))' =>
                  /\ \A q \in Procs : ppc'[q] \in Loaded => mem'[q].salts[e] = n
                  /\ \A m \in Kept(e)' : m = n
             /\ \A q \in Procs : ppc'[q] \in Loaded /\ Usable(mem[q], e, n)' => \A m \in Kept(e)' : m = n
             /\ n \in Kept(e)' => \A m \in Kept(e)' : m = n
  <2>1. Kept(e)' = Kept(e)
    BY DEF Kept
  <2>2. /\ \A q \in Procs : ppc'[q] \in Loaded /\ Usable(mem[q], e, n) => \A m \in Kept(e) : m = n
        /\ n \in Kept(e) => \A m \in Kept(e) : m = n
    BY <1>1 DEF ProcCopies, AgreeInv
  <2>3. Usable(file', e, n) <=> Usable(file, e, n)'
    BY DEF Usable
  <2>4. \A q \in Procs : Usable(mem[q], e, n)' <=> Usable(mem[q], e, n)
    BY DEF Usable
  <2> QED
    BY <2>1, <2>2, <2>3, <2>4
<1>6. AgreeInv'
  BY <1>5 DEF AgreeInv
<1>7. BlockInv'
  <2>1. file' # NoFile => BlockedRight(file)'
    BY DEF BlockedRight
  <2>2. \A q \in Procs : BlockedRight(mem[q])'
    BY DEF ProcCopies, BlockInv, BlockedRight
  <2>3. \A q \in Procs : ppc'[q] = "posting" => \A e \in DOMAIN req'[q].name : req'[q].name[e] = mem[q].salts[e]
    BY <1>1 DEF ProcCopies, BlockInv
  <2> QED
    BY <2>1, <2>2, <2>3 DEF BlockInv
<1>8. EndInv'
  BY <1>1 DEF ProcCopies, EndInv
<1> QED
  BY <1>3, <1>4, <1>6, <1>7, <1>8 DEF ProcCopies

\* A job that was not there is registered.
LEMMA RegisterCopies ==
    ASSUME TypeInv, TypeInv', ProcCopies, NEW p \in Procs, RegisterSave(p), ~RegistersOver(p)
    PROVE  ProcCopies'
<1>1. UNCHANGED <<objects, mem, lock, req, late>> /\ At(p, "lock") /\ file' = Fresh /\ ppc[p] = "registering"
  BY DEF RegisterSave, storeVars
<1>2. file = NoFile
  BY <1>1, OwnProc DEF RegistersOver
<1>3. \A e \in Entries, n \in Names : InPlay(e, n)' => InPlay(e, n)
  BY <1>1, SamePlay
<1>4. \A e, n : Sure(e, n) => Sure(e, n)'
  BY <1>1, <1>2 DEF Sure
<1>5. \A e \in Entries : mem[p].salts[e] # NoSalt => Sure(e, mem[p].salts[e])'
  <2>1. \A e \in Entries : mem[p].salts[e] # NoSalt => Sure(e, mem[p].salts[e])
    BY <1>1 DEF ProcCopies, SureInv, Unsaved
  <2>2. \A e \in Entries : Sure(e, mem[p].salts[e]) => Sure(e, mem[p].salts[e])'
    BY <1>1, <1>2 DEF Sure
  <2> QED
    BY <2>1, <2>2
<1>6. BlockedRight(file') /\ \A e \in Entries, n \in Names : ~Usable(file', e, n)
  BY <1>1 DEF Fresh, BlockedRight, Usable
<1> QED
  BY <1>1, <1>3, <1>4, <1>5, <1>6, FileMoves DEF Inside, Loaded

\* The holder of the lock saves.
LEMMA SaveCopies ==
    ASSUME TypeInv, TypeInv', ProcCopies, NEW p \in Procs, SaveState(p)
    PROVE  ProcCopies'
<1>1. UNCHANGED <<objects, mem, late>> /\ file' = mem[p] /\ ppc[p] = "save" /\ p \in Writers
  BY WritersAre DEF SaveState
<1>2. ppc[p] \in Inside /\ ppc[p] \in Loaded
  BY <1>1 DEF Inside, Loaded
<1>3. lock = [token |-> p, stale |-> FALSE]
  BY <1>2 DEF ProcCopies, LockInv
<1>4. lock' = lock
  <2>1. lock' = lock \/ lock' = [lock EXCEPT !.stale = FALSE]
    BY DEF SaveState
  <2>2. [lock EXCEPT !.stale = FALSE] = lock
    <3>1. \A r \in [token : Procs, stale : BOOLEAN] : r.stale = FALSE => [r EXCEPT !.stale = FALSE] = r
      OBVIOUS
    <3>2. lock \in [token : Procs, stale : BOOLEAN] /\ lock.stale = FALSE
      BY <1>3
    <3> QED
      BY <3>1, <3>2
  <2> QED
    BY <2>1, <2>2
<1>5. \A q \in Procs \ {p} : ppc[q] \notin Loaded
  <2>1. \A q \in Procs : ppc[q] \in Loaded => ppc[q] \in Inside
    BY DEF Loaded, Inside
  <2> QED
    BY <1>3, <2>1 DEF ProcCopies, LockInv
<1>6. PICK s \in {"posting", "round", "release"} : At(p, s)
  BY DEF SaveState
<1>7. ppc'[p] = s /\ \A q \in Procs \ {p} : ppc'[q] = ppc[q]
  BY <1>6, OwnProc
<1>8. mem[p] \in State /\ mem[p] # NoFile
  BY FreshIs DEF TypeInv, JobsInv
<1>9. \A e \in Entries : mem[p].salts[e] # NoSalt => Sure(e, mem[p].salts[e])'
  BY <1>1, <1>8 DEF Sure
<1>10. ASSUME NEW e \in Entries, NEW n \in Names \ {NoSalt}, Sure(e, n) PROVE Sure(e, n)'
  <2>1. CASE objects[e][n] # "free"
    BY <1>1, <2>1 DEF Sure
  <2>2. CASE objects[e][n] = "free"
    <3>1. file # NoFile /\ Usable(file, e, n)
      BY <1>10, <2>2 DEF Sure, Usable
    <3>2. mem[p].salts[e] = n
      BY <1>2, <3>1 DEF ProcCopies, AgreeInv
    <3> QED
      BY <1>1, <1>8, <3>2 DEF Sure
  <2> QED
    BY <2>1, <2>2
<1>11. /\ s = "posting" => /\ \A e \in DOMAIN req'[p].name : req'[p].name[e] = mem[p].salts[e]
       /\ \A q \in Procs \ {p} : req'[q] = req[q]
       /\ \A e \in Entries, n \in Names : InPlay(e, n)' => InPlay(e, n) \/ Sure(e, n)'
  <2>1. CASE Post(p, [e \in todo[p].fresh |-> mem[p].salts[e]])
    <3>1. PICK name : name = [e \in todo[p].fresh |-> mem[p].salts[e]]
      OBVIOUS
    <3>2. Post(p, name) /\ \A e \in DOMAIN name : name[e] = mem[p].salts[e]
      BY <2>1, <3>1
    <3>3. req'[p].name = name /\ \A q \in Procs \ {p} : req'[q] = req[q]
      BY <1>1, <3>2, WritersAre DEF Post, TypeInv, StoreInv
    <3>4. \A e, n : InPlay(e, n)' => InPlay(e, n) \/ (e \in DOMAIN name /\ name[e] = n)
      BY <1>1, <3>2, PostPlay
    <3>5. \A e \in Entries, n \in Names : mem[p].salts[e] = n => Sure(e, n)'
      BY <1>1, <1>8 DEF Sure
    <3>6. \A e \in Entries, n \in Names : InPlay(e, n)' => InPlay(e, n) \/ Sure(e, n)'
      BY <3>2, <3>4, <3>5
    <3> QED
      BY <3>2, <3>3, <3>6
  <2>2. CASE UNCHANGED req /\ s # "posting"
    BY <1>1, <2>2, SamePlay
  <2>3. CASE todo[p].next # "salted"
    <3>1. UNCHANGED req /\ \E l \in {"round", "release"} : At(p, l)
      BY <2>3 DEF SaveState
    <3>2. s # "posting"
      BY <1>7, <3>1, OwnProc
    <3> QED
      BY <2>2, <3>1, <3>2
  <2>4. CASE todo[p].next = "salted"
    BY <2>1, <2>4 DEF SaveState
  <2> QED
    BY <2>3, <2>4
<1>12. /\ BlockedRight(file')
       /\ \A e \in Entries, n \in Names : Usable(file', e, n) =>
            /\ \A q \in Procs : ppc'[q] \in Loaded => mem[q].salts[e] = n
            /\ \A m \in Kept(e) : m = n
  <2>1. BlockedRight(file')
    BY <1>1 DEF ProcCopies, BlockInv
  <2>2. \A e \in Entries, n \in Names : Usable(mem[p], e, n) => \A m \in Kept(e) : m = n
    BY <1>2 DEF ProcCopies, AgreeInv
  <2>3. \A e \in Entries, n \in Names : Usable(mem[p], e, n) =>
          \A q \in Procs : ppc'[q] \in Loaded => mem[q].salts[e] = n
    BY <1>5, <1>7 DEF Usable
  <2> QED
    BY <1>1, <2>1, <2>2, <2>3
<1>13. s # "ending"
  OBVIOUS
<1> QED
  BY <1>1, <1>2, <1>4, <1>6, <1>9, <1>10, <1>11, <1>12, <1>13, FileMoves

\* The job is taken away when nothing is left to do: no name in play is still free.
LEMMA RemoveCopies ==
    ASSUME TypeInv, TypeInv', BeliefInv, HeldInv, ProcCopies, NEW p \in Procs, RemoveJob(p)
    PROVE  ProcCopies'
<1>1. UNCHANGED <<objects, mem, lock, req, late>> /\ file' = NoFile /\ ppc[p] = "ending" /\ At(p, "release")
  BY DEF RemoveJob, storeVars
<1>2. ASSUME NEW e \in Entries, NEW n \in Names \ {NoSalt}, Sure(e, n) PROVE Sure(e, n)'
  <2>1. CASE objects[e][n] # "free"
    BY <1>1, <2>1 DEF Sure
  <2>2. CASE objects[e][n] = "free"
    <3>1. file # NoFile /\ Usable(file, e, n)
      BY <1>2, <2>2 DEF Sure, Usable
    <3>2. mem[p].salts[e] = n /\ \A m \in Kept(e) : m = n
      BY <1>1, <3>1 DEF ProcCopies, AgreeInv, Loaded
    <3>3. e \in mem[p].kept \/ e \in mem[p].blocked
      BY <1>1 DEF ProcCopies, EndInv, PendingOf
    <3>4. e \in mem[p].kept
      BY <2>2, <3>2, <3>3 DEF ProcCopies, BlockInv, BlockedRight
    <3>5. Kept(e) # {}
      <4>1. mem[p] \in State /\ StateSound(mem[p])
        BY DEF BeliefInv, JobsBelief, TypeInv, JobsInv
      <4> QED
        BY <3>4, <4>1, FreshIs DEF StateSound, Sound
    <3> QED
      BY <2>2, <3>2, <3>5 DEF Kept
  <2> QED
    BY <2>1, <2>2
<1>3. \A e \in Entries, n \in Names : InPlay(e, n)' => InPlay(e, n)
  BY <1>1, SamePlay
<1> QED
  BY <1>1, <1>2, <1>3, FileMoves DEF Inside, Loaded, Unsaved

\* Every step of a process, short of a race.
LEMMA ProcNextCopies ==
    ASSUME TypeInv, TypeInv', BeliefInv, BeliefInv', HeldInv, ProcCopies, NEW p \in Procs,
           ProcNext(p), ~RegistersOver(p), ~RemovesFresh(p)
    PROVE  ProcCopies'
BY LockCopies, LoadCopies, GoneCopies, RoundCopies, ProcApplyCopies, ProcLookupCopies, RegisterCopies,
   SaveCopies, RemoveCopies DEF ProcNext

\* A lock goes stale when its holder has gone.
LEMMA StaleCopies ==
    ASSUME TypeInv, ProcCopies, GoesStale, ppc[lock.token] = "out"
    PROVE  ProcCopies'
<1>1. UNCHANGED <<file, ppc, mem, objects, req, late>>
  BY DEF GoesStale
<1>2. \A q \in Procs : ppc[q] \notin Inside
  BY DEF ProcCopies, LockInv, Inside
<1>3. LockInv'
  BY <1>1, <1>2 DEF LockInv
<1>4. SureInv'
  BY <1>1, SamePlay DEF ProcCopies, SureInv, Sure
<1>5. AgreeInv' /\ BlockInv' /\ EndInv'
  BY <1>1 DEF ProcCopies, AgreeInv, BlockInv, EndInv, Usable, Kept, BlockedRight
<1> QED
  BY <1>3, <1>4, <1>5 DEF ProcCopies

-----------------------------------------------------------------------------
(* One copy.                                                               *)

\* Nothing is in play at the start.
LEMMA InitCopies == Init => CopyInv
<1> SUFFICES ASSUME Init PROVE CopyInv
  OBVIOUS
<1>1. StoreInit /\ QueueInit /\ JobsInit
  BY DEF Init
<1>2. \A e \in Entries, n \in Names : objects[e][n] # "mine"
  BY <1>1 DEF StoreInit
<1>3. \A w \in Writers : DOMAIN req[w].name = {} /\ req[w] = NoReq
  BY <1>1, NoReqIs DEF StoreInit
<1>4. \A e \in Entries, n \in Names : ~InPlay(e, n)
  BY <1>1, <1>2, <1>3 DEF InPlay, Asked, StoreInit
<1>5. HeldInv
  BY <1>4 DEF HeldInv
<1>6. TabCopies
  <2>1. OneInPlay /\ UnmintedInv /\ StoredInv
    BY <1>1, <1>4 DEF OneInPlay, UnmintedInv, StoredInv, QueueInit, NoProgress
  <2>2. \A t \in Tabs : SharedInv(t) /\ AloneInv(t) /\ WorkInv(t)
    BY <1>1 DEF QueueInit, SharedInv, AloneInv, WorkInv
  <2> QED
    BY <2>1, <2>2 DEF TabCopies
<1>7. ProcCopies
  <2>1. \A p \in Procs : ppc[p] = "new" /\ mem[p] = Fresh
    BY <1>1 DEF JobsInit
  <2>2. LockInv /\ EndInv
    BY <2>1 DEF LockInv, EndInv, Inside
  <2>3. SureInv
    BY <1>4, <2>1 DEF SureInv, Fresh
  <2>4. \A e : Kept(e) = {n \in Names : objects[e][n] = "mine"}
    BY DEF Kept
  <2>5. \A e \in Entries : Kept(e) = {}
    BY <1>2, <2>4
  <2>6. AgreeInv
    BY <1>1, <2>1, <2>5 DEF AgreeInv, Loaded, JobsInit
  <2>7. BlockInv
    BY <1>1, <2>1 DEF BlockInv, BlockedRight, Fresh, JobsInit
  <2> QED
    BY <2>2, <2>3, <2>6, <2>7 DEF ProcCopies
<1> QED
  BY <1>5, <1>6, <1>7 DEF CopyInv

\* Every step keeps what is in play.
LEMMA NextCopies ==
    ASSUME TypeInv, BeliefInv, CopyInv, [Next]_vars
    PROVE  CopyInv'
<1>1. TypeInv' /\ BeliefInv' /\ HeldInv /\ HeldInv'
  BY NextTypes, NextBelief, NextHeld DEF CopyInv
<1>2. SUFFICES /\ active' = active
               /\ active = Tabs => TabCopies'
               /\ active = Procs /\ ~raced' => ProcCopies'
  BY <1>1 DEF CopyInv
<1>3. CASE Server
  BY <1>1, <1>3, ServerTabCopies, ServerProcCopies DEF Server, CopyInv
<1>4. ASSUME NEW t \in Tabs, Tab(t)
      PROVE  /\ active' = active
             /\ active = Tabs => TabCopies'
             /\ active = Procs /\ ~raced' => ProcCopies'
  <2>1. active # Procs
    BY <1>4, RecoveryAssumption DEF Tab
  <2> QED
    BY <1>1, <1>4, <2>1, TabNextCopies DEF Tab, CopyInv
<1>5. ASSUME NEW p \in Procs, Proc(p)
      PROVE  /\ active' = active
             /\ active = Tabs => TabCopies'
             /\ active = Procs /\ ~raced' => ProcCopies'
  <2>1. active # Tabs
    BY <1>5, RecoveryAssumption DEF Proc
  <2>2. ~raced' => ~raced /\ ~RegistersOver(p) /\ ~RemovesFresh(p)
    BY <1>5 DEF Proc
  <2> QED
    BY <1>1, <1>5, <2>1, <2>2, ProcNextCopies DEF Proc, CopyInv
<1>6. CASE Stale
  <2>1. UNCHANGED <<queueVars, objects, req, late, active>>
    BY <1>6 DEF Stale, GoesStale
  <2>2. TabCopies => TabCopies'
    <3>1. UNCHANGED <<job, progress, minted, pc, live>>
      BY <2>1 DEF queueVars
    <3>2. \A e, n : InPlay(e, n)' <=> InPlay(e, n)
      BY <2>1, SamePlay
    <3>3. \A e : Held0(e)' <=> Held0(e)
      BY <2>1 DEF Held0
    <3> QED
      BY <3>1, <3>2, <3>3 DEF TabCopies, OneInPlay, UnmintedInv, StoredInv, SharedInv, AloneInv, WorkInv
  <2>3. ~raced' => ~raced /\ ppc[lock.token] = "out"
    BY <1>6 DEF Stale
  <2> QED
    BY <1>6, <2>1, <2>2, <2>3, StaleCopies DEF Stale, CopyInv
<1>7. CASE UNCHANGED vars
  <2>1. UNCHANGED <<objects, req, late, job, progress, minted, pc, live>>
    BY <1>7 DEF vars, storeVars, queueVars
  <2>2. UNCHANGED <<file, lock, ppc, mem, active, raced>>
    BY <1>7 DEF vars, jobsVars
  <2>3. \A e, n : InPlay(e, n)' <=> InPlay(e, n)
    BY <2>1, SamePlay
  <2>4. \A e : Held0(e)' <=> Held0(e)
    BY <2>1 DEF Held0
  <2>5. TabCopies => TabCopies'
    BY <2>1, <2>3, <2>4 DEF TabCopies, OneInPlay, UnmintedInv, StoredInv, SharedInv, AloneInv, WorkInv
  <2>6. ProcCopies => ProcCopies'
    <3>1. ProcCopies => LockInv' /\ SureInv' /\ EndInv'
      BY <2>1, <2>2, <2>3 DEF ProcCopies, LockInv, SureInv, EndInv, Sure
    <3>2. ProcCopies => AgreeInv' /\ BlockInv'
      BY <2>1, <2>2 DEF ProcCopies, AgreeInv, BlockInv, Usable, Kept, BlockedRight
    <3> QED
      BY <3>1, <3>2 DEF ProcCopies
  <2> QED
    BY <2>2, <2>5, <2>6 DEF CopyInv
<1> QED
  BY <1>3, <1>4, <1>5, <1>6, <1>7 DEF Next

\* One name at most is kept.
LEMMA OneKept ==
    ASSUME TypeInv, CopyInv
    PROVE  OneSaltedCopy
<1> SUFFICES ASSUME ~raced, NEW e \in Entries PROVE Cardinality(Kept(e)) <= 1
  BY DEF OneSaltedCopy
<1>1. ASSUME NEW m \in Kept(e), NEW n \in Kept(e) PROVE m = n
  <2>1. m \in Names /\ n \in Names /\ objects[e][m] = "mine" /\ objects[e][n] = "mine"
    BY DEF Kept
  <2>2. CASE active = Tabs
    <3>1. m # Det => InPlay(e, m) /\ Held0(e)
      BY <2>1 DEF InPlay, CopyInv, HeldInv
    <3>2. n # Det => InPlay(e, n) /\ Held0(e)
      BY <2>1 DEF InPlay, CopyInv, HeldInv
    <3>3. m = Det \/ n = Det => ~Held0(e)
      BY <2>1 DEF Held0
    <3> QED
      BY <2>1, <2>2, <3>1, <3>2, <3>3 DEF CopyInv, TabCopies, OneInPlay
  <2>3. CASE active = Procs
    BY <2>1, <2>3 DEF CopyInv, ProcCopies, AgreeInv
  <2> QED
    BY <2>2, <2>3 DEF TypeInv
<1>2. CASE Kept(e) = {}
  BY <1>2, FS_EmptySet
<1>3. CASE Kept(e) # {}
  <2>1. PICK n : n \in Kept(e)
    BY <1>3
  <2>2. Kept(e) = {n}
    BY <1>1, <2>1
  <2> QED
    BY <2>2, FS_Singleton
<1> QED
  BY <1>2, <1>3

\* What is in play is one name of an entry, in every state that can be reached.
LEMMA CopiesHold == Spec => [](TypeInv /\ CopyInv)
<1>1. Init => TypeInv /\ BeliefInv /\ CopyInv
  BY InitTypes, InitBelief, InitCopies
<1>2. TypeInv /\ BeliefInv /\ CopyInv /\ [Next]_vars => (TypeInv /\ BeliefInv /\ CopyInv)'
  BY NextTypes, NextBelief, NextCopies
<1> QED
  BY <1>1, <1>2, PTL DEF Spec

\* No entry is left in two copies, for any tree, tabs or processes, names held by others and
\* faults, unless one of the three races of the job files happened (OneSaltedCopy): mergeSalts
\* of recovery-queue.ts, and the lock and the saves of recovery-jobs.ts.
THEOREM OneCopyIsWritten == Spec => []OneSaltedCopy
<1>1. TypeInv /\ CopyInv => OneSaltedCopy
  BY OneKept
<1> QED
  BY <1>1, CopiesHold, PTL

-----------------------------------------------------------------------------
(* One process at a time, and what its job file says.                      *)

\* The lock keeps two processes from working on one job, or from one of them ending it while
\* another works on it.
OneAtATime ==
    active = Procs /\ ~raced =>
        \A p, q \in Procs : ppc[p] \in Inside /\ ppc[q] \in Inside => p = q

\* The lock file is created exclusively, taken over only when it is stale, and removed only by
\* its holder (recovery-jobs.ts, lock and release): between taking it and letting it go a process
\* is alone, also after kills, unless one of the three races of OneSaltedCopy happened.
THEOREM OneProcessWorks == Spec => []OneAtATime
<1>1. TypeInv /\ CopyInv => OneAtATime
  BY DEF CopyInv, ProcCopies, LockInv, OneAtATime
<1> QED
  BY <1>1, CopiesHold, PTL

\* t counts all that s does as kept and as blocked.
GoesBeyond(t, s) == s.kept \subseteq t.kept /\ s.blocked \subseteq t.blocked

\* A process that has loaded the job knows all that the file says.
LoadedInv ==
    active = Procs /\ ~raced /\ file # NoFile =>
        \A p \in Procs : ppc[p] \in Loaded => GoesBeyond(mem[p], file)

\* As long as the job file is there it forgets nothing.
ProgressKept ==
    [][active = Procs /\ ~raced' /\ file # NoFile /\ file' # NoFile => GoesBeyond(file', file)]_vars

\* A process that takes a step keeps the file as it is, with what it knows; or the file says
\* nothing yet; or the file is what the one process that works on the job knows.
LEMMA LoadedStep ==
    ASSUME TypeInv, CopyInv, LoadedInv, [Next]_vars, active = Procs, ~raced'
    PROVE  /\ LoadedInv'
           /\ file # NoFile /\ file' # NoFile => GoesBeyond(file', file)
<1>1. /\ mem \in [Procs -> State] /\ ppc \in [Procs -> ProcStates]
      /\ \A q \in Procs : mem[q].kept \subseteq Entries /\ mem[q].blocked \subseteq Entries
  BY DEF TypeInv, JobsInv, State
<1>2. ASSUME UNCHANGED <<file, mem, active>>, ~raced,
             \A q \in Procs : ppc'[q] \in Loaded => ppc[q] \in Loaded
      PROVE  /\ LoadedInv'
             /\ file # NoFile /\ file' # NoFile => GoesBeyond(file', file)
  BY <1>2 DEF LoadedInv, GoesBeyond
<1>3. CASE Server \/ UNCHANGED vars
  BY <1>2, <1>3 DEF Server, vars, jobsVars
<1>4. ASSUME NEW t \in Tabs, Tab(t)
      PROVE  FALSE
  BY <1>4, RecoveryAssumption DEF Tab
<1>5. CASE Stale
  BY <1>2, <1>5 DEF Stale, GoesStale
<1>6. ASSUME NEW p \in Procs, Proc(p)
      PROVE  /\ LoadedInv'
             /\ file # NoFile /\ file' # NoFile => GoesBeyond(file', file)
  <2>1. ~raced /\ ~RegistersOver(p) /\ UNCHANGED active /\ ProcNext(p)
    BY <1>6 DEF Proc
  <2>2. \A x : At(p, x) => ppc'[p] = x /\ \A q \in Procs \ {p} : ppc'[q] = ppc[q]
    BY OwnProc
  <2>3. ASSUME UNCHANGED <<file, mem>>, NEW x, At(p, x), x \in Loaded => ppc[p] \in Loaded
        PROVE  /\ LoadedInv'
               /\ file # NoFile /\ file' # NoFile => GoesBeyond(file', file)
    BY <1>2, <2>1, <2>2, <2>3
  <2>4. CASE Register(p)
    <3>1. /\ file' = file /\ ppc'[p] \notin Loaded
          /\ \A q \in Procs \ {p} : ppc'[q] = ppc[q] /\ mem'[q] = mem[q]
      BY <1>1, <2>2, <2>4 DEF Register, Loaded
    <3> QED
      BY <2>1, <3>1 DEF LoadedInv, GoesBeyond
  <2>5. CASE RegisterSave(p)
    <3>1. file = NoFile /\ file' = Fresh
      BY <2>1, <2>2, <2>5 DEF RegisterSave, RegistersOver
    <3>2. \A q \in Procs : mem'[q] = mem[q]
      BY <2>5 DEF RegisterSave
    <3> QED
      BY <3>1, <3>2 DEF LoadedInv, GoesBeyond, Fresh
  <2>6. CASE TakeLock(p) \/ RemoveStale(p)
    BY <2>3, <2>6 DEF TakeLock, RemoveStale, Loaded
  <2>7. CASE LoadJob(p)
    <3>1. /\ file' = file /\ (file # NoFile => mem'[p] = file)
          /\ \A q \in Procs \ {p} : ppc'[q] = ppc[q] /\ mem'[q] = mem[q]
      BY <1>1, <2>2, <2>7 DEF LoadJob
    <3> QED
      BY <2>1, <3>1 DEF LoadedInv, GoesBeyond
  <2>8. CASE Round(p) \/ ProcPostFails(p) \/ LookedUp(p) \/ CheckHeld(p) \/ Finished(p)
    BY <2>3, <2>8 DEF Round, ProcPostFails, LookedUp, CheckHeld, Finished, Loaded
  <2>9. CASE ProcApply(p)
    <3>1. PICK K, B, m : /\ m = [mem[p] EXCEPT !.kept = @ \cup K, !.blocked = @ \cup B]
                         /\ mem' = [mem EXCEPT ![p] = m]
      BY <2>9 DEF ProcApply
    <3>2. mem[p] \in State
      BY <1>1
    <3>3. GoesBeyond(m, mem[p])
      BY <3>1, <3>2 DEF GoesBeyond, State
    <3>4. mem'[p] = m /\ \A q \in Procs \ {p} : mem'[q] = mem[q]
      BY <1>1, <3>1
    <3>5. file' = file /\ ppc[p] \in Loaded
      BY <2>9 DEF ProcApply, Loaded
    <3>6. \A q \in Procs \ {p} : ppc'[q] = ppc[q]
      BY <2>2, <2>9 DEF ProcApply
    <3> QED
      BY <2>1, <3>3, <3>4, <3>5, <3>6 DEF LoadedInv, GoesBeyond
  <2>10. ASSUME NEW e \in Entries, ProcLookup(p, e)
         PROVE  /\ LoadedInv'
                /\ file # NoFile /\ file' # NoFile => GoesBeyond(file', file)
    <3>1. PICK K, n : \/ mem' = [mem EXCEPT ![p].kept = @ \cup K, ![p].salts[e] = n]
                      \/ mem' = [mem EXCEPT ![p].salts[e] = n]
                      \/ mem' = mem
      BY <2>10 DEF ProcLookup
    <3>2. mem[p] \in State
      BY <1>1
    <3>3. GoesBeyond(mem'[p], mem[p]) /\ \A q \in Procs \ {p} : mem'[q] = mem[q]
      BY <1>1, <3>1, <3>2 DEF GoesBeyond, State
    <3>4. UNCHANGED <<file, ppc>>
      BY <2>10 DEF ProcLookup
    <3> QED
      BY <2>1, <3>3, <3>4 DEF LoadedInv, GoesBeyond
  <2>11. CASE SaveState(p)
    <3>1. file' = mem[p] /\ mem' = mem /\ ppc[p] = "save"
      BY <2>11 DEF SaveState
    <3>2. \A q \in Procs \ {p} : ppc'[q] = ppc[q]
      BY <2>2, <2>11 DEF SaveState
    <3>3. \A q \in Procs \ {p} : ppc[q] \notin Loaded
      BY <2>1, <3>1 DEF CopyInv, ProcCopies, LockInv, Inside, Loaded
    <3>4. file # NoFile => GoesBeyond(mem[p], file)
      BY <2>1, <3>1 DEF LoadedInv, Loaded
    <3> QED
      BY <3>1, <3>2, <3>3, <3>4 DEF LoadedInv, GoesBeyond
  <2>12. CASE RemoveJob(p)
    BY <2>12 DEF RemoveJob, LoadedInv
  <2>13. CASE CheckRelease(p) \/ Release(p) \/ Kill(p)
    BY <2>3, <2>13 DEF CheckRelease, Release, Kill, Loaded
  <2> QED
    BY <2>1, <2>4, <2>5, <2>6, <2>7, <2>8, <2>9, <2>10, <2>11, <2>12, <2>13 DEF ProcNext
<1> QED
  BY <1>3, <1>4, <1>5, <1>6 DEF Next

\* The job file forgets nothing it counted as kept or blocked until it is removed (recovery-jobs.ts,
\* saveState): a process starts from the file, and no other saves while it works; so a process
\* that is killed or cut off costs its own last steps and nobody else's.
THEOREM ProgressIsKept == Spec => ProgressKept
<1>1. Init => LoadedInv
  BY DEF Init, JobsInit, LoadedInv
<1>2. TypeInv /\ CopyInv /\ LoadedInv /\ [Next]_vars => LoadedInv'
  <2> SUFFICES ASSUME TypeInv, CopyInv, LoadedInv, [Next]_vars, active' = Procs, ~raced'
               PROVE  LoadedInv'
    BY DEF LoadedInv
  <2>1. active = Procs
    BY DEF Next, Server, Tab, Proc, Stale, vars
  <2> QED
    BY <2>1, LoadedStep
<1>3. TypeInv /\ CopyInv /\ LoadedInv /\ [Next]_vars =>
        [active = Procs /\ ~raced' /\ file # NoFile /\ file' # NoFile => GoesBeyond(file', file)]_vars
  BY LoadedStep
<1> QED
  BY <1>1, <1>2, <1>3, CopiesHold, PTL DEF Spec, ProgressKept

=============================================================================
