--------------------------- MODULE RecoveryStore ---------------------------
(***************************************************************************)
(* The server's half of the recovery copies (website recovery-store.ts,    *)
(* recovery-store-s3.ts): sealed entries under object keys, create-only,   *)
(* and the requests that writers have under way.                           *)
(*                                                                         *)
(* An entry is one side of one member of a tree: the thing that has to be  *)
(* kept.  It can be filed under its deterministic name, Det, or under a    *)
(* salted one.  What matters of a stored envelope is whether it opens to   *)
(* this member ("mine") or to something else ("other").                    *)
(***************************************************************************)
EXTENDS Naturals, FiniteSets

CONSTANTS Entries,      \* the entries the tree needs
          Writers,      \* browser tabs and command-line processes
          MaxSalt,      \* bound: salts that may be drawn
          HeldSets,     \* which names others may hold at the start
          MaxFaults     \* bound: faults of any kind

ASSUME RecoveryStoreAssumption ==
    /\ MaxSalt \in Nat \ {0}
    /\ MaxFaults \in Nat
    /\ \A held \in HeldSets : held \subseteq Entries \X (0..MaxSalt)

VARIABLES objects,      \* per entry and name, what the bucket holds
          req,          \* per writer, its POST and the answers so far
          late,         \* puts whose writer no longer waits for the answer
          drawn,        \* salts drawn so far; a salt is a fresh number
          faults        \* faults so far

storeVars == <<objects, req, late, drawn, faults>>

Det == 0
NoSalt == 0
Names == 0..MaxSalt
Answers == {"created", "mine", "other", "failed"}
NoReq == [name |-> <<>>, res |-> <<>>]

StoreTypeOK ==
    /\ objects \in [Entries -> [Names -> {"free", "mine", "other"}]]
    /\ \A w \in Writers :
         /\ DOMAIN req[w].name \subseteq Entries
         /\ \A e \in DOMAIN req[w].name : req[w].name[e] \in Names
         /\ DOMAIN req[w].res \subseteq DOMAIN req[w].name
         /\ \A e \in DOMAIN req[w].res : req[w].res[e] \in Answers
    /\ late \subseteq Entries \X Names
    /\ drawn \in 0..MaxSalt
    /\ faults \in 0..MaxFaults

StoreInit ==
    /\ \E held \in HeldSets :
         objects = [e \in Entries |-> [n \in Names |->
                      IF <<e, n>> \in held THEN "other" ELSE "free"]]
    /\ req = [w \in Writers |-> NoReq]
    /\ late = {}
    /\ drawn = 0
    /\ faults = 0

Fault == faults < MaxFaults /\ faults' = faults + 1

\* The names under which entry e can be read back.
Kept(e) == {n \in Names : objects[e][n] = "mine"}

(***************************************************************************)
(* A writer posts some entries, each under a name.                         *)
(***************************************************************************)
Post(w, name) == req' = [req EXCEPT ![w] = [name |-> name, res |-> <<>>]]

Unserved(w) == DOMAIN req[w].name \ DOMAIN req[w].res

AllServed(w) == req[w] # NoReq /\ Unserved(w) = {}

Created(e, n) == objects' = [objects EXCEPT ![e][n] = IF @ = "free" THEN "mine" ELSE @]

\* The answer for one entry joins those already there.
WithAnswer(res, e, a) == [d \in DOMAIN res \cup {e} |-> IF d = e THEN a ELSE res[d]]
Answer(w, e, a) == req' = [req EXCEPT ![w].res = WithAnswer(@, e, a)]

(***************************************************************************)
(* putIfAbsent for one entry of a batch.  A put that fails answers         *)
(* "conflict" or "error", and may have landed all the same.                *)
(***************************************************************************)
PutIfAbsent(w, e) ==
    LET n == req[w].name[e] IN
    /\ e \in Unserved(w)
    /\ \/ /\ Answer(w, e, IF objects[e][n] = "free" THEN "created" ELSE objects[e][n])
          /\ Created(e, n)
          /\ UNCHANGED faults
       \/ /\ Fault
          /\ Answer(w, e, "failed")
          /\ UNCHANGED objects \/ Created(e, n)
    /\ UNCHANGED <<late, drawn>>

\* The writer gives up or is gone; the puts not served yet may still happen.
Abandon(w) ==
    /\ late' = late \cup {<<e, req[w].name[e]>> : e \in Unserved(w)}
    /\ req' = [req EXCEPT ![w] = NoReq]

LatePut(e, n) ==
    /\ <<e, n>> \in late
    /\ late' = late \ {<<e, n>>}
    /\ Created(e, n)
    /\ UNCHANGED <<req, drawn, faults>>

\* Never happens: the request died with its connection.
LateLost(e, n) ==
    /\ <<e, n>> \in late
    /\ late' = late \ {<<e, n>>}
    /\ UNCHANGED <<objects, req, drawn, faults>>

ServerNext ==
    \/ \E w \in Writers : \E e \in DOMAIN req[w].name : PutIfAbsent(w, e)
    \/ \E p \in late : LatePut(p[1], p[2]) \/ LateLost(p[1], p[2])

=============================================================================
