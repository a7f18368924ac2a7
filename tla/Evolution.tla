------------------------------ MODULE Evolution ------------------------------
(***************************************************************************)
(* The evolution tasks and the promotion of what they produce, for one     *)
(* strategy: EpochService (internal/saas/epoch/service.go), the promotion  *)
(* and champion handlers (internal/saas/api/handler_evolution.go), the     *)
(* champion cache in Redis, and the ticks that read the champion           *)
(* (loadChampionParams in internal/saas/instance/manager.go).              *)
(*                                                                         *)
(* An epoch writes one gene, so a gene is known by its task; tasks, hence  *)
(* genes, are numbered in the order they are created.  The search itself   *)
(* is one step: it yields a challenger or fails.  A promotion is a         *)
(* transaction of two UPDATE statements under READ COMMITTED.              *)
(***************************************************************************)
EXTENDS Naturals, FiniteSets, FiniteSetsExt

CONSTANTS
  MaxTasks,   (* bound on the tasks created                                *)
  Promoters,  (* the promote requests that may be in flight together       *)
  Readers,    (* the champion requests that may be in flight together      *)
  Faults      (* the faults that may strike: see FaultNames                *)

\* search: an epoch fails; db: a statement fails; redis: a Get, Del or Set fails,
\* which handlers and ticks ignore or take for a miss; crash: the process dies.
FaultNames == {"search", "db", "redis", "crash"}

ASSUME EvolutionAssumption ==
  MaxTasks \in Nat /\ Faults \subseteq FaultNames

VARIABLES
  taskStatus, (* EvolutionTask.Status of each task, "none" before it       *)
  role,       (* GeneRecord.Role of the gene of each task, "none" before   *)
  active,     (* activeTask: the task, 0 for nil                           *)
  inMemory,   (* activeTask.Status                                         *)
  epochs,     (* the runEpoch goroutines                                   *)
  cancelled,  (* the tasks whose epoch has had its context cancelled       *)
  promotions, (* the promote requests in flight                            *)
  lookups,    (* the champion requests that missed the cache               *)
  cache,      (* the gene under the champion key, 0 for none               *)
  used        (* history: the gene the last tick ran with, 0: its own      *)

taskVars    == <<taskStatus, active, inMemory, epochs, cancelled>>
requestVars == <<promotions, lookups>>
vars        == <<taskVars, role, requestVars, cache, used>>

Tasks    == 1 .. MaxTasks
Running  == {"running", "done", "failed"}
Roles    == {"challenger", "champion", "retired"}

\* seen: the champions in the snapshot of the first UPDATE; locked: the rows
\* the transaction has written, and holds until it ends.
Promotion == [p : Promoters, gene : Tasks, seen : SUBSET Tasks, locked : SUBSET Tasks,
              pc : {"begin", "retire", "promote", "invalidate"}]
Epoch     == [task : Tasks, pc : {"search", "record", "finish"}, result : Running]

TypeOK ==
  /\ taskStatus \in [Tasks -> Running \cup {"none"}]
  /\ role \in [Tasks -> Roles \cup {"none"}]
  /\ active \in 0 .. MaxTasks
  /\ inMemory \in Running
  /\ epochs \subseteq Epoch
  /\ cancelled \subseteq Tasks
  /\ promotions \subseteq Promotion
  /\ lookups \subseteq [r : Readers, gene : Tasks]
  /\ cache \in 0 .. MaxTasks
  /\ used \in 0 .. MaxTasks

Init ==
  /\ taskStatus = [t \in Tasks |-> "none"]
  /\ role = [t \in Tasks |-> "none"]
  /\ active = 0 /\ inMemory = "done"
  /\ epochs = {} /\ cancelled = {}
  /\ promotions = {} /\ lookups = {}
  /\ cache = 0 /\ used = 0

Champions == {t \in Tasks : role[t] = "champion"}

\* ORDER BY created_at DESC: the champion the database answers with.
Newest == IF Champions = {} THEN 0 ELSE Max(Champions)

-----------------------------------------------------------------------------
\* EpochService: the mutex makes each of these one step.

\* Mutant: a running task does not refuse the next.
CreateTaskAnyway(t) ==
  /\ taskStatus[t] = "none" /\ \A u \in Tasks : u < t => taskStatus[u] # "none"
  /\ taskStatus' = [taskStatus EXCEPT ![t] = "running"]
  /\ active' = t
  /\ inMemory' = "running"
  /\ epochs' = epochs \cup {[task |-> t, pc |-> "search", result |-> "running"]}
  /\ UNCHANGED <<cancelled, role, requestVars, cache, used>>

CreateTask(t) ==
  /\ ~ (active # 0 /\ inMemory = "running")
  /\ taskStatus[t] = "none" /\ \A u \in Tasks : u < t => taskStatus[u] # "none"
  /\ taskStatus' = [taskStatus EXCEPT ![t] = "running"]
  /\ active' = t
  /\ inMemory' = "running"
  /\ epochs' = epochs \cup {[task |-> t, pc |-> "search", result |-> "running"]}
  /\ UNCHANGED <<cancelled, role, requestVars, cache, used>>

\* cancelFn is that of the last task; its epoch may be over.
CancelActiveTask ==
  /\ \E e \in epochs : e.task = active
  /\ cancelled' = cancelled \cup {active}
  /\ UNCHANGED <<taskStatus, active, inMemory, epochs, role, requestVars, cache, used>>

Goes(e, pc, result) ==
  epochs' = (epochs \ {e}) \cup {[e EXCEPT !.pc = pc, !.result = result]}

\* Mutant: the error of the INSERT is ignored.
SearchUnchecked(e) ==
  /\ e.pc = "search"
  /\ role' \in {role} \cup {[role EXCEPT ![e.task] = "challenger"]}
  /\ Goes(e, "record", "done")
  /\ UNCHANGED <<taskStatus, active, inMemory, cancelled, requestVars, cache, used>>

\* RunEpoch, up to the INSERT of the challenger; a cancelled context makes that
\* fail, before or after the row was written.
Search(e) ==
  LET written == [role EXCEPT ![e.task] = "challenger"]
  IN /\ e.pc = "search"
     /\ \/ /\ e.task \notin cancelled
           /\ role' = written
           /\ Goes(e, "record", "done")
        \/ /\ "search" \in Faults
           /\ role' = role
           /\ Goes(e, "record", "failed")
        \/ /\ e.task \in cancelled \/ "db" \in Faults
           /\ role' \in {role, written}
           /\ Goes(e, "record", "failed")
     /\ UNCHANGED <<taskStatus, active, inMemory, cancelled, requestVars, cache, used>>

\* updateTask logs its error and goes on.
Record(e) ==
  /\ e.pc = "record"
  /\ \/ taskStatus' = [taskStatus EXCEPT ![e.task] = e.result]
     \/ "db" \in Faults /\ UNCHANGED taskStatus
  /\ Goes(e, "finish", e.result)
  /\ UNCHANGED <<active, inMemory, cancelled, role, requestVars, cache, used>>

\* Mutant: a failed epoch leaves activeTask as it is.
FinishDoneOnly(e) ==
  /\ e.pc = "finish"
  /\ inMemory' = IF e.result = "done" THEN "done" ELSE inMemory
  /\ epochs' = epochs \ {e}
  /\ cancelled' = cancelled \ {e.task}
  /\ UNCHANGED <<taskStatus, active, role, requestVars, cache, used>>

\* s.activeTask.Status, whichever task activeTask is by then.
Finish(e) ==
  /\ e.pc = "finish"
  /\ inMemory' = e.result
  /\ epochs' = epochs \ {e}
  /\ cancelled' = cancelled \ {e.task}
  /\ UNCHANGED <<taskStatus, active, role, requestVars, cache, used>>

-----------------------------------------------------------------------------
\* PromoteChallenger: the challenger is looked up before the transaction.

ProceedsTo(x, y) == promotions' = (promotions \ {x}) \cup {y}

LockedByOthers(x) == UNION {y.locked : y \in promotions \ {x}}

Find(p, t) ==
  /\ \A x \in promotions : x.p # p
  /\ role[t] = "challenger"
  /\ promotions' = promotions \cup
       {[p |-> p, gene |-> t, seen |-> {}, locked |-> {}, pc |-> "begin"]}
  /\ UNCHANGED <<taskVars, role, lookups, cache, used>>

\* The first UPDATE takes its snapshot of the committed champions ...
Snapshot(x) ==
  /\ x.pc = "begin"
  /\ ProceedsTo(x, [x EXCEPT !.pc = "retire", !.seen = Champions])
  /\ UNCHANGED <<taskVars, role, lookups, cache, used>>

\* Mutant: the UPDATE forgets the role in its WHERE.
RetireAll(x) ==
  /\ x.pc = "retire"
  /\ LockedByOthers(x) = {}
  /\ ProceedsTo(x, [x EXCEPT !.pc = "promote", !.seen = {},
                             !.locked = {t \in Tasks : role[t] # "none"}])
  /\ UNCHANGED <<taskVars, role, lookups, cache, used>>

\* ... waits for the rows of it that other transactions hold, and writes those
\* that are champions still.
Retire(x) ==
  /\ x.pc = "retire"
  /\ x.seen \cap LockedByOthers(x) = {}
  /\ ProceedsTo(x, [x EXCEPT !.pc = "promote", !.seen = {}, !.locked = x.seen \cap Champions])
  /\ UNCHANGED <<taskVars, role, lookups, cache, used>>

\* The second UPDATE, by id whatever the role is now, and the commit.
Promote(x) ==
  /\ x.pc = "promote"
  /\ x.gene \notin LockedByOthers(x)
  /\ role' = [t \in Tasks |-> IF t = x.gene THEN "champion"
                              ELSE IF t \in x.locked THEN "retired" ELSE role[t]]
  /\ ProceedsTo(x, [x EXCEPT !.pc = "invalidate", !.locked = {}])
  /\ UNCHANGED <<taskVars, lookups, cache, used>>

\* A statement fails, or the process loses the connection or a deadlock.
RollBack(x) ==
  /\ "db" \in Faults
  /\ x.pc # "invalidate"
  /\ promotions' = promotions \ {x}
  /\ UNCHANGED <<taskVars, role, lookups, cache, used>>

\* After the commit the cached champion is deleted; an error is ignored.
Invalidate(x) ==
  /\ x.pc = "invalidate"
  /\ cache' \in {0} \cup (IF "redis" \in Faults THEN {cache} ELSE {})
  /\ promotions' = promotions \ {x}
  /\ UNCHANGED <<taskVars, role, lookups, used>>

-----------------------------------------------------------------------------
\* GetChampion: a miss reads the database, and then fills the cache.

CacheMisses == cache = 0 \/ "redis" \in Faults

\* Mutant: a champion that is not found is cached all the same.
MissAnything(r) ==
  /\ \A x \in lookups : x.r # r
  /\ CacheMisses
  /\ lookups' = lookups \cup {[r |-> r, gene |-> Newest]}
  /\ UNCHANGED <<taskVars, role, promotions, cache, used>>

Miss(r) ==
  /\ \A x \in lookups : x.r # r
  /\ CacheMisses /\ Newest # 0
  /\ lookups' = lookups \cup {[r |-> r, gene |-> Newest]}
  /\ UNCHANGED <<taskVars, role, promotions, cache, used>>

Fill(x) ==
  /\ cache' \in {x.gene} \cup (IF "redis" \in Faults THEN {cache} ELSE {})
  /\ lookups' = lookups \ {x}
  /\ UNCHANGED <<taskVars, role, promotions, used>>

\* Mutant: the key is set without expiry.
NeverExpire == FALSE

\* The five minutes of the key are over.
Expire ==
  /\ cache # 0
  /\ cache' = 0
  /\ UNCHANGED <<taskVars, role, requestVars, used>>

\* loadChampionParams of a tick: cache, database, the instance's own; the error
\* of the query fails the tick, which runs with none.
LoadChampionParams ==
  /\ \/ cache # 0 /\ used' = cache
     \/ CacheMisses /\ used' \in {Newest} \cup (IF "db" \in Faults THEN {used} ELSE {})
  /\ UNCHANGED <<taskVars, role, requestVars, cache>>

\* The process dies: goroutines and requests are gone, transactions roll back.
Crash ==
  /\ "crash" \in Faults
  /\ active' = 0 /\ inMemory' = "done"
  /\ epochs' = {} /\ cancelled' = {} /\ promotions' = {} /\ lookups' = {}
  /\ UNCHANGED <<taskStatus, role, cache, used>>

EpochStep(e) == Search(e) \/ Record(e) \/ Finish(e)

PromotionStep(x) == Snapshot(x) \/ Retire(x) \/ Promote(x) \/ Invalidate(x)

Next ==
  \/ \E t \in Tasks : CreateTask(t) \/ \E p \in Promoters : Find(p, t)
  \/ CancelActiveTask
  \/ \E e \in epochs : EpochStep(e)
  \/ \E x \in promotions : PromotionStep(x) \/ RollBack(x)
  \/ \E r \in Readers : Miss(r)
  \/ \E x \in lookups : Fill(x)
  \/ Expire
  \/ LoadChampionParams
  \/ Crash

Spec == Init /\ [][Next]_vars

\* Goroutines and requests are not starved, ticks go on and keys expire.
Fairness ==
  /\ WF_vars(\E e \in epochs : EpochStep(e))
  /\ \A p \in Promoters : WF_vars(\E x \in promotions : x.p = p /\ PromotionStep(x))
  /\ \A r \in Readers : WF_vars(\E x \in lookups : x.r = r /\ Fill(x))
  /\ SF_vars(Expire)
  /\ WF_vars(LoadChampionParams)

LiveSpec == Spec /\ Fairness

-----------------------------------------------------------------------------
\* There is at most one epoch, and it is the active task's, so that the status
\* it sets at its end is its own: the task is replaced only after it, whatever
\* is cancelled or fails meanwhile (service.go:59, :175, :194).
EpochIsActive ==
  \A e \in epochs : e.task = active /\ inMemory = "running" /\ epochs = {e}

\* A task recorded done has left its gene to promote, though a cancellation races
\* the INSERT and the two are written apart (service.go:186, engine.go:216).
DoneHasGene == \A t \in Tasks : taskStatus[t] = "done" => role[t] # "none"

\* The strategy has one champion, the 「當前活躍冠軍」 of 進化計算引擎.md:190: a promotion
\* is "current champion -> retired, challenger -> champion" (handler_evolution.go:108).
OneChampion == Cardinality(Champions) <= 1

\* Promotions that overlap each leave the strategy a champion at most, so there
\* are never more than requests that may be in flight at once, and one if there is
\* one: the champions a request leaves are retired by its next, though others
\* commit, roll back or die between its statements (handler_evolution.go:131-144).
ChampionPerPromoter == Cardinality(Champions) <= Cardinality(Promoters)

Moves(from) ==
  \A t \in Tasks : role[t] # role'[t] => <<role[t], role'[t]>> \in from

\* Only a champion is retired, and no gene is a challenger twice, however two
\* promotions overlap between their statements.  "challenger -> champion -> retired"
\* (models.go:108) is not all of it: a promotion by id may bring back a gene that
\* was retired since it was looked up (handler_evolution.go:120, :131-137).
OnlyChampionsRetire ==
  [][Moves({<<"none", "challenger">>, <<"challenger", "champion">>,
            <<"champion", "retired">>, <<"retired", "champion">>})]_vars

\* The service does not stay busy: whether the epoch succeeds, fails, is cancelled
\* or dies with the process, a new task can be created again (service.go:59, :124-196).
ServiceFreed == inMemory = "running" ~> inMemory # "running"

\* A promotion takes effect: from some tick on all of them run with the last
\* champion, although the cache may be filled with the one before after it was
\* invalidated (handler_evolution.go:149, :192).
PromotionTakesEffect ==
  \A t \in Tasks : <>[](Newest = t) => <>[](used = t)
=============================================================================
