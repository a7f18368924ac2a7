--------------------------- MODULE EvolutionProofs ---------------------------
(***************************************************************************)
(* Theorems about Evolution, for any number of tasks and requests and any  *)
(* faults: there is one epoch at most and it is the active task's, a task  *)
(* recorded done has left its gene, and promotions, however they overlap,  *)
(* retire champions only and leave no more champions than requests.        *)
(***************************************************************************)
EXTENDS Evolution, FoldsAndExtrema

\* The part of TypeOK the epochs depend on.
EpochTypes ==
  /\ taskStatus \in [Tasks -> Running \cup {"none"}]
  /\ role \in [Tasks -> Roles \cup {"none"}]
  /\ inMemory \in Running
  /\ epochs \subseteq Epoch

\* An epoch that is about to record success has written its gene.
SuccessHasGene ==
  \A e \in epochs : e.pc # "search" /\ e.result = "done" => role[e.task] # "none"

IInv == EpochTypes /\ EpochIsActive /\ SuccessHasGene /\ DoneHasGene

\* A step that leaves the tasks alone and takes no gene away keeps them all.
LEMMA GenesStay ==
  ASSUME IInv, UNCHANGED taskVars,
         role' \in [Tasks -> Roles \cup {"none"}],
         \A t \in Tasks : role[t] # "none" => role'[t] # "none"
  PROVE  IInv'
  <1>1. \A e \in epochs : e.task \in Tasks
    BY DEF IInv, EpochTypes, Epoch
  <1>2. QED
    BY <1>1 DEF IInv, EpochTypes, EpochIsActive, SuccessHasGene, DoneHasGene, taskVars

\* A new task finds no epoch of an earlier one still running.
LEMMA CreateKeeps ==
  ASSUME IInv, NEW t \in Tasks, CreateTask(t)
  PROVE  IInv'
  <1> DEFINE new == [task |-> t, pc |-> "search", result |-> "running"]
  <1>1. t # 0 /\ \A e \in epochs : e.task # 0
    BY DEF IInv, EpochTypes, Epoch, Tasks
  <1>2. epochs = {}
    BY <1>1 DEF CreateTask, IInv, EpochIsActive
  <1>3. epochs' = {new} /\ new \in Epoch
    BY <1>2 DEF CreateTask, Epoch, Running
  <1>4. EpochTypes'
    BY <1>3 DEF CreateTask, IInv, EpochTypes, Running
  <1>5. EpochIsActive' /\ SuccessHasGene'
    BY <1>3 DEF CreateTask, EpochIsActive, SuccessHasGene
  <1>6. DoneHasGene'
    BY DEF CreateTask, IInv, EpochTypes, DoneHasGene
  <1>7. QED
    BY <1>4, <1>5, <1>6 DEF IInv

\* The steps of an epoch: it writes its gene or fails, records the outcome, and
\* leaves the service free.
LEMMA EpochKeeps ==
  ASSUME IInv, NEW e \in epochs, EpochStep(e)
  PROVE  IInv'
  <1>1. /\ e \in Epoch /\ e.task \in Tasks /\ e.result \in Running
        /\ epochs = {e} /\ e.task = active /\ inMemory = "running"
    BY DEF IInv, EpochTypes, EpochIsActive, Epoch
  <1>2. CASE Search(e)
    <2>1. PICK result \in {"done", "failed"} :
            /\ epochs' = {[e EXCEPT !.pc = "record", !.result = result]}
            /\ result = "done" => role' = [role EXCEPT ![e.task] = "challenger"]
      BY <1>1, <1>2 DEF Search, Goes
    <2>2. role' \in {role, [role EXCEPT ![e.task] = "challenger"]}
      BY <1>2 DEF Search
    <2>3. \A f \in epochs' : f \in Epoch /\ f.task = e.task /\ f.result = result
      BY <1>1, <2>1 DEF Epoch, Running
    <2>4. EpochTypes' /\ DoneHasGene'
      BY <1>1, <1>2, <2>2, <2>3 DEF Search, IInv, EpochTypes, DoneHasGene, Roles
    <2>5. EpochIsActive' /\ SuccessHasGene'
      BY <1>1, <1>2, <2>1, <2>3 DEF Search, IInv, EpochTypes, EpochIsActive, SuccessHasGene
    <2>6. QED
      BY <2>4, <2>5 DEF IInv
  <1>3. CASE Record(e)
    <2>1. epochs' = {[e EXCEPT !.pc = "finish"]} /\ role' = role
          /\ active' = active /\ inMemory' = inMemory
      BY <1>1, <1>3 DEF Record, Goes, Epoch
    <2>2. taskStatus' \in {taskStatus, [taskStatus EXCEPT ![e.task] = e.result]}
      BY <1>3 DEF Record
    <2>3. e.result = "done" => role[e.task] # "none"
      BY <1>3 DEF Record, IInv, SuccessHasGene
    <2>4. \A f \in epochs' : f \in Epoch /\ f.task = e.task /\ f.result = e.result
      BY <1>1, <2>1 DEF Epoch
    <2>5. EpochTypes' /\ DoneHasGene'
      BY <1>1, <2>1, <2>2, <2>3, <2>4 DEF IInv, EpochTypes, DoneHasGene
    <2>6. EpochIsActive' /\ SuccessHasGene'
      BY <1>1, <2>1, <2>3, <2>4 DEF EpochIsActive, SuccessHasGene
    <2>7. QED
      BY <2>5, <2>6 DEF IInv
  <1>4. CASE Finish(e)
    <2>1. epochs' = {} /\ inMemory' \in Running /\ taskStatus' = taskStatus /\ role' = role
      BY <1>1, <1>4 DEF Finish
    <2>2. QED
      BY <2>1 DEF IInv, EpochTypes, EpochIsActive, SuccessHasGene, DoneHasGene
  <1>5. QED
    BY <1>2, <1>3, <1>4 DEF EpochStep

\* Promotions move genes between roles, and take none away.
LEMMA PromotionKeeps ==
  ASSUME IInv, NEW x \in promotions, PromotionStep(x) \/ RollBack(x)
  PROVE  IInv'
  <1>1. CASE Promote(x)
    <2>1. /\ role' \in [Tasks -> Roles \cup {"none"}]
          /\ \A t \in Tasks : role[t] # "none" => role'[t] # "none"
      BY <1>1 DEF Promote, IInv, EpochTypes, Roles
    <2>2. UNCHANGED taskVars
      BY <1>1 DEF Promote
    <2>3. QED
      BY <2>1, <2>2, GenesStay
  <1>2. CASE Snapshot(x) \/ Retire(x) \/ Invalidate(x) \/ RollBack(x)
    <2>1. UNCHANGED <<taskVars, role>>
      BY <1>2 DEF Snapshot, Retire, Invalidate, RollBack
    <2>2. QED
      BY <2>1, GenesStay DEF IInv, EpochTypes
  <1>3. QED
    BY <1>1, <1>2 DEF PromotionStep

LEMMA Step ==
  ASSUME IInv, Next
  PROVE  IInv'
  <1>1. ASSUME UNCHANGED <<taskVars, role>>
        PROVE  IInv'
    BY <1>1, GenesStay DEF IInv, EpochTypes
  <1>2. ASSUME NEW t \in Tasks, CreateTask(t) \/ \E p \in Promoters : Find(p, t)
        PROVE  IInv'
    BY <1>1, <1>2, CreateKeeps DEF Find
  <1>3. CASE CancelActiveTask
    BY <1>3 DEF CancelActiveTask, IInv, EpochTypes, EpochIsActive, SuccessHasGene, DoneHasGene
  <1>4. ASSUME NEW r \in Readers, Miss(r)
        PROVE  IInv'
    BY <1>1, <1>4 DEF Miss
  <1>5. ASSUME NEW x \in lookups, Fill(x)
        PROVE  IInv'
    BY <1>1, <1>5 DEF Fill
  <1>6. CASE Expire \/ LoadChampionParams
    BY <1>1, <1>6 DEF Expire, LoadChampionParams, requestVars
  <1>7. CASE Crash
    BY <1>7 DEF Crash, IInv, EpochTypes, EpochIsActive, SuccessHasGene, DoneHasGene, Running
  <1>8. QED
    BY <1>2, <1>3, <1>4, <1>5, <1>6, <1>7, EpochKeeps, PromotionKeeps DEF Next

LEMMA Inductive == Spec => []IInv
  <1>1. Init => IInv
    BY DEF Init, IInv, EpochTypes, EpochIsActive, SuccessHasGene, DoneHasGene, Running
  <1>2. IInv /\ UNCHANGED vars => IInv'
    BY GenesStay DEF vars, IInv, EpochTypes
  <1>3. IInv /\ [Next]_vars => IInv'
    BY <1>2, Step
  <1>4. QED
    BY <1>1, <1>3, PTL DEF Spec

-----------------------------------------------------------------------------
\* There is one epoch at most, the active task's: the status it sets at its end
\* is its own (service.go:59, :175, :194).
THEOREM OneEpoch == Spec => []EpochIsActive
  <1>1. IInv => EpochIsActive
    BY DEF IInv
  <1>2. QED
    BY <1>1, Inductive, PTL

\* A task is recorded done only after its gene was written, also when it is
\* cancelled meanwhile or a statement fails (service.go:186, engine.go:216).
THEOREM DoneLeavesGene == Spec => []DoneHasGene
  <1>1. IInv => DoneHasGene
    BY DEF IInv
  <1>2. QED
    BY <1>1, Inductive, PTL

-----------------------------------------------------------------------------
(* The rest of the type invariant. *)

LEMMA NewestTask ==
  ASSUME role \in [Tasks -> Roles \cup {"none"}]
  PROVE  Newest \in 0 .. MaxTasks /\ (Newest # 0 => Newest \in Tasks)
  <1>1. Champions \in SUBSET (1 .. MaxTasks) /\ MaxTasks \in Nat
    BY EvolutionAssumption DEF Champions, Tasks
  <1>2. CASE Champions = {}
    BY <1>1, <1>2 DEF Newest
  <1>3. CASE Champions # {}
    <2>1. Max(Champions) \in Champions
      BY <1>1, <1>3, MaxOfRange
    <2>2. Newest = Max(Champions)
      BY <1>3 DEF Newest
    <2>3. Newest \in 1 .. MaxTasks
      BY <1>1, <2>1, <2>2
    <2>4. QED
      BY <1>1, <2>3 DEF Tasks
  <1>4. QED
    BY <1>2, <1>3

\* The requests and what they leave behind.
RequestTypes ==
  /\ promotions \subseteq Promotion
  /\ lookups \subseteq [r : Readers, gene : Tasks]
  /\ cache \in 0 .. MaxTasks

LEMMA RequestTypesStep ==
  ASSUME IInv, RequestTypes, Next
  PROVE  RequestTypes'
  <1>1. role \in [Tasks -> Roles \cup {"none"}] /\ MaxTasks \in Nat
    BY EvolutionAssumption DEF IInv, EpochTypes
  <1>2. CASE UNCHANGED <<requestVars, cache>>
    BY <1>2 DEF RequestTypes, requestVars
  <1>3. ASSUME NEW t \in Tasks, NEW p \in Promoters, Find(p, t)
        PROVE  RequestTypes'
    <2>1. [p |-> p, gene |-> t, seen |-> {}, locked |-> {}, pc |-> "begin"] \in Promotion
      BY DEF Promotion
    <2>2. QED
      BY <1>3, <2>1 DEF Find, RequestTypes
  <1>4. ASSUME NEW x \in promotions, PromotionStep(x) \/ RollBack(x)
        PROVE  RequestTypes'
    <2>1. x \in Promotion /\ Champions \subseteq Tasks
      BY DEF RequestTypes, Champions
    <2>2. /\ [x EXCEPT !.pc = "retire", !.seen = Champions] \in Promotion
          /\ [x EXCEPT !.pc = "promote", !.seen = {}, !.locked = x.seen \cap Champions] \in Promotion
          /\ [x EXCEPT !.pc = "invalidate", !.locked = {}] \in Promotion
      BY <2>1 DEF Promotion
    <2>3. /\ promotions' \subseteq Promotion
          /\ lookups' = lookups /\ cache' \in {0, cache}
      BY <1>4, <2>2 DEF PromotionStep, Snapshot, Retire, Promote, Invalidate, RollBack,
                        ProceedsTo, RequestTypes
    <2>4. QED
      BY <1>1, <2>3 DEF RequestTypes
  <1>5. ASSUME NEW r \in Readers, Miss(r)
        PROVE  RequestTypes'
    <2>1. Newest \in Tasks
      BY <1>1, <1>5, NewestTask DEF Miss
    <2>2. QED
      BY <1>5, <2>1 DEF Miss, RequestTypes
  <1>6. ASSUME NEW x \in lookups, Fill(x)
        PROVE  RequestTypes'
    <2>1. x.gene \in 0 .. MaxTasks
      BY <1>1 DEF RequestTypes, Tasks
    <2>2. QED
      BY <1>6, <2>1 DEF Fill, RequestTypes
  <1>7. CASE Expire
    BY <1>1, <1>7 DEF Expire, RequestTypes, requestVars
  <1>8. CASE Crash
    BY <1>8 DEF Crash, RequestTypes
  <1>9. /\ \A t \in Tasks : CreateTask(t) => UNCHANGED <<requestVars, cache>>
        /\ \A e \in epochs : EpochStep(e) => UNCHANGED <<requestVars, cache>>
        /\ CancelActiveTask \/ LoadChampionParams => UNCHANGED <<requestVars, cache>>
    BY DEF CreateTask, EpochStep, Search, Record, Finish, CancelActiveTask, LoadChampionParams
  <1>10. QED
    BY <1>2, <1>3, <1>4, <1>5, <1>6, <1>7, <1>8, <1>9 DEF Next

TaskTypes ==
  /\ active \in 0 .. MaxTasks
  /\ cancelled \subseteq Tasks
  /\ used \in 0 .. MaxTasks

LEMMA TaskTypesStep ==
  ASSUME IInv, RequestTypes, TaskTypes, Next
  PROVE  TaskTypes'
  <1>1. /\ role \in [Tasks -> Roles \cup {"none"}] /\ cache \in 0 .. MaxTasks
        /\ MaxTasks \in Nat
        /\ \A e \in epochs : e.task \in Tasks
    BY EvolutionAssumption DEF IInv, EpochTypes, RequestTypes, Epoch
  <1>2. CASE UNCHANGED <<active, cancelled, used>>
    BY <1>2 DEF TaskTypes
  <1>3. ASSUME NEW t \in Tasks, CreateTask(t)
        PROVE  TaskTypes'
    BY <1>1, <1>3 DEF CreateTask, TaskTypes, Tasks
  <1>4. CASE CancelActiveTask
    BY <1>1, <1>4 DEF CancelActiveTask, TaskTypes
  <1>5. ASSUME NEW e \in epochs, EpochStep(e)
        PROVE  TaskTypes'
    BY <1>5 DEF EpochStep, Search, Record, Finish, TaskTypes
  <1>6. CASE LoadChampionParams
    <2>1. used' \in {cache, Newest, used} /\ UNCHANGED <<active, cancelled>>
      BY <1>6 DEF LoadChampionParams, taskVars
    <2>2. QED
      BY <1>1, <2>1, NewestTask DEF TaskTypes
  <1>7. CASE Crash
    BY <1>1, <1>7 DEF Crash, TaskTypes
  <1>8. ASSUME NEW x \in promotions, PromotionStep(x) \/ RollBack(x)
        PROVE  UNCHANGED <<active, cancelled, used>>
    BY <1>8 DEF PromotionStep, Snapshot, Retire, Promote, Invalidate, RollBack, taskVars
  <1>9. /\ \A t \in Tasks, p \in Promoters : Find(p, t) => UNCHANGED <<active, cancelled, used>>
        /\ \A r \in Readers : Miss(r) => UNCHANGED <<active, cancelled, used>>
        /\ \A x \in lookups : Fill(x) => UNCHANGED <<active, cancelled, used>>
        /\ Expire => UNCHANGED <<active, cancelled, used>>
    BY DEF Find, Miss, Fill, Expire, taskVars
  <1>10. QED
    BY <1>2, <1>3, <1>4, <1>5, <1>6, <1>7, <1>8, <1>9 DEF Next

\* The tasks, the epochs, the transactions of the promotions and the cache keep
\* their types under every fault (service.go, handler_evolution.go).
THEOREM EvolutionTypeCorrect == Spec => []TypeOK
  <1>1. Init => RequestTypes /\ TaskTypes
    BY EvolutionAssumption DEF Init, RequestTypes, TaskTypes
  <1>2. IInv /\ RequestTypes /\ TaskTypes /\ [Next]_vars => RequestTypes' /\ TaskTypes'
    <2>1. UNCHANGED vars => UNCHANGED <<active, cancelled, used, promotions, lookups, cache>>
      BY DEF vars, taskVars, requestVars
    <2>2. RequestTypes /\ TaskTypes /\ UNCHANGED vars => RequestTypes' /\ TaskTypes'
      BY <2>1 DEF RequestTypes, TaskTypes
    <2>3. QED
      BY <2>2, RequestTypesStep, TaskTypesStep
  <1>3. IInv /\ RequestTypes /\ TaskTypes => TypeOK
    BY DEF IInv, EpochTypes, RequestTypes, TaskTypes, TypeOK
  <1>4. QED
    BY <1>1, <1>2, <1>3, Inductive, PTL DEF Spec

-----------------------------------------------------------------------------
(* The roles, however promotions overlap: what a transaction has locked is a    *)
(* champion and stays one until the transaction ends, for no other holds it.   *)

\* The gene of a task is not written before its epoch has ended its search.
Unwritten ==
  /\ \A e \in epochs : /\ taskStatus[e.task] # "none"
                       /\ e.pc = "search" => role[e.task] = "none"
  /\ \A t \in Tasks : taskStatus[t] = "none" => role[t] = "none"

\* The rows a transaction holds, and the gene it is about.
SoundPromotion(x) ==
  /\ role[x.gene] # "none"
  /\ x.locked \subseteq Champions
  /\ x.pc # "promote" => x.locked = {}

RoleInv ==
  /\ Unwritten
  /\ \A x \in promotions : SoundPromotion(x)
  /\ \A x, y \in promotions : x # y => x.locked \cap y.locked = {}

Lifecycle ==
  Moves({<<"none", "challenger">>, <<"challenger", "champion">>, <<"champion", "retired">>,
         <<"retired", "champion">>})

\* A step of the epochs: at most one gene is written, which was not before.
LEMMA EpochRoles ==
  ASSUME IInv, RequestTypes, RoleInv, UNCHANGED promotions, Unwritten',
         role' = role \/ \E t \in Tasks : /\ role[t] = "none"
                                          /\ role' = [role EXCEPT ![t] = "challenger"]
  PROVE  RoleInv' /\ Lifecycle
  <1>1. role \in [Tasks -> Roles \cup {"none"}] /\ \A x \in promotions : x.gene \in Tasks
    BY DEF IInv, EpochTypes, RequestTypes, Promotion
  <1>2. CASE role' = role
    <2>1. Champions' = Champions
      BY <1>2 DEF Champions
    <2>2. QED
      BY <1>2, <2>1 DEF RoleInv, SoundPromotion, Lifecycle, Moves
  <1>3. ASSUME NEW t \in Tasks, role[t] = "none", role' = [role EXCEPT ![t] = "challenger"]
        PROVE  RoleInv' /\ Lifecycle
    <2>1. Champions' = Champions
      BY <1>1, <1>3 DEF Champions
    <2>2. \A u \in Tasks : role[u] # "none" => role'[u] # "none"
      BY <1>1, <1>3
    <2>3. \A x \in promotions : SoundPromotion(x)'
      BY <1>1, <2>1, <2>2 DEF RoleInv, SoundPromotion
    <2>4. Lifecycle
      BY <1>1, <1>3 DEF Lifecycle, Moves
    <2>5. QED
      BY <2>1, <2>3, <2>4 DEF RoleInv
  <1>4. QED
    BY <1>2, <1>3

LEMMA TaskRoles ==
  ASSUME IInv, RequestTypes, RoleInv, NEW t \in Tasks, CreateTask(t)
  PROVE  RoleInv' /\ Lifecycle
  <1>1. /\ taskStatus \in [Tasks -> Running \cup {"none"}] /\ role[t] = "none"
        /\ \A e \in epochs : e.task \in Tasks
    BY DEF IInv, EpochTypes, RoleInv, Unwritten, CreateTask, Epoch
  <1>2. /\ role' = role /\ promotions' = promotions
        /\ taskStatus' = [taskStatus EXCEPT ![t] = "running"]
        /\ epochs' = epochs \cup {[task |-> t, pc |-> "search", result |-> "running"]}
    BY DEF CreateTask, requestVars
  <1>3. Unwritten'
    BY <1>1, <1>2 DEF RoleInv, Unwritten
  <1>4. QED
    BY <1>2, <1>3, EpochRoles

LEMMA SearchRoles ==
  ASSUME IInv, RequestTypes, RoleInv, NEW e \in epochs, EpochStep(e)
  PROVE  RoleInv' /\ Lifecycle
  <1>1. /\ taskStatus \in [Tasks -> Running \cup {"none"}]
        /\ role \in [Tasks -> Roles \cup {"none"}]
        /\ e \in Epoch /\ e.task \in Tasks /\ e.result \in Running /\ epochs = {e}
        /\ taskStatus[e.task] # "none"
    BY DEF IInv, EpochTypes, EpochIsActive, RoleInv, Unwritten, Epoch
  <1>2. promotions' = promotions
    BY DEF EpochStep, Search, Record, Finish, requestVars
  <1>3. CASE Search(e)
    <2>1. /\ role[e.task] = "none" /\ taskStatus' = taskStatus
          /\ role' \in {role, [role EXCEPT ![e.task] = "challenger"]}
      BY <1>3 DEF Search, RoleInv, Unwritten
    <2>2. \A f \in epochs' : f.task = e.task /\ f.pc = "record"
      <3>1. \A result : [e EXCEPT !.pc = "record", !.result = result].task = e.task
                        /\ [e EXCEPT !.pc = "record", !.result = result].pc = "record"
        BY <1>1 DEF Epoch
      <3>2. \E result : epochs' = {[e EXCEPT !.pc = "record", !.result = result]}
        <4>1. Goes(e, "record", "done") \/ Goes(e, "record", "failed")
          BY <1>3 DEF Search
        <4>2. epochs \ {e} = {}
          BY <1>1
        <4>3. QED
          BY <4>1, <4>2 DEF Goes
      <3>3. QED
        BY <3>1, <3>2
    <2>3. Unwritten'
      BY <1>1, <2>1, <2>2 DEF RoleInv, Unwritten
    <2>4. QED
      BY <1>1, <1>2, <2>1, <2>3, EpochRoles
  <1>4. CASE Record(e) \/ Finish(e)
    <2>1. /\ role' = role
          /\ taskStatus' \in {taskStatus, [taskStatus EXCEPT ![e.task] = e.result]}
      BY <1>4 DEF Record, Finish
    <2>2. \A f \in epochs' : f.task = e.task /\ f.pc = "finish"
      <3>1. /\ [e EXCEPT !.pc = "finish", !.result = e.result].task = e.task
            /\ [e EXCEPT !.pc = "finish", !.result = e.result].pc = "finish"
        BY <1>1 DEF Epoch
      <3>2. QED
        BY <1>1, <1>4, <3>1 DEF Record, Finish, Goes
    <2>3. Unwritten'
      BY <1>1, <2>1, <2>2 DEF RoleInv, Unwritten, Running
    <2>4. QED
      BY <1>2, <2>1, <2>3, EpochRoles
  <1>5. QED
    BY <1>3, <1>4 DEF EpochStep

\* A transaction that goes on, with the roles as they were.
LEMMA PromotionGoesOn ==
  ASSUME IInv, RequestTypes, RoleInv, NEW x \in promotions, NEW y, ProceedsTo(x, y),
         UNCHANGED <<role, taskStatus, epochs>>, SoundPromotion(y),
         y.locked \cap LockedByOthers(x) = {}
  PROVE  RoleInv' /\ Lifecycle
  <1>1. Champions' = Champions /\ promotions' = (promotions \ {x}) \cup {y}
    BY DEF Champions, ProceedsTo
  <1>2. \A z \in promotions' : SoundPromotion(z)'
    BY <1>1 DEF RoleInv, SoundPromotion
  <1>3. \A z \in promotions \ {x} : z.locked \cap y.locked = {}
    BY DEF LockedByOthers
  <1>4. \A u, v \in promotions' : u # v => u.locked \cap v.locked = {}
    BY <1>1, <1>3 DEF RoleInv
  <1>5. QED
    BY <1>2, <1>4 DEF RoleInv, Unwritten, Lifecycle, Moves

\* The second UPDATE: the rows held are retired, and the gene is a champion, from
\* whatever it was.  What the others hold stays.
LEMMA PromoteRoles ==
  ASSUME IInv, RequestTypes, RoleInv, NEW x \in promotions, Promote(x)
  PROVE  RoleInv' /\ Lifecycle
  <1>1. /\ role \in [Tasks -> Roles \cup {"none"}]
        /\ x \in Promotion /\ x.gene \in Tasks /\ SoundPromotion(x)
        /\ \A z \in promotions : z.gene \in Tasks
        /\ \A e \in epochs : e.task \in Tasks
    BY DEF IInv, EpochTypes, Epoch, RequestTypes, Promotion, RoleInv
  <1>2. PICK y : y = [x EXCEPT !.pc = "invalidate", !.locked = {}]
    OBVIOUS
  <1>3. y.pc = "invalidate" /\ y.locked = {} /\ y.gene = x.gene
    BY <1>1, <1>2 DEF Promotion
  <1>4. /\ promotions' = (promotions \ {x}) \cup {y}
        /\ \A t \in Tasks : role'[t] = IF t = x.gene THEN "champion"
                                       ELSE IF t \in x.locked THEN "retired" ELSE role[t]
        /\ UNCHANGED <<taskStatus, epochs>>
    BY <1>2 DEF Promote, ProceedsTo, taskVars
  <1>5. \A t \in x.locked : t \in Tasks /\ role[t] = "champion"
    BY <1>1 DEF SoundPromotion, Champions
  <1>6. \A t \in Tasks : role[t] = "none" <=> role'[t] = "none"
    BY <1>1, <1>4, <1>5 DEF SoundPromotion
  <1>7. Unwritten'
    BY <1>1, <1>4, <1>6 DEF RoleInv, Unwritten
  <1>8. \A t \in Champions : t \notin x.locked => t \in Champions'
    BY <1>4 DEF Champions
  <1>9. ASSUME NEW z \in promotions'
        PROVE  SoundPromotion(z)'
    <2>1. CASE z = y
      BY <1>1, <1>3, <1>6, <2>1 DEF SoundPromotion
    <2>2. CASE z \in promotions /\ z # x
      <3>1. SoundPromotion(z) /\ z.locked \cap x.locked = {} /\ z.gene \in Tasks
        BY <1>1, <2>2 DEF RoleInv
      <3>2. QED
        BY <1>6, <1>8, <3>1 DEF SoundPromotion
    <2>3. QED
      BY <1>4, <2>1, <2>2
  <1>10. \A u, v \in promotions' : u # v => u.locked \cap v.locked = {}
    BY <1>3, <1>4 DEF RoleInv
  <1>11. Lifecycle
    BY <1>1, <1>4, <1>5 DEF Lifecycle, Moves, Roles, SoundPromotion
  <1>12. QED
    BY <1>7, <1>9, <1>10, <1>11 DEF RoleInv

\* Fewer requests, and the roles as they were.
LEMMA PromotionsEnd ==
  ASSUME RoleInv, role' = role, taskStatus' = taskStatus, epochs' \subseteq epochs,
         promotions' \subseteq promotions
  PROVE  RoleInv' /\ Lifecycle
  <1>1. Champions' = Champions
    BY DEF Champions
  <1>2. QED
    BY <1>1 DEF RoleInv, SoundPromotion, Unwritten, Lifecycle, Moves

LEMMA PromotionRoles ==
  ASSUME IInv, RequestTypes, RoleInv, NEW x \in promotions, PromotionStep(x) \/ RollBack(x)
  PROVE  RoleInv' /\ Lifecycle
  <1>1. x \in Promotion /\ SoundPromotion(x)
    BY DEF RequestTypes, RoleInv
  <1>2. CASE Snapshot(x)
    <2>1. PICK y : y = [x EXCEPT !.pc = "retire", !.seen = Champions]
      OBVIOUS
    <2>2. x.pc = "begin" /\ ProceedsTo(x, y) /\ UNCHANGED <<role, taskStatus, epochs>>
      BY <1>2, <2>1 DEF Snapshot, taskVars
    <2>3. y.pc = "retire" /\ y.gene = x.gene /\ y.locked = x.locked
      BY <1>1, <2>1 DEF Promotion
    <2>4. SoundPromotion(y) /\ y.locked = {}
      BY <1>1, <2>2, <2>3 DEF SoundPromotion
    <2>5. QED
      BY <2>2, <2>4, PromotionGoesOn
  <1>3. CASE Retire(x)
    <2>1. PICK y : y = [x EXCEPT !.pc = "promote", !.seen = {}, !.locked = x.seen \cap Champions]
      OBVIOUS
    <2>2. /\ ProceedsTo(x, y) /\ UNCHANGED <<role, taskStatus, epochs>>
          /\ x.seen \cap LockedByOthers(x) = {}
      BY <1>3, <2>1 DEF Retire, taskVars
    <2>3. y.pc = "promote" /\ y.gene = x.gene /\ y.locked = x.seen \cap Champions
      BY <1>1, <2>1 DEF Promotion
    <2>4. SoundPromotion(y) /\ y.locked \cap LockedByOthers(x) = {}
      BY <1>1, <2>2, <2>3 DEF SoundPromotion
    <2>5. QED
      BY <2>2, <2>4, PromotionGoesOn
  <1>4. CASE Invalidate(x) \/ RollBack(x)
    <2>1. /\ role' = role /\ taskStatus' = taskStatus /\ epochs' = epochs
          /\ promotions' \subseteq promotions
      BY <1>4 DEF Invalidate, RollBack, taskVars
    <2>2. QED
      BY <2>1, PromotionsEnd
  <1>5. QED
    BY <1>2, <1>3, <1>4, PromoteRoles DEF PromotionStep

LEMMA RoleStep ==
  ASSUME IInv, RequestTypes, RoleInv, [Next]_vars
  PROVE  RoleInv' /\ Lifecycle
  <1>1. ASSUME NEW t \in Tasks, NEW p \in Promoters, Find(p, t)
        PROVE  RoleInv' /\ Lifecycle
    <2> DEFINE y == [p |-> p, gene |-> t, seen |-> {}, locked |-> {}, pc |-> "begin"]
    <2>1. /\ role' = role /\ taskStatus' = taskStatus /\ epochs' = epochs
          /\ promotions' = promotions \cup {y} /\ role[t] = "challenger"
      BY <1>1 DEF Find, taskVars
    <2>2. Champions' = Champions /\ SoundPromotion(y)'
      BY <2>1 DEF Champions, SoundPromotion
    <2>3. \A x \in promotions' : SoundPromotion(x)'
      BY <2>1, <2>2 DEF RoleInv, SoundPromotion
    <2>4. \A x, z \in promotions' : x # z => x.locked \cap z.locked = {}
      BY <2>1 DEF RoleInv
    <2>5. Unwritten' /\ Lifecycle
      BY <2>1 DEF RoleInv, Unwritten, Lifecycle, Moves
    <2>6. QED
      BY <2>3, <2>4, <2>5 DEF RoleInv
  <1>2. /\ CancelActiveTask => UNCHANGED <<role, taskStatus, epochs, promotions>>
        /\ \A r \in Readers : Miss(r) => UNCHANGED <<role, taskStatus, epochs, promotions>>
        /\ \A y \in lookups : Fill(y) => UNCHANGED <<role, taskStatus, epochs, promotions>>
        /\ Expire \/ LoadChampionParams \/ UNCHANGED vars
             => UNCHANGED <<role, taskStatus, epochs, promotions>>
    BY DEF CancelActiveTask, Miss, Fill, Expire, LoadChampionParams, vars, taskVars, requestVars
  <1>3. Crash => role' = role /\ taskStatus' = taskStatus /\ epochs' = {} /\ promotions' = {}
    BY DEF Crash
  <1>4. QED
    BY <1>1, <1>2, <1>3, PromotionsEnd, TaskRoles, SearchRoles, PromotionRoles DEF Next

\* Only a champion is retired and no gene is a challenger twice, for any number of
\* requests at once: the rows the first UPDATE writes are champions, and stay so
\* until the transaction ends (handler_evolution.go:131-144).
THEOREM ChampionsRetire == Spec => OnlyChampionsRetire
  <1>1. Init => RequestTypes /\ RoleInv
    BY EvolutionAssumption DEF Init, RequestTypes, RoleInv, Unwritten
  <1>2. IInv /\ RequestTypes /\ RoleInv /\ [Next]_vars => RequestTypes' /\ RoleInv'
    <2>1. RequestTypes /\ UNCHANGED vars => RequestTypes'
      BY DEF RequestTypes, vars, requestVars
    <2>2. QED
      BY <2>1, RequestTypesStep, RoleStep
  <1>3. IInv /\ RequestTypes /\ RoleInv /\ [Next]_vars =>
          [Moves({<<"none", "challenger">>, <<"challenger", "champion">>,
                  <<"champion", "retired">>, <<"retired", "champion">>})]_vars
    BY RoleStep DEF Lifecycle
  <1>4. QED
    BY <1>1, <1>2, <1>3, Inductive, PTL DEF Spec, OnlyChampionsRetire

-----------------------------------------------------------------------------
(* The champions, when promotions overlap.  Each is owned by the request that  *)
(* promoted it last, and what a request owns its next transaction sees, writes *)
(* and retires, whatever the others do between its two UPDATEs.                *)

SeesItsOwn(x, own) ==
  \A t \in Champions : own[t] = x.p =>
    /\ x.pc = "retire" => t \in x.seen
    /\ x.pc = "promote" => t \in x.locked

OwnsOne(own) ==
  /\ own \in [Champions -> Promoters]
  /\ \A t, u \in Champions : own[t] = own[u] => t = u
  /\ \A x \in promotions : SeesItsOwn(x, own)

OwnerInv ==
  /\ \A x, y \in promotions : x.p = y.p => x = y
  /\ \E own : OwnsOne(own)

\* No step but Promote makes a champion.
LEMMA OwnersKept ==
  ASSUME OwnerInv, Champions' \subseteq Champions,
         \A x, y \in promotions' : x.p = y.p => x = y,
         \A y \in promotions' : \/ y \in promotions
                                \/ y.pc \in {"begin", "invalidate"}
                                \/ y.pc = "retire" /\ Champions \subseteq y.seen
                                \/ \E x \in promotions : /\ x.p = y.p /\ x.pc = "retire"
                                                         /\ y.pc = "promote"
                                                         /\ x.seen \cap Champions \subseteq y.locked
  PROVE  OwnerInv'
  <1>1. PICK own : OwnsOne(own)
    BY DEF OwnerInv
  <1>2. PICK own2 : own2 = [t \in Champions' |-> own[t]]
    OBVIOUS
  <1>3. own2 \in [Champions' -> Promoters] /\ \A t, u \in Champions' : own2[t] = own2[u] => t = u
    BY <1>1, <1>2 DEF OwnsOne
  <1>4. \A t \in Champions' : own2[t] = own[t] /\ t \in Champions
    BY <1>2
  <1>5. ASSUME NEW y \in promotions', NEW t \in Champions', own2[t] = y.p
        PROVE  (y.pc = "retire" => t \in y.seen) /\ (y.pc = "promote" => t \in y.locked)
    <2>1. t \in Champions /\ own[t] = y.p
      BY <1>4, <1>5
    <2>2. ASSUME NEW x \in promotions, x.p = y.p
          PROVE  (x.pc = "retire" => t \in x.seen) /\ (x.pc = "promote" => t \in x.locked)
      BY <1>1, <2>1, <2>2 DEF OwnsOne, SeesItsOwn
    <2>3. QED
      BY <2>1, <2>2
  <1>6. OwnsOne(own2)'
    BY <1>3, <1>5 DEF OwnsOne, SeesItsOwn
  <1>7. QED
    BY <1>6 DEF OwnerInv

\* The transaction retires what its request owns, and leaves it its gene only.
LEMMA OwnersChange ==
  ASSUME RequestTypes, OwnerInv, NEW x \in promotions, Promote(x)
  PROVE  OwnerInv'
  <1>1. PICK own : OwnsOne(own)
    BY DEF OwnerInv
  <1>2. PICK y : y = [x EXCEPT !.pc = "invalidate", !.locked = {}]
    OBVIOUS
  <1>3. /\ x \in Promotion /\ x.p \in Promoters /\ x.gene \in Tasks /\ x.pc = "promote"
        /\ promotions' = (promotions \ {x}) \cup {y}
        /\ \A t \in Tasks : role'[t] = IF t = x.gene THEN "champion"
                                       ELSE IF t \in x.locked THEN "retired" ELSE role[t]
    BY <1>2 DEF RequestTypes, Promotion, Promote, ProceedsTo
  <1>4. y.p = x.p /\ y.pc = "invalidate"
    BY <1>2, <1>3 DEF Promotion
  <1>5. \A t \in Champions' : t # x.gene => t \in Champions /\ t \notin x.locked
    BY <1>3 DEF Champions
  <1>6. PICK own2 : own2 = [t \in Champions' |-> IF t = x.gene THEN x.p ELSE own[t]]
    OBVIOUS
  <1>7. own2 \in [Champions' -> Promoters]
    BY <1>1, <1>3, <1>5, <1>6 DEF OwnsOne
  <1>8. \A t \in Champions' : own2[t] = x.p => t = x.gene
    BY <1>1, <1>3, <1>5, <1>6 DEF OwnsOne, SeesItsOwn
  <1>9. \A t \in Champions' : t # x.gene => own2[t] = own[t] /\ t \in Champions
    BY <1>5, <1>6
  <1>10. \A t \in Champions' : t = x.gene => own2[t] = x.p
    BY <1>6
  <1>11. \A t, u \in Champions' : own2[t] = own2[u] => t = u
    BY <1>1, <1>8, <1>9, <1>10 DEF OwnsOne
  <1>12. ASSUME NEW z \in promotions', NEW t \in Champions', own2[t] = z.p
         PROVE  (z.pc = "retire" => t \in z.seen) /\ (z.pc = "promote" => t \in z.locked)
    <2>1. CASE z = y
      BY <1>4, <2>1
    <2>2. CASE z \in promotions /\ z # x
      <3>1. z.p # x.p
        BY <2>2 DEF OwnerInv
      <3>2. t \in Champions /\ own[t] = z.p
        BY <1>9, <1>10, <1>12, <3>1
      <3>3. QED
        BY <1>1, <2>2, <3>2 DEF OwnsOne, SeesItsOwn
    <2>3. QED
      BY <1>3, <2>1, <2>2
  <1>13. OwnsOne(own2)'
    BY <1>7, <1>11, <1>12 DEF OwnsOne, SeesItsOwn
  <1>14. \A u, v \in promotions' : u.p = v.p => u = v
    BY <1>3, <1>4 DEF OwnerInv
  <1>15. QED
    BY <1>13, <1>14 DEF OwnerInv

LEMMA OwnersStep ==
  ASSUME IInv, RequestTypes, OwnerInv, [Next]_vars
  PROVE  OwnerInv'
  <1>1. ASSUME promotions' \subseteq promotions, Champions' \subseteq Champions
        PROVE  OwnerInv'
    BY <1>1, OwnersKept DEF OwnerInv
  <1>2. ASSUME NEW x \in promotions, NEW y, ProceedsTo(x, y), y.p = x.p, role' = role,
               \/ y.pc = "retire" /\ Champions \subseteq y.seen
               \/ x.pc = "retire" /\ y.pc = "promote" /\ x.seen \cap Champions \subseteq y.locked
        PROVE  OwnerInv'
    <2>1. /\ Champions' \subseteq Champions
          /\ promotions' = (promotions \ {x}) \cup {y}
          /\ \A u, v \in promotions' : u.p = v.p => u = v
      BY <1>2 DEF ProceedsTo, OwnerInv, Champions
    <2>2. QED
      BY <1>2, <2>1, OwnersKept
  <1>3. ASSUME NEW t \in Tasks, NEW p \in Promoters, Find(p, t)
        PROVE  OwnerInv'
    <2> DEFINE y == [p |-> p, gene |-> t, seen |-> {}, locked |-> {}, pc |-> "begin"]
    <2>1. /\ promotions' = promotions \cup {y} /\ Champions' \subseteq Champions
          /\ \A x \in promotions : x.p # y.p
      BY <1>3 DEF Find, Champions
    <2>2. y.pc = "begin" /\ \A u, v \in promotions' : u.p = v.p => u = v
      BY <2>1 DEF OwnerInv
    <2>3. QED
      BY <2>1, <2>2, OwnersKept
  <1>4. ASSUME NEW x \in promotions, Snapshot(x) \/ Retire(x)
        PROVE  OwnerInv'
    <2>1. x \in Promotion
      BY DEF RequestTypes
    <2>2. CASE Snapshot(x)
      <3>1. PICK y : y = [x EXCEPT !.pc = "retire", !.seen = Champions]
        OBVIOUS
      <3>2. y.p = x.p /\ y.pc = "retire" /\ y.seen = Champions
        BY <2>1, <3>1 DEF Promotion
      <3>3. QED
        BY <1>2, <2>2, <3>1, <3>2 DEF Snapshot
    <2>3. CASE Retire(x)
      <3>1. PICK y : y = [x EXCEPT !.pc = "promote", !.seen = {}, !.locked = x.seen \cap Champions]
        OBVIOUS
      <3>2. y.p = x.p /\ y.pc = "promote" /\ y.locked = x.seen \cap Champions
        BY <2>1, <3>1 DEF Promotion
      <3>3. QED
        BY <1>2, <2>3, <3>1, <3>2 DEF Retire
    <2>4. QED
      BY <1>4, <2>2, <2>3
  <1>5. ASSUME NEW x \in promotions, Invalidate(x) \/ RollBack(x)
        PROVE  promotions' \subseteq promotions /\ Champions' \subseteq Champions
    BY <1>5 DEF Invalidate, RollBack, Champions
  <1>6. ASSUME NEW e \in epochs, EpochStep(e)
        PROVE  promotions' \subseteq promotions /\ Champions' \subseteq Champions
    <2>1. role \in [Tasks -> Roles \cup {"none"}]
      BY DEF IInv, EpochTypes
    <2>2. role' \in {role, [role EXCEPT ![e.task] = "challenger"]} /\ promotions' = promotions
      BY <1>6 DEF EpochStep, Search, Record, Finish, requestVars
    <2>3. QED
      BY <2>1, <2>2 DEF Champions
  <1>7. ASSUME \/ \E t \in Tasks : CreateTask(t)
               \/ CancelActiveTask \/ Expire \/ LoadChampionParams \/ Crash \/ UNCHANGED vars
               \/ \E r \in Readers : Miss(r)
               \/ \E y \in lookups : Fill(y)
        PROVE  promotions' \subseteq promotions /\ Champions' \subseteq Champions
    BY <1>7 DEF CreateTask, CancelActiveTask, Miss, Fill, Expire, LoadChampionParams, Crash, vars,
         requestVars, Champions
  <1>8. QED
    BY <1>1, <1>3, <1>4, <1>5, <1>6, <1>7, OwnersChange DEF Next, PromotionStep

\* However many promotions overlap, and wherever they roll back or die, there are
\* at most as many champions as there may be requests in flight: the champion a
\* request leaves is retired by its next one (handler_evolution.go:131-144).
THEOREM ChampionsBounded ==
  ASSUME IsFiniteSet(Promoters)
  PROVE  Spec => []ChampionPerPromoter
  <1>1. Init => RequestTypes /\ OwnerInv
    <2> SUFFICES ASSUME Init PROVE RequestTypes /\ OwnerInv
      OBVIOUS
    <2>1. RequestTypes
      BY EvolutionAssumption DEF Init, RequestTypes
    <2>2. promotions = {} /\ Champions = {}
      BY DEF Init, Champions
    <2>3. OwnsOne([t \in {} |-> t])
      BY <2>2 DEF OwnsOne
    <2>4. QED
      BY <2>1, <2>2, <2>3 DEF OwnerInv
  <1>2. IInv /\ RequestTypes /\ OwnerInv /\ [Next]_vars => RequestTypes' /\ OwnerInv'
    <2>1. RequestTypes /\ UNCHANGED vars => RequestTypes'
      BY DEF RequestTypes, vars, requestVars
    <2>2. QED
      BY <2>1, RequestTypesStep, OwnersStep
  <1>3. OwnerInv => ChampionPerPromoter
    <2> SUFFICES ASSUME OwnerInv PROVE ChampionPerPromoter
      OBVIOUS
    <2>1. PICK own : OwnsOne(own)
      BY DEF OwnerInv
    <2>2. own \in Injection(Champions, Promoters)
      BY <2>1 DEF OwnsOne, Injection, IsInjective
    <2>3. Cardinality(Champions) <= Cardinality(Promoters)
      BY <2>2, FS_Injection
    <2>4. QED
      BY <2>3 DEF ChampionPerPromoter
  <1>4. QED
    BY <1>1, <1>2, <1>3, Inductive, PTL DEF Spec
=============================================================================
