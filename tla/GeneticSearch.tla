---------------------------- MODULE GeneticSearch ----------------------------
(***************************************************************************)
(* One epoch of the genetic search: RunEpoch and evaluatePopulation        *)
(* (internal/saas/ga/engine.go) with the Evaluate of the strategy they     *)
(* drive (sigmoid_dca_evolvable.go).                                       *)
(*                                                                         *)
(* The epoch's goroutine builds a population, hands its genes as jobs to a *)
(* pool of workers that share a cache of scores by fingerprint, waits for  *)
(* them, sorts, watches for convergence and breeds the next population;    *)
(* the context may be cancelled between any two steps.  Module Evolution   *)
(* has all of this as one step; it is refined here.                        *)
(*                                                                         *)
(* A gene is a value with a score for each crucible window, as module      *)
(* Backtest computes them; scores are integers.  The mutation's            *)
(* probability and scale are counted in ramp steps.                        *)
(***************************************************************************)
EXTENDS Integers, Sequences, FiniteSetsExt, SequencesExt

CONSTANTS
  Genes, Seed,    (* the chromosomes, and DefaultSeedChromosome            *)
  Slices,         (* the score of each gene in each window                 *)
  Weights,        (* the weights of the windows, short to long             *)
  Fingerprint,    (* of each gene                                          *)
  Stored,         (* the champions and challengers the database may hold,  *)
                  (* as sequences, best score first                        *)
  PopSize, MaxGenerations, EliteCount, Patience, MinDelta,
  ProbSteps, ScaleSteps,  (* ramp steps to the maximal mutation            *)
  Workers,
  Faults          (* the faults that may strike: see FaultNames            *)

\* plan: the query of the klines fails, or there are too few; insert: the
\* statement that writes the challenger fails.
FaultNames == {"plan", "insert"}

FatalScore == -99999

Windows == DOMAIN Weights

ASSUME SearchAssumption ==
  /\ Weights \in Seq(Int)
  /\ Seed \in Genes /\ Slices \in [Genes -> [Windows -> Int]]
  /\ \A s \in Stored : s \in Seq(Genes)
  /\ {PopSize, MaxGenerations, EliteCount, Patience, MinDelta} \subseteq Nat \ {0}
  /\ {ProbSteps, ScaleSteps} \subseteq Nat
  /\ Workers # {} /\ Faults \subseteq FaultNames

\* Genes of one fingerprint have the same scores.  The fingerprint rounds a gene to
\* 1e-6 and the backtest does not (sigmoid_dca_evolvable.go:101), so the code does
\* not ensure this: what rests on it says so.
TwinsAlike == \A g, h \in Genes : Fingerprint[g] = Fingerprint[h] => Slices[g] = Slices[h]

VARIABLES
  pc,         (* where the epoch's goroutine is                            *)
  cancelled,  (* its context is done                                       *)
  pop,        (* the population under evaluation                           *)
  jobs,       (* the next job in the channel                               *)
  worker,     (* what each worker does                                     *)
  fpCache,    (* the score under each fingerprint, {} for none             *)
  scores,     (* the scores of pop                                         *)
  inds,       (* the population evaluated last, best first                 *)
  gen, bestEver, patience, prob, scale,  (* the state of the loop          *)
  details,    (* the windows in the results of the last Evaluate           *)
  written,    (* the challenger in the database, {} for none               *)
  bests,      (* history: the best score reported by each generation       *)
  top         (* history: the best true score of any gene evaluated        *)

poolVars   == <<pop, jobs, worker, fpCache, scores>>
loopVars   == <<gen, bestEver, patience, prob, scale, bests>>
resultVars == <<details, written>>
vars       == <<pc, cancelled, poolVars, inds, loopVars, resultVars, top>>

Pc     == {"plan", "populate", "evaluate", "check", "breed", "detail", "insert", "commit",
           "done", "failed"}
Slots  == 1 .. PopSize
Worker == [job : 0 .. PopSize, phase : {"idle", "look", "run"}, late : BOOLEAN]
Idle   == [job |-> 0, phase |-> "idle", late |-> FALSE]

TypeOK ==
  /\ pc \in Pc /\ cancelled \in BOOLEAN
  /\ pop \in {<<>>} \cup [Slots -> Genes]
  /\ jobs \in 1 .. PopSize + 1
  /\ worker \in [Workers -> Worker]
  /\ \A f \in DOMAIN fpCache : fpCache[f] \subseteq Int
  /\ scores \in [Slots -> Int]
  /\ inds \in {<<>>} \cup [Slots -> [gene : Genes, fitness : Int]]
  /\ gen \in 0 .. MaxGenerations /\ patience \in 0 .. MaxGenerations
  /\ bestEver \in Int /\ prob \in 0 .. ProbSteps /\ scale \in 0 .. ScaleSteps
  /\ details \in 0 .. Len(Weights)
  /\ written \subseteq [gene : Genes, score : Int, windows : 0 .. Len(Weights)]

EmptyCache == [f \in {Fingerprint[g] : g \in Genes} |-> {}]

Init ==
  /\ pc = "plan" /\ cancelled = FALSE
  /\ pop = <<>> /\ jobs = 1 /\ worker = [w \in Workers |-> Idle]
  /\ fpCache = EmptyCache /\ scores = [i \in Slots |-> 0] /\ inds = <<>>
  /\ gen = 0 /\ bestEver = 0 /\ patience = 0 /\ prob = 0 /\ scale = 0
  /\ details = 0 /\ written = {} /\ bests = <<>> /\ top = FatalScore

-----------------------------------------------------------------------------
\* scoreTotal: the weighted sum of the windows' scores.
Weighted(slice) == FoldLeft(+, 0, [w \in Windows |-> Weights[w] * slice[w]])

\* Evaluate: the windows one after the other, until a fatal drawdown or until
\* the context is seen done, which is before window cut + 1.

Fatals(g, cut) == {w \in 1 .. cut : Slices[g][w] = FatalScore}

Evaluated(g, cut) ==
  IF Fatals(g, cut) # {} THEN [score |-> FatalScore, windows |-> Min(Fatals(g, cut))]
  ELSE IF cut < Len(Weights) THEN [score |-> FatalScore, windows |-> cut]
  ELSE [score |-> Weighted(Slices[g]), windows |-> cut]

\* What the gene is worth when nothing interrupts the evaluation.
Fitness(g) == Evaluated(g, Len(Weights)).score

\* An evaluation that ends now, and began after the context was done or not.
Outcomes(g, late) ==
  {Evaluated(g, cut) : cut \in IF late THEN {0} ELSE IF cancelled THEN 0 .. Len(Weights)
                               ELSE {Len(Weights)}}

-----------------------------------------------------------------------------
\* evaluatePopulation.

\* A new population: its jobs are in the channel, which is closed, the cache is
\* empty, the scores are zero, and the last individuals are not needed any more.
Evaluates(genes) ==
  /\ pc' = "evaluate"
  /\ pop' = genes /\ jobs' = 1
  /\ fpCache' = EmptyCache /\ scores' = [i \in Slots |-> 0]
  /\ top' = Max((IF pc = "populate" THEN {} ELSE {top}) \cup {Fitness(genes[i]) : i \in DOMAIN genes})
  /\ inds' = <<>>
  /\ UNCHANGED worker

Receive(w) ==
  /\ pc = "evaluate" /\ worker[w].phase = "idle" /\ jobs <= PopSize
  /\ worker' = [worker EXCEPT ![w] = [job |-> jobs, phase |-> "look", late |-> FALSE]]
  /\ jobs' = jobs + 1
  /\ UNCHANGED <<pc, cancelled, pop, fpCache, scores, inds, loopVars, resultVars, top>>

\* A score in the cache is taken, otherwise the evaluation begins.
Look(w) ==
  LET hit == fpCache[Fingerprint[pop[worker[w].job]]]
  IN /\ worker[w].phase = "look"
     /\ \/ /\ hit # {}
           /\ scores' = [scores EXCEPT ![worker[w].job] = CHOOSE s \in hit : TRUE]
           /\ worker' = [worker EXCEPT ![w] = Idle]
        \/ /\ hit = {}
           /\ worker' = [worker EXCEPT ![w].phase = "run", ![w].late = cancelled]
           /\ UNCHANGED scores
     /\ UNCHANGED <<pc, cancelled, pop, jobs, fpCache, inds, loopVars, resultVars, top>>

Return(w) ==
  LET gene == pop[worker[w].job]
  IN /\ worker[w].phase = "run"
     /\ \E result \in Outcomes(gene, worker[w].late) :
          /\ fpCache' = [fpCache EXCEPT ![Fingerprint[gene]] = {result.score}]
          /\ scores' = [scores EXCEPT ![worker[w].job] = result.score]
     /\ worker' = [worker EXCEPT ![w] = Idle]
     /\ UNCHANGED <<pc, cancelled, pop, jobs, inds, loopVars, resultVars, top>>

WorkerStep(w) == Receive(w) \/ Look(w) \/ Return(w)

\* Mutant: the channel is not closed, and the workers wait for more jobs.
NeverDrained == FALSE

Drained == jobs > PopSize /\ \A w \in Workers : worker[w] = Idle

\* The scores in descending order; sort.Slice leaves equals in any order.
Sorted(genes, fs) ==
  {[i \in Slots |-> [gene |-> genes[p[i]], fitness |-> fs[p[i]]]] :
     p \in {p \in Bijection(Slots, Slots) : \A i, j \in Slots : i < j => fs[p[i]] >= fs[p[j]]}}

\* wg.Wait, and what RunEpoch does with the scores.
Collect ==
  /\ pc = "evaluate" /\ Drained
  /\ inds' \in Sorted(pop, scores)
  /\ bestEver' = IF gen = 0 THEN inds'[1].fitness ELSE bestEver
  /\ pc' = "check"
  /\ pop' = <<>> /\ scores' = [i \in Slots |-> 0] /\ fpCache' = EmptyCache
  /\ UNCHANGED <<cancelled, jobs, worker, gen, patience, prob, scale, bests, resultVars, top>>

-----------------------------------------------------------------------------
\* RunEpoch.

BuildPlan ==
  /\ pc = "plan"
  /\ \/ ~cancelled /\ pc' = "populate"
     \/ (cancelled \/ "plan" \in Faults) /\ pc' = "failed"
  /\ UNCHANGED <<cancelled, poolVars, inds, loopVars, resultVars, top>>

\* initPopulation: the best gene stored, a tenth of copies, at least one, and
\* genes mutated or drawn; the seed when nothing is stored or the query fails.
Copies(elites, n) == [i \in 1 .. n |-> elites[((i - 1) % Len(elites)) + 1]]

Copied(elites) ==
  IF elites = <<>> THEN <<Seed>>
  ELSE <<elites[1]>> \o Copies(elites, Min({PopSize - 1, Max({1, ((PopSize - 1) * 10) \div 100})}))

InitPopulation ==
  /\ pc = "populate"
  /\ \E elites \in Stored \cup {<<>>} :
       \E drawn \in [1 .. PopSize - Len(Copied(elites)) -> Genes] :
         Evaluates(Copied(elites) \o drawn)
  /\ UNCHANGED <<cancelled, loopVars, resultVars>>

\* The head of the loop.
Interrupted ==
  /\ pc = "check"
  /\ gen = MaxGenerations \/ cancelled
  /\ pc' = "detail"
  /\ UNCHANGED <<cancelled, poolVars, inds, loopVars, resultVars, top>>

Ramp(stuck) ==
  /\ prob'  = IF stuck THEN Min({prob + 1, ProbSteps}) ELSE prob
  /\ scale' = IF stuck THEN Min({scale + 1, ScaleSteps}) ELSE scale

Capped == prob' = ProbSteps /\ scale' = ScaleSteps

\* Mutant: an improvement does not start the count again.
ConvergeNoReset ==
  LET better == inds[1].fitness - bestEver >= MinDelta
  IN /\ pc = "check" /\ gen < MaxGenerations /\ ~cancelled
     /\ bestEver' = IF better THEN inds[1].fitness ELSE bestEver
     /\ patience' = patience + 1
     /\ Ramp(patience' >= Patience)
     /\ bests' = Append(bests, inds[1].fitness)
     /\ pc' = IF patience' >= Patience /\ Capped THEN "detail" ELSE "breed"
     /\ UNCHANGED <<cancelled, poolVars, inds, gen, resultVars, top>>

\* Convergence: patience, ramps, OnProgress, and the early stop as soon as
\* both ramps are at their maximum.
Converge ==
  LET better == inds[1].fitness - bestEver >= MinDelta
  IN /\ pc = "check" /\ gen < MaxGenerations /\ ~cancelled
     /\ bestEver' = IF better THEN inds[1].fitness ELSE bestEver
     /\ patience' = IF better THEN 0 ELSE patience + 1
     /\ Ramp(patience' >= Patience)
     /\ bests' = Append(bests, inds[1].fitness)
     /\ pc' = IF patience' >= Patience /\ Capped THEN "detail" ELSE "breed"
     /\ UNCHANGED <<cancelled, poolVars, inds, gen, resultVars, top>>

Elites == [i \in 1 .. Min({EliteCount, PopSize}) |-> inds[i].gene]

\* Mutants: no elites, or on top of a whole population.
BreedAll ==
  /\ pc = "breed"
  /\ \E children \in [Slots -> Genes] : Evaluates(children)
  /\ gen' = gen + 1
  /\ UNCHANGED <<cancelled, bestEver, patience, prob, scale, bests, resultVars>>
BreedOnTop ==
  /\ pc = "breed"
  /\ \E children \in [Slots -> Genes] : Evaluates(Elites \o children)
  /\ gen' = gen + 1
  /\ UNCHANGED <<cancelled, bestEver, patience, prob, scale, bests, resultVars>>

\* The elites as they are, and children by tournament, crossover and mutation,
\* which may turn out to be any gene.
Breed ==
  /\ pc = "breed"
  /\ \E children \in [1 .. PopSize - Len(Elites) -> Genes] : Evaluates(Elites \o children)
  /\ gen' = gen + 1
  /\ UNCHANGED <<cancelled, bestEver, patience, prob, scale, bests, resultVars>>

\* The best gene is evaluated once more, for the results of each window.
Detail ==
  /\ pc = "detail"
  /\ \E result \in Outcomes(inds[1].gene, FALSE) : details' = result.windows
  /\ pc' = "insert"
  /\ UNCHANGED <<cancelled, poolVars, inds, loopVars, written, top>>

\* Mutant: the statement does not run under the epoch's context.
InsertUnderNoContext ==
  /\ pc = "insert"
  /\ pc' = "commit"
  /\ UNCHANGED <<cancelled, poolVars, inds, loopVars, resultVars, top>>

\* Create does not begin once the context is done ...
Insert ==
  /\ pc = "insert"
  /\ pc' = IF cancelled THEN "failed" ELSE "commit"
  /\ UNCHANGED <<cancelled, poolVars, inds, loopVars, resultVars, top>>

Row == [gene |-> inds[1].gene, score |-> inds[1].fitness, windows |-> details]

\* Mutant: its error is ignored.
CommitUnchecked ==
  /\ pc = "commit"
  /\ \/ written' = {Row}
     \/ cancelled /\ UNCHANGED written
  /\ pc' = "done"
  /\ UNCHANGED <<cancelled, poolVars, inds, loopVars, details, top>>

\* ... and may fail when it is done meanwhile, before or after the row is written.
Commit ==
  /\ pc = "commit"
  /\ \/ /\ ~cancelled
        /\ written' = {Row}
        /\ pc' = "done"
     \/ /\ cancelled \/ "insert" \in Faults
        /\ written' \in {{}, {Row}}
        /\ pc' = "failed"
  /\ UNCHANGED <<cancelled, poolVars, inds, loopVars, details, top>>

\* CancelActiveTask.
Cancel ==
  /\ ~cancelled /\ pc \notin {"done", "failed"}
  /\ cancelled' = TRUE
  /\ UNCHANGED <<pc, poolVars, inds, loopVars, resultVars, top>>

EpochStep ==
  \/ BuildPlan
  \/ InitPopulation
  \/ Collect
  \/ Interrupted
  \/ Converge
  \/ Breed
  \/ Detail
  \/ Insert
  \/ Commit

Next == EpochStep \/ Cancel \/ \E w \in Workers : WorkerStep(w)

Spec == Init /\ [][Next]_vars

\* Goroutines are not starved, and a backtest ends.
LiveSpec ==
  /\ Spec
  /\ WF_vars(EpochStep)
  /\ \A w \in Workers : WF_vars(WorkerStep(w))

-----------------------------------------------------------------------------
\* The best gene is never lost: while the context is not done, the individual at
\* the head is worth as much as any gene evaluated in this epoch, the best stored
\* one included, whatever the races of the workers for the cache, the ties and
\* the breeding (engine.go:159-181, :334-356).
BestKept == pc \in {"check", "breed", "detail", "insert"} /\ ~cancelled => inds[1].fitness = top

\* The row that is promoted later tells the truth: its score is that of its gene,
\* over all of the windows, although a cancelled evaluation scores a gene fatal,
\* caches that for its twins, and may strike between the scores and the re-evaluation
\* (engine.go:187-216, sigmoid_dca_evolvable.go:118-122).
RecordIsTrue ==
  \A r \in written :
    r.score = Fitness(r.gene) /\ r.windows = Evaluated(r.gene, Len(Weights)).windows
      /\ r.score = top

\* The search gives up early only when it is stuck: the best of the last
\* generations gained less than MinDelta in all, however small steps bestEver
\* swallowed and whenever the ramps were climbed (engine.go:130-154).
EarlyStopIsEarned ==
  [][ pc = "check" /\ bests' # bests /\ pc' = "detail" =>
        LET n == Len(bests')
        IN n >= Patience /\ bests'[n] - bests'[Max({1, n - Patience})] < MinDelta ]_vars

\* Every epoch comes to its end, cancelled or not: no worker is left waiting for
\* a job, nor the pool for a worker (engine.go:328-354).
Terminates == <>(pc \in {"done", "failed"})

\* Each step is a step of the evolution's models, or none: to the rest of the system
\* an epoch writes its challenger once, and only succeeds if it did and was not
\* cancelled before (service.go:155-191).
E == INSTANCE Evolution WITH
       MaxTasks <- 1, Promoters <- {}, Readers <- {},
       Faults     <- {"search", "db"},
       taskStatus <- <<"running">>, active <- 1, inMemory <- "running",
       role       <- <<IF written = {} THEN "none" ELSE "challenger">>,
       epochs     <- {[task |-> 1, pc |-> IF pc \in {"done", "failed"} THEN "record" ELSE "search",
                       result |-> IF pc \in {"done", "failed"} THEN pc ELSE "running"]},
       cancelled  <- IF cancelled THEN {1} ELSE {},
       promotions <- {}, lookups <- {}, cache <- 0, used <- 0

ImplementsSearch == [][E!Next]_(E!vars)
=============================================================================
