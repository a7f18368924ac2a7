------------------------- MODULE GeneticSearchProofs -------------------------
(***************************************************************************)
(* Theorems about GeneticSearch, for any genes, scores, population, number *)
(* of workers, elites and generations: its types, that the best gene is    *)
(* never lost, that the row written tells the truth, that the early stop   *)
(* is earned, that the epoch is the Search step of Evolution, and that it  *)
(* makes finitely many steps.                                              *)
(***************************************************************************)
EXTENDS GeneticSearch, FoldsAndExtrema

-----------------------------------------------------------------------------
(* The inductive invariant. *)

Bred == pc \in {"check", "breed", "detail", "insert", "commit"}

\* Which variables are in use at each place of the epoch's goroutine; a worker is
\* idle or has one of the jobs handed out.
ShapeInv ==
  /\ pc = "evaluate" => pop \in [Slots -> Genes]
  /\ Bred => inds \in [Slots -> [gene : Genes, fitness : Int]]
  /\ \A w \in Workers : worker[w] # Idle =>
       /\ pc = "evaluate" /\ worker[w].phase # "idle"
       /\ worker[w].job \in Slots /\ worker[w].job < jobs
  /\ DOMAIN fpCache = {Fingerprint[g] : g \in Genes}
  /\ top \in Int
  /\ written # {} => pc \in {"done", "failed"}

\* The generations so far: each has reported once, and patience cannot exceed
\* their number.
LoopInv ==
  /\ bests \in Seq(Int)
  /\ pc \in {"plan", "populate"} => gen = 0
  /\ pc \in {"plan", "populate", "evaluate", "check"} => Len(bests) = gen /\ patience <= gen
  /\ pc = "breed" => Len(bests) = gen + 1 /\ patience <= gen + 1 /\ gen < MaxGenerations

\* The bests never fall; bestEver is the best at the last improvement, which is
\* patience generations back, and the head of the first population before that.
StuckInv ==
  TwinsAlike /\ pc \in {"plan", "populate", "evaluate", "check", "breed"} =>
    /\ \A k, m \in 1 .. Len(bests) : k <= m => bests[k] <= bests[m]
    /\ \A k \in 1 .. Len(bests) : bests[k] <= top
    /\ bests # <<>> => bestEver = bests[IF patience < Len(bests) THEN Len(bests) - patience ELSE 1]
    /\ bests = <<>> /\ pc = "check" => bestEver = inds[1].fitness

\* The history top is what the best gene evaluated is worth.
TopInv == pc = "evaluate" => \A i \in Slots : Fitness(pop[i]) <= top

\* While the context is not done every score in the cache, in the scores and at
\* the head is what the gene is worth, and one of the genes is worth top.
ScoreInv ==
  TwinsAlike /\ ~cancelled =>
    /\ \A g \in Genes : fpCache[Fingerprint[g]] \subseteq {Fitness(g)}
    /\ \A w \in Workers : ~worker[w].late
    /\ pc = "evaluate" =>
         /\ \A i \in Slots : i < jobs /\ (\A w \in Workers : worker[w].job # i)
              => scores[i] = Fitness(pop[i])
         /\ \E i \in Slots : Fitness(pop[i]) = top
    /\ Bred => inds[1].fitness = top /\ Fitness(inds[1].gene) = top

\* The row about to be written, and the one written.
TrueRow(gene, score, windows) ==
  score = Fitness(gene) /\ windows = Evaluated(gene, Len(Weights)).windows /\ score = top

RowInv ==
  TwinsAlike =>
    /\ pc = "insert" /\ ~cancelled => details = Evaluated(inds[1].gene, Len(Weights)).windows
    /\ pc = "commit" => TrueRow(inds[1].gene, inds[1].fitness, details)
    /\ RecordIsTrue

SearchInv ==
  TypeOK /\ ShapeInv /\ LoopInv /\ StuckInv /\ TopInv /\ ScoreInv /\ RowInv

-----------------------------------------------------------------------------
(* The scores. *)

LEMMA WeightedIsInt ==
  ASSUME NEW g \in Genes
  PROVE  Weighted(Slices[g]) \in Int
  <1> DEFINE terms == [w \in Windows |-> Weights[w] * Slices[g][w]]
  <1>1. Windows = 1 .. Len(Weights) /\ Len(Weights) \in Nat
        /\ \A w \in Windows : Weights[w] \in Int /\ Slices[g][w] \in Int
    BY SearchAssumption DEF Windows
  <1>2. \A w \in Windows : Weights[w] * Slices[g][w] \in Int
    BY <1>1
  <1>3. terms \in Seq(Int)
    BY <1>1, <1>2
  <1> HIDE DEF terms
  <1>4. SumOfSeq(terms) \in Int
    BY <1>3, SumOfSeqIsInt
  <1>5. QED
    BY <1>4 DEF SumOfSeq, Weighted, terms

LEMMA EvaluatedIsResult ==
  ASSUME NEW g \in Genes, NEW cut \in 0 .. Len(Weights)
  PROVE  Evaluated(g, cut).score \in Int /\ Evaluated(g, cut).windows \in 0 .. Len(Weights)
  <1>1. CASE Fatals(g, cut) # {}
    <2>1. Fatals(g, cut) \in SUBSET Nat
      BY DEF Fatals
    <2>2. \E m \in Fatals(g, cut) : \A n \in Fatals(g, cut) : m <= n
      BY <1>1, <2>1, LeastNatural
    <2>3. Min(Fatals(g, cut)) \in Fatals(g, cut)
      BY <2>2 DEF Min
    <2>4. Len(Weights) \in Nat
      BY SearchAssumption
    <2>5. Min(Fatals(g, cut)) \in 0 .. Len(Weights)
      BY <2>3, <2>4 DEF Fatals
    <2>6. QED
      BY <1>1, <2>5 DEF Evaluated, FatalScore
  <1>2. CASE Fatals(g, cut) = {}
    BY <1>2, WeightedIsInt DEF Evaluated, FatalScore
  <1>3. QED
    BY <1>1, <1>2

LEMMA FitnessIsInt ==
  ASSUME NEW g \in Genes
  PROVE  Fitness(g) \in Int
  BY WeightedIsInt DEF Fitness, Evaluated, FatalScore

\* Genes of one fingerprint are worth the same.
LEMMA TwinsScoreTheSame ==
  ASSUME NEW g \in Genes, NEW h \in Genes, TwinsAlike, Fingerprint[g] = Fingerprint[h]
  PROVE  Fitness(g) = Fitness(h)
  <1>1. Slices[g] = Slices[h]
    BY DEF TwinsAlike
  <1>2. QED
    BY <1>1 DEF Fitness, Evaluated, Fatals

LEMMA OutcomeIsResult ==
  ASSUME NEW g \in Genes, NEW late \in BOOLEAN, NEW result \in Outcomes(g, late)
  PROVE  /\ result.score \in Int /\ result.windows \in 0 .. Len(Weights)
         /\ ~cancelled /\ ~late => result = Evaluated(g, Len(Weights))
  <1>1. Len(Weights) \in Nat
    BY SearchAssumption
  <1>2. PICK cut \in 0 .. Len(Weights) :
          result = Evaluated(g, cut) /\ (~cancelled /\ ~late => cut = Len(Weights))
    BY <1>1 DEF Outcomes
  <1>3. QED
    BY <1>2, EvaluatedIsResult

\* The greatest fitness of a population is that of one of its genes.
LEMMA BestOfGenes ==
  ASSUME NEW genes \in [Slots -> Genes], NEW S \in SUBSET Int, IsFiniteSet(S)
  PROVE  LET T == S \cup {Fitness(genes[i]) : i \in DOMAIN genes}
         IN Max(T) \in T /\ \A n \in T : Max(T) >= n
  <1> DEFINE F == {Fitness(genes[i]) : i \in DOMAIN genes}
             f == [i \in Slots |-> Fitness(genes[i])]
  <1>1. IsFiniteSet(Slots) /\ 1 \in Slots
    <2>1. PopSize \in Nat \ {0}
      BY SearchAssumption
    <2>2. QED
      BY <2>1, FS_Interval DEF Slots
  <1>2. F \in SUBSET Int /\ F # {}
    BY <1>1, FitnessIsInt
  <1>3. f \in Surjection(Slots, F)
    <2>1. f \in [Slots -> F] /\ \A t \in F : \E i \in Slots : f[i] = t
      OBVIOUS
    <2> HIDE DEF f, F
    <2>2. QED
      BY <2>1 DEF Surjection
  <1> HIDE DEF F, f
  <1>4. IsFiniteSet(F)
    BY <1>1, <1>3, FS_Surjection
  <1>5. IsFiniteSet(S \cup F)
    BY <1>4, FS_Union
  <1>6. Max(S \cup F) \in S \cup F /\ \A n \in S \cup F : Max(S \cup F) >= n
    BY <1>2, <1>5, MaxOfIntegers
  <1>7. QED
    BY <1>6 DEF F

-----------------------------------------------------------------------------
(* The populations. *)

\* initPopulation: as many copies as fit, at least the best gene itself.
LEMMA CopiesFit ==
  ASSUME NEW elites \in Stored \cup {<<>>}
  PROVE  Copied(elites) \in Seq(Genes) /\ Len(Copied(elites)) \in 1 .. PopSize
  <1>0. PopSize \in Nat \ {0} /\ Seed \in Genes /\ elites \in Seq(Genes)
    <2>1. elites \in Seq(Genes)
      <3>1. <<>> \in Seq(Genes) /\ \A s \in Stored : s \in Seq(Genes)
        BY SearchAssumption
      <3>2. QED
        BY <3>1
    <2>2. QED
      BY <2>1, SearchAssumption
  <1>1. CASE elites = <<>>
    <2>1. Copied(elites) = <<Seed>>
      BY <1>1 DEF Copied
    <2>2. QED
      BY <1>0, <2>1
  <1>2. CASE elites # <<>>
    <2> DEFINE tenth == ((PopSize - 1) * 10) \div 100
             many  == Max({1, tenth})
             n     == Min({PopSize - 1, many})
               rest  == Copies(elites, n)
    <2>1. many \in Nat
      <3>1. tenth \in Nat
        BY <1>0
      <3>2. QED
        BY <3>1, MaxOfTwo
    <2>2. n \in 0 .. PopSize - 1
      <3>1. PopSize - 1 \in Nat
        BY <1>0
      <3> HIDE DEF many
      <3>2. QED
        BY <2>1, <3>1, MinOfTwo
    <2> HIDE DEF n
    <2>3. rest \in Seq(Genes) /\ Len(rest) = n
      <3>1. Len(elites) \in Nat \ {0}
        BY <1>0, <1>2
      <3>2. \A i \in 1 .. n : (i - 1) % Len(elites) \in 0 .. Len(elites) - 1
        BY <2>2, <3>1
      <3>3. \A i \in 1 .. n : ((i - 1) % Len(elites)) + 1 \in 1 .. Len(elites)
        BY <3>1, <3>2
      <3>4. \A i \in 1 .. n : elites[((i - 1) % Len(elites)) + 1] \in Genes
        BY <1>0, <3>3
      <3>5. rest = [i \in 1 .. n |-> elites[((i - 1) % Len(elites)) + 1]]
        BY DEF Copies
      <3>6. QED
        BY <2>2, <3>4, <3>5
    <2>4. <<elites[1]>> \in Seq(Genes) /\ Len(<<elites[1]>>) = 1
      BY <1>0, <1>2
    <2>5. Copied(elites) = <<elites[1]>> \o rest
      BY <1>2 DEF Copied, n, many
    <2> HIDE DEF rest
    <2>6. Copied(elites) \in Seq(Genes) /\ Len(Copied(elites)) = 1 + n
      BY <2>3, <2>4, <2>5, ConcatProperties
    <2>7. QED
      BY <1>0, <2>2, <2>6
  <1>3. QED
    BY <1>1, <1>2

\* Genes before others fill the slots, and those come first.
LEMMA Filled ==
  ASSUME NEW first \in Seq(Genes), Len(first) \in 1 .. PopSize,
         NEW others \in [1 .. PopSize - Len(first) -> Genes]
  PROVE  first \o others \in [Slots -> Genes] /\ (first \o others)[1] = first[1]
  <1>0. PopSize \in Nat \ {0}
    BY SearchAssumption
  <1>1. PopSize - Len(first) \in Nat
    BY <1>0
  <1>2. others \in Seq(Genes) /\ Len(others) = PopSize - Len(first)
    BY <1>1
  <1>3. /\ first \o others \in Seq(Genes)
        /\ Len(first \o others) = Len(first) + Len(others)
        /\ \A i \in 1 .. Len(first) + Len(others) :
             (first \o others)[i] = IF i <= Len(first) THEN first[i] ELSE others[i - Len(first)]
    BY <1>2, ConcatProperties
  <1>4. Len(first) + Len(others) = PopSize
    BY <1>0, <1>2
  <1>5. (first \o others)[1] = first[1]
    BY <1>0, <1>3, <1>4
  <1>6. first \o others \in [1 .. PopSize -> Genes]
    <2>1. \A s \in Seq(Genes) : s \in [1 .. Len(s) -> Genes]
      OBVIOUS
    <2>2. QED
      BY <1>3, <1>4, <2>1
  <1>7. QED
    BY <1>5, <1>6 DEF Slots

\* The elites are copied as they are, the best one first.
LEMMA ElitesFit ==
  ASSUME inds \in [Slots -> [gene : Genes, fitness : Int]]
  PROVE  Elites \in Seq(Genes) /\ Len(Elites) \in 1 .. PopSize /\ Elites[1] = inds[1].gene
  <1> DEFINE n == Min({EliteCount, PopSize})
  <1>1. n \in 1 .. PopSize
    <2>1. EliteCount \in Nat \ {0} /\ PopSize \in Nat \ {0}
      BY SearchAssumption
    <2>2. QED
      BY <2>1, MinOfTwo
  <1> HIDE DEF n
  <1>2. Elites = [i \in 1 .. n |-> inds[i].gene]
    BY DEF Elites, n
  <1>3. \A i \in 1 .. n : inds[i].gene \in Genes
    <2>1. \A i \in 1 .. n : i \in Slots
      <3>1. PopSize \in Nat
        BY SearchAssumption
      <3>2. QED
        BY <1>1, <3>1 DEF Slots
    <2>2. \A i \in Slots : inds[i] \in [gene : Genes, fitness : Int]
      OBVIOUS
    <2>3. QED
      BY <2>1, <2>2
  <1>4. n \in Nat \ {0}
    <2>1. PopSize \in Nat
      BY SearchAssumption
    <2>2. QED
      BY <1>1, <2>1
  <1>5. Elites \in Seq(Genes) /\ Len(Elites) = n
    BY <1>2, <1>3, <1>4
  <1>6. Elites[1] = inds[1].gene
    BY <1>2, <1>4
  <1>7. QED
    BY <1>1, <1>5, <1>6

-----------------------------------------------------------------------------
(* The first state, and the steps that leave the population alone. *)

LEMMA SearchInit == Init => SearchInv
  <1> SUFFICES ASSUME Init
               PROVE  SearchInv
    OBVIOUS
  <1>0. PopSize \in Nat \ {0} /\ Len(Weights) \in Nat /\ MaxGenerations \in Nat
        /\ ProbSteps \in Nat /\ ScaleSteps \in Nat
    BY SearchAssumption
  <1>1. TypeOK
    <2>1. Idle \in Worker
      BY <1>0 DEF Idle, Worker
    <2>2. worker \in [Workers -> Worker]
      BY <2>1 DEF Init
    <2>3. \A f \in DOMAIN fpCache : fpCache[f] \subseteq Int
      BY DEF Init, EmptyCache
    <2>4. scores \in [Slots -> Int]
      BY DEF Init
    <2>5. bestEver \in Int /\ prob \in 0 .. ProbSteps /\ scale \in 0 .. ScaleSteps
          /\ details \in 0 .. Len(Weights) /\ gen \in 0 .. MaxGenerations
          /\ patience \in 0 .. MaxGenerations /\ jobs \in 1 .. PopSize + 1
      BY <1>0 DEF Init
    <2>6. QED
      BY <2>2, <2>3, <2>4, <2>5 DEF Init, TypeOK, Pc
  <1>2. ShapeInv
    BY DEF Init, ShapeInv, Bred, EmptyCache, FatalScore
  <1>3. LoopInv
    BY DEF Init, LoopInv
  <1>4. StuckInv
    BY DEF Init, StuckInv
  <1>5. TopInv
    BY DEF Init, TopInv
  <1>6. ScoreInv
    <2>1. \A g \in Genes : fpCache[Fingerprint[g]] = {}
      BY DEF Init, EmptyCache
    <2>2. QED
      BY <2>1 DEF Init, ScoreInv, Bred, Idle
  <1>7. RowInv
    BY DEF Init, RowInv, RecordIsTrue
  <1>8. QED
    BY <1>1, <1>2, <1>3, <1>4, <1>5, <1>6, <1>7 DEF SearchInv

LEMMA BuildPlanKeeps == SearchInv /\ BuildPlan => SearchInv'
  <1> SUFFICES ASSUME SearchInv, BuildPlan
               PROVE  SearchInv'
    OBVIOUS
  <1> USE DEF SearchInv, BuildPlan, poolVars, loopVars, resultVars
  <1>1. TypeOK'
    BY DEF TypeOK, Pc
  <1>2. ShapeInv'
    BY DEF ShapeInv, Bred
  <1>3. LoopInv'
    BY DEF LoopInv
  <1>4. StuckInv'
    BY DEF StuckInv
  <1>5. TopInv'
    BY DEF TopInv
  <1>6. ScoreInv'
    BY DEF ScoreInv, Bred
  <1>7. RowInv'
    BY DEF RowInv, RecordIsTrue
  <1>8. QED
    BY <1>1, <1>2, <1>3, <1>4, <1>5, <1>6, <1>7

LEMMA InterruptedKeeps == SearchInv /\ Interrupted => SearchInv'
  <1> SUFFICES ASSUME SearchInv, Interrupted
               PROVE  SearchInv'
    OBVIOUS
  <1> USE DEF SearchInv, Interrupted, poolVars, loopVars, resultVars
  <1>1. TypeOK'
    BY DEF TypeOK, Pc
  <1>2. ShapeInv'
    BY DEF ShapeInv, Bred
  <1>3. LoopInv'
    BY DEF LoopInv
  <1>4. StuckInv'
    BY DEF StuckInv
  <1>5. TopInv'
    BY DEF TopInv
  <1>6. ScoreInv'
    BY DEF ScoreInv, Bred
  <1>7. RowInv'
    BY DEF RowInv, RecordIsTrue
  <1>8. QED
    BY <1>1, <1>2, <1>3, <1>4, <1>5, <1>6, <1>7

LEMMA InsertKeeps == SearchInv /\ Insert => SearchInv'
  <1> SUFFICES ASSUME SearchInv, Insert
               PROVE  SearchInv'
    OBVIOUS
  <1> USE DEF SearchInv, Insert, poolVars, loopVars, resultVars
  <1>1. TypeOK'
    BY DEF TypeOK, Pc
  <1>2. ShapeInv'
    BY DEF ShapeInv, Bred
  <1>3. LoopInv'
    BY DEF LoopInv
  <1>4. StuckInv'
    BY DEF StuckInv
  <1>5. TopInv'
    BY DEF TopInv
  <1>6. ScoreInv'
    BY DEF ScoreInv, Bred
  <1>7. RowInv'
    \* The row goes to the database only while the context is not done, hence
    \* with the scores and the windows of an evaluation that was not cut short.
    BY DEF RowInv, RecordIsTrue, TrueRow, ScoreInv, Bred
  <1>8. QED
    BY <1>1, <1>2, <1>3, <1>4, <1>5, <1>6, <1>7

LEMMA CancelKeeps == SearchInv /\ Cancel => SearchInv'
  <1> SUFFICES ASSUME SearchInv, Cancel
               PROVE  SearchInv'
    OBVIOUS
  <1> USE DEF SearchInv, Cancel, poolVars, loopVars, resultVars
  <1>1. TypeOK'
    BY DEF TypeOK
  <1>2. ShapeInv'
    BY DEF ShapeInv, Bred
  <1>3. LoopInv'
    BY DEF LoopInv
  <1>4. StuckInv'
    BY DEF StuckInv
  <1>5. TopInv'
    BY DEF TopInv
  <1>6. ScoreInv'
    BY DEF ScoreInv
  <1>7. RowInv'
    BY DEF RowInv, RecordIsTrue, TrueRow
  <1>8. QED
    BY <1>1, <1>2, <1>3, <1>4, <1>5, <1>6, <1>7

LEMMA StutterKeeps == SearchInv /\ UNCHANGED vars => SearchInv'
  <1> SUFFICES ASSUME SearchInv, UNCHANGED vars
               PROVE  SearchInv'
    OBVIOUS
  <1> USE DEF SearchInv, vars, poolVars, loopVars, resultVars
  <1>1. TypeOK' /\ LoopInv' /\ StuckInv' /\ TopInv'
    BY DEF TypeOK, LoopInv, StuckInv, TopInv
  <1>2. ShapeInv'
    BY DEF ShapeInv, Bred
  <1>3. ScoreInv'
    BY DEF ScoreInv, Bred
  <1>4. RowInv'
    BY DEF RowInv, RecordIsTrue, TrueRow
  <1>5. QED
    BY <1>1, <1>2, <1>3, <1>4

LEMMA DetailKeeps == SearchInv /\ Detail => SearchInv'
  <1> SUFFICES ASSUME SearchInv, Detail
               PROVE  SearchInv'
    OBVIOUS
  <1> USE DEF SearchInv, poolVars, loopVars, resultVars
  <1>1. pc = "detail" /\ pc' = "insert"
        /\ UNCHANGED <<cancelled, poolVars, inds, loopVars, written, top>>
    BY DEF Detail
  <1>2. PICK result \in Outcomes(inds[1].gene, FALSE) : details' = result.windows
    BY DEF Detail
  <1>3. inds[1].gene \in Genes
    BY <1>1, SearchAssumption DEF ShapeInv, Bred, Slots
  <1>4. details' \in 0 .. Len(Weights)
        /\ (~cancelled => details' = Evaluated(inds[1].gene, Len(Weights)).windows)
    BY <1>2, <1>3, OutcomeIsResult
  <1>5. TypeOK'
    BY <1>1, <1>4 DEF TypeOK, Pc
  <1>6. ShapeInv'
    BY <1>1 DEF ShapeInv, Bred
  <1>7. LoopInv'
    BY <1>1 DEF LoopInv
  <1>8. StuckInv'
    BY <1>1 DEF StuckInv
  <1>9. TopInv'
    BY <1>1 DEF TopInv
  <1>10. ScoreInv'
    BY <1>1 DEF ScoreInv, Bred
  <1>11. RowInv'
    BY <1>1, <1>4 DEF RowInv, RecordIsTrue
  <1>12. QED
    BY <1>5, <1>6, <1>7, <1>8, <1>9, <1>10, <1>11

LEMMA CommitKeeps == SearchInv /\ Commit => SearchInv'
  <1> SUFFICES ASSUME SearchInv, Commit
               PROVE  SearchInv'
    OBVIOUS
  <1> USE DEF SearchInv, poolVars, loopVars, resultVars
  <1>1. /\ pc = "commit" /\ pc' \in {"done", "failed"} /\ written' \in {{}, {Row}}
        /\ UNCHANGED <<cancelled, poolVars, inds, loopVars, details, top>>
    BY DEF Commit
  <1>2. Row \in [gene : Genes, score : Int, windows : 0 .. Len(Weights)]
    <2>1. 1 \in Slots
      BY SearchAssumption DEF Slots
    <2>2. inds[1] \in [gene : Genes, fitness : Int]
      BY <1>1, <2>1 DEF ShapeInv, Bred
    <2>3. details \in 0 .. Len(Weights)
      BY DEF TypeOK
    <2>4. QED
      BY <2>2, <2>3 DEF Row
  <1>3. TwinsAlike => TrueRow(Row.gene, Row.score, Row.windows)
    BY <1>1 DEF RowInv, Row
  <1>4. TypeOK'
    BY <1>1, <1>2 DEF TypeOK, Pc
  <1>5. ShapeInv'
    BY <1>1 DEF ShapeInv, Bred
  <1>6. LoopInv'
    BY <1>1 DEF LoopInv
  <1>7. StuckInv'
    BY <1>1 DEF StuckInv
  <1>8. TopInv'
    BY <1>1 DEF TopInv
  <1>9. ScoreInv'
    BY <1>1 DEF ScoreInv, Bred
  <1>10. RowInv'
    BY <1>1, <1>3 DEF RowInv, RecordIsTrue, TrueRow
  <1>11. QED
    BY <1>4, <1>5, <1>6, <1>7, <1>8, <1>9, <1>10

-----------------------------------------------------------------------------
(* Convergence. *)

\* A ramp goes up by one step, to its end and no further.
LEMMA RampClimbs ==
  ASSUME NEW n \in Nat, NEW x \in 0 .. n
  PROVE  Min({x + 1, n}) \in 0 .. n
  <1>1. x + 1 \in Int /\ n \in Int
    OBVIOUS
  <1>2. QED
    BY <1>1, MinOfTwo

LEMMA RampsTyped ==
  ASSUME NEW stuck \in BOOLEAN, TypeOK, Ramp(stuck)
  PROVE  prob' \in 0 .. ProbSteps /\ scale' \in 0 .. ScaleSteps
  <1>1. ProbSteps \in Nat /\ ScaleSteps \in Nat /\ prob \in 0 .. ProbSteps
        /\ scale \in 0 .. ScaleSteps
    BY SearchAssumption DEF TypeOK
  <1>2. Min({prob + 1, ProbSteps}) \in 0 .. ProbSteps
        /\ Min({scale + 1, ScaleSteps}) \in 0 .. ScaleSteps
    BY <1>1, RampClimbs
  <1>3. QED
    BY <1>1, <1>2 DEF Ramp

\* What a generation reports: the greatest fitness so far, after the others.
LEMMA ConvergeReports ==
  ASSUME SearchInv, Converge
  PROVE  /\ inds[1].fitness \in Int /\ (TwinsAlike => inds[1].fitness = top)
         /\ Len(bests) = gen /\ patience \in 0 .. gen /\ gen \in 0 .. MaxGenerations - 1
         /\ bests' \in Seq(Int) /\ Len(bests') = Len(bests) + 1
         /\ \A k \in 1 .. Len(bests) : bests'[k] = bests[k]
         /\ bests'[Len(bests')] = inds[1].fitness
         /\ \A k \in 1 .. Len(bests) : bests[k] \in Int
  <1>1. pc = "check" /\ gen < MaxGenerations /\ ~cancelled
        /\ bests' = Append(bests, inds[1].fitness)
    BY DEF Converge
  <1>2. 1 \in Slots
    BY SearchAssumption DEF Slots
  <1>3. inds[1].fitness \in Int
    BY <1>1, <1>2 DEF SearchInv, ShapeInv, Bred
  <1>4. TwinsAlike => inds[1].fitness = top
    BY <1>1 DEF SearchInv, ScoreInv, Bred
  <1>5. Len(bests) = gen /\ patience \in 0 .. gen /\ gen \in 0 .. MaxGenerations - 1
    BY <1>1, SearchAssumption DEF SearchInv, LoopInv, TypeOK
  <1>6. bests \in Seq(Int)
    BY DEF SearchInv, LoopInv
  <1>7. QED
    BY <1>1, <1>3, <1>4, <1>5, <1>6, AppendProperties

LEMMA ConvergeKeeps == SearchInv /\ Converge => SearchInv'
  <1> SUFFICES ASSUME SearchInv, Converge
               PROVE  SearchInv'
    OBVIOUS
  <1> DEFINE f == inds[1].fitness
             better == f - bestEver >= MinDelta
             j(n, p) == IF p < n THEN n - p ELSE 1
  <1>1. /\ pc = "check" /\ gen < MaxGenerations /\ ~cancelled
        /\ bestEver' = IF better THEN f ELSE bestEver
        /\ patience' = IF better THEN 0 ELSE patience + 1
        /\ pc' \in {"detail", "breed"}
        /\ UNCHANGED <<cancelled, pop, jobs, worker, fpCache, scores, inds, gen, details,
                       written, top>>
    BY DEF Converge, poolVars, resultVars
  <1>2. /\ f \in Int /\ (TwinsAlike => f = top)
        /\ Len(bests) = gen /\ patience \in 0 .. gen /\ gen \in 0 .. MaxGenerations - 1
        /\ bests' \in Seq(Int) /\ Len(bests') = Len(bests) + 1
        /\ \A k \in 1 .. Len(bests) : bests'[k] = bests[k]
        /\ bests'[Len(bests')] = f
        /\ \A k \in 1 .. Len(bests) : bests[k] \in Int
    BY ConvergeReports
  <1>3. bestEver \in Int /\ MinDelta \in Nat /\ MaxGenerations \in Nat
    BY SearchAssumption DEF SearchInv, TypeOK
  <1>4. patience' \in 0 .. gen + 1 /\ bestEver' \in Int
    BY <1>1, <1>2, <1>3
  <1>5. prob' \in 0 .. ProbSteps /\ scale' \in 0 .. ScaleSteps
    <2>1. Ramp(patience' >= Patience) /\ (patience' >= Patience) \in BOOLEAN
      BY DEF Converge
    <2>2. QED
      BY <2>1, RampsTyped DEF SearchInv
  <1>6. TypeOK'
    <2>1. patience' \in 0 .. MaxGenerations
      BY <1>2, <1>3, <1>4
    <2>2. QED
      BY <1>1, <1>4, <1>5, <2>1 DEF SearchInv, TypeOK, Pc
  <1>7. ShapeInv'
    BY <1>1 DEF SearchInv, ShapeInv, Bred
  <1>8. LoopInv'
    BY <1>1, <1>2, <1>4 DEF LoopInv
  <1>9. StuckInv'
    <2> SUFFICES ASSUME TwinsAlike
                 PROVE  StuckInv'
      BY DEF StuckInv
    <2>1. /\ \A k, m \in 1 .. Len(bests) : k <= m => bests[k] <= bests[m]
          /\ \A k \in 1 .. Len(bests) : bests[k] <= top
          /\ Len(bests) # 0 => bestEver = bests[j(Len(bests), patience)]
          /\ Len(bests) = 0 => bestEver = f
      <3>1. Len(bests) # 0 <=> bests # <<>>
        BY DEF SearchInv, LoopInv
      <3>2. QED
        BY <1>1, <3>1 DEF SearchInv, StuckInv
    <2>2. \A k \in 1 .. Len(bests') : bests'[k] <= top /\ bests'[k] \in Int
      BY <1>2, <2>1
    <2>3. \A k, m \in 1 .. Len(bests') : k <= m => bests'[k] <= bests'[m]
      <3> SUFFICES ASSUME NEW k \in 1 .. Len(bests'), NEW m \in 1 .. Len(bests'), k <= m
                   PROVE  bests'[k] <= bests'[m]
        OBVIOUS
      <3>1. CASE m = Len(bests')
        BY <1>2, <2>2, <3>1
      <3>2. CASE m # Len(bests')
        BY <1>2, <2>1, <3>2
      <3>3. QED
        BY <3>1, <3>2
    <2>4. bestEver' = bests'[j(Len(bests'), patience')]
      <3>1. CASE better
        BY <1>1, <1>2, <3>1
      <3>2. CASE ~better /\ Len(bests) = 0
        BY <1>1, <1>2, <2>1, <3>2
      <3>3. CASE ~better /\ Len(bests) # 0
        <4>1. j(Len(bests'), patience') = j(Len(bests), patience)
          BY <1>1, <1>2, <3>3
        <4>2. j(Len(bests), patience) \in 1 .. Len(bests)
          BY <1>2, <3>3
        <4> HIDE DEF j
        <4>3. QED
          BY <1>1, <1>2, <2>1, <3>3, <4>1, <4>2
      <3>4. QED
        BY <3>1, <3>2, <3>3
    <2>5. bests' # <<>>
      BY <1>2
    <2>6. QED
      BY <1>1, <2>2, <2>3, <2>4, <2>5 DEF StuckInv
  <1>10. TopInv'
    BY <1>1 DEF TopInv
  <1>11. ScoreInv'
    BY <1>1 DEF SearchInv, ScoreInv, Bred
  <1>12. RowInv'
    BY <1>1 DEF SearchInv, RowInv, RecordIsTrue
  <1>13. QED
    BY <1>6, <1>7, <1>8, <1>9, <1>10, <1>11, <1>12 DEF SearchInv

\* bestEver is at most the best of Patience generations ago, for patience was
\* counted from then or before, and the bests never fall.
LEMMA ConvergeIsEarned ==
  ASSUME TwinsAlike, SearchInv, Converge, pc' = "detail"
  PROVE  LET n == Len(bests')
         IN n >= Patience /\ bests'[n] - bests'[Max({1, n - Patience})] < MinDelta
  <1> DEFINE f == inds[1].fitness
             n == Len(bests')
             m == Max({1, n - Patience})
             j == IF patience < Len(bests) THEN Len(bests) - patience ELSE 1
  <1>1. /\ f \in Int /\ Len(bests) = gen /\ patience \in 0 .. gen /\ gen \in Nat
        /\ n = Len(bests) + 1 /\ bests'[n] = f
        /\ \A k \in 1 .. Len(bests) : bests'[k] = bests[k] /\ bests[k] \in Int
    <2>1. /\ f \in Int /\ Len(bests) = gen /\ patience \in 0 .. gen
          /\ gen \in 0 .. MaxGenerations - 1 /\ n = Len(bests) + 1 /\ bests'[n] = f
          /\ \A k \in 1 .. Len(bests) : bests'[k] = bests[k]
          /\ \A k \in 1 .. Len(bests) : bests[k] \in Int
      BY ConvergeReports
    <2>2. MaxGenerations \in Nat
      BY SearchAssumption
    <2> HIDE DEF f, n
    <2>3. QED
      BY <2>1, <2>2
  <1>2. Patience \in Nat \ {0} /\ MinDelta \in Nat \ {0} /\ bestEver \in Int
    BY SearchAssumption DEF SearchInv, TypeOK
  <1>3. patience' >= Patience
        /\ patience' = IF f - bestEver >= MinDelta THEN 0 ELSE patience + 1
    BY DEF Converge
  <1>4. f - bestEver < MinDelta /\ patience + 1 >= Patience
    BY <1>1, <1>2, <1>3
  <1>5. n >= Patience /\ n - Patience \in Int
    BY <1>1, <1>2, <1>4
  <1>6. m = IF 1 >= n - Patience THEN 1 ELSE n - Patience
    <2> HIDE DEF n
    <2>1. QED
      BY <1>5, MaxOfTwo
  <1>7. f - bests'[m] < MinDelta
    <2>1. CASE Len(bests) = 0
      <3>1. m = n
        BY <1>1, <1>2, <1>6, <2>1
      <3> HIDE DEF m, n
      <3>2. QED
        BY <1>1, <1>2, <3>1
    <2>2. CASE Len(bests) # 0
      <3>1. m \in 1 .. Len(bests) /\ j \in 1 .. Len(bests) /\ j <= m
        BY <1>1, <1>2, <1>4, <1>6, <2>2
      <3>2. bests # <<>> /\ pc = "check"
        BY <2>2 DEF Converge
      <3>3. bests[j] <= bests[m] /\ bestEver = bests[j]
        BY <3>1, <3>2 DEF SearchInv, StuckInv
      <3>4. bests'[m] = bests[m] /\ bests[m] \in Int /\ bests[j] \in Int
        BY <1>1, <3>1
      <3> HIDE DEF m, j
      <3>5. QED
        BY <1>1, <1>2, <1>4, <3>3, <3>4
    <2>3. QED
      BY <2>1, <2>2
  <1>8. QED
    BY <1>1, <1>5, <1>7

-----------------------------------------------------------------------------
(* The workers. *)

LEMMA ReceiveKeeps == ASSUME SearchInv, NEW w \in Workers, Receive(w) PROVE SearchInv'
  <1> USE DEF SearchInv, loopVars, resultVars
  <1>1. /\ pc = "evaluate" /\ worker[w].phase = "idle" /\ jobs <= PopSize
        /\ worker' = [worker EXCEPT ![w] = [job |-> jobs, phase |-> "look", late |-> FALSE]]
        /\ jobs' = jobs + 1
        /\ UNCHANGED <<pc, cancelled, pop, fpCache, scores, inds, loopVars, resultVars, top>>
    BY DEF Receive
  <1>2. jobs \in 1 .. PopSize + 1 /\ PopSize \in Nat /\ worker \in [Workers -> Worker]
    BY SearchAssumption DEF TypeOK
  <1>3. /\ worker' \in [Workers -> Worker]
        /\ worker'[w] = [job |-> jobs, phase |-> "look", late |-> FALSE]
        /\ \A v \in Workers \ {w} : worker'[v] = worker[v]
    BY <1>1, <1>2 DEF Worker
  <1>4. worker[w] = Idle
    BY <1>1 DEF ShapeInv
  <1>5. TypeOK'
    <2>1. jobs' \in 1 .. PopSize + 1
      BY <1>1, <1>2
    <2>2. QED
      BY <1>1, <1>3, <2>1 DEF TypeOK
  <1>6. ShapeInv'
    <2>1. ASSUME NEW v \in Workers, worker'[v] # Idle
          PROVE  /\ pc' = "evaluate" /\ worker'[v].phase # "idle"
                 /\ worker'[v].job \in Slots /\ worker'[v].job < jobs'
      <3>1. CASE v = w
        BY <1>1, <1>2, <1>3, <3>1 DEF Slots
      <3>2. CASE v # w
        BY <1>1, <1>2, <1>3, <2>1, <3>2 DEF ShapeInv, Slots
      <3>3. QED
        BY <3>1, <3>2
    <2>2. QED
      BY <1>1, <2>1 DEF ShapeInv, Bred
  <1>7. LoopInv'
    BY <1>1 DEF LoopInv
  <1>8. StuckInv'
    BY <1>1 DEF StuckInv
  <1>9. TopInv'
    BY <1>1 DEF TopInv
  <1>10. ScoreInv'
    <2> SUFFICES ASSUME TwinsAlike, ~cancelled
                 PROVE  ScoreInv'
      BY <1>1 DEF ScoreInv
    <2>1. \A v \in Workers : ~worker'[v].late
      BY <1>3 DEF ScoreInv
    <2>2. ASSUME NEW i \in Slots, i < jobs', \A v \in Workers : worker'[v].job # i
          PROVE  scores[i] = Fitness(pop[i])
      <3>1. i # jobs /\ i # 0
        BY <1>3, <2>2 DEF Slots
      <3>2. i < jobs
        BY <1>1, <1>2, <2>2, <3>1 DEF Slots
      <3>3. \A v \in Workers : worker[v].job # i
        BY <1>3, <1>4, <2>2, <3>1 DEF Idle
      <3>4. QED
        BY <1>1, <3>2, <3>3 DEF ScoreInv
    <2>3. QED
      BY <1>1, <2>1, <2>2 DEF ScoreInv, Bred
  <1>11. RowInv'
    BY <1>1 DEF RowInv, RecordIsTrue
  <1>12. QED
    BY <1>5, <1>6, <1>7, <1>8, <1>9, <1>10, <1>11

\* What a step that ends or goes on with job i leaves: the other workers and scores.
\* A score is written only when it is the fitness, unless the context is done.
LEMMA JobKeeps ==
  ASSUME SearchInv, NEW w \in Workers, NEW score \in Int,
         pc = "evaluate", worker[w] # Idle,
         worker' = [worker EXCEPT ![w] = Idle],
         scores' = [scores EXCEPT ![worker[w].job] = score],
         UNCHANGED <<pc, cancelled, pop, jobs, inds, loopVars, resultVars, top>>,
         TwinsAlike /\ ~cancelled => score = Fitness(pop[worker[w].job]),
         DOMAIN fpCache' = DOMAIN fpCache,
         \A f \in DOMAIN fpCache : fpCache'[f] \subseteq Int,
         TwinsAlike /\ ~cancelled =>
           \A g \in Genes : fpCache'[Fingerprint[g]] \subseteq {Fitness(g)}
  PROVE  SearchInv'
  <1> USE DEF SearchInv, loopVars, resultVars
  <1> DEFINE job == worker[w].job
  <1>1. job \in Slots /\ Idle \in Worker
    BY SearchAssumption DEF ShapeInv, Idle, Worker
  <1>2. /\ worker' \in [Workers -> Worker]
        /\ worker'[w] = Idle
        /\ \A v \in Workers \ {w} : worker'[v] = worker[v]
    BY <1>1 DEF TypeOK
  <1>3. /\ scores' \in [Slots -> Int] /\ scores'[job] = score
        /\ \A i \in Slots \ {job} : scores'[i] = scores[i]
    BY <1>1 DEF TypeOK
  <1> HIDE DEF job
  <1>4. TypeOK'
    BY <1>2, <1>3 DEF TypeOK
  <1>5. ShapeInv'
    <2>1. \A v \in Workers : worker'[v] # Idle =>
            /\ pc' = "evaluate" /\ worker'[v].phase # "idle"
            /\ worker'[v].job \in Slots /\ worker'[v].job < jobs'
      BY <1>2 DEF ShapeInv
    <2>2. QED
      BY <2>1 DEF ShapeInv, Bred
  <1>6. LoopInv'
    BY DEF LoopInv
  <1>7. StuckInv'
    BY DEF StuckInv
  <1>8. TopInv'
    BY DEF TopInv
  <1>9. ScoreInv'
    <2> SUFFICES ASSUME TwinsAlike, ~cancelled
                 PROVE  ScoreInv'
      BY DEF ScoreInv
    <2>1. \A v \in Workers : ~worker'[v].late
      BY <1>2 DEF ScoreInv, Idle
    <2>2. ASSUME NEW i \in Slots, i < jobs, \A v \in Workers : worker'[v].job # i
          PROVE  scores'[i] = Fitness(pop[i])
      <3>1. CASE i = job
        BY <1>3, <3>1 DEF job
      <3>2. CASE i # job
        <4>1. \A v \in Workers : worker[v].job # i
          BY <1>2, <2>2, <3>2 DEF job
        <4>2. scores[i] = Fitness(pop[i])
          BY <2>2, <4>1 DEF ScoreInv
        <4>3. QED
          BY <1>3, <3>2, <4>2
      <3>3. QED
        BY <3>1, <3>2
    <2>3. QED
      BY <2>1, <2>2 DEF ScoreInv, Bred
  <1>10. RowInv'
    BY DEF RowInv, RecordIsTrue
  <1>11. QED
    BY <1>4, <1>5, <1>6, <1>7, <1>8, <1>9, <1>10

LEMMA LookKeeps == ASSUME SearchInv, NEW w \in Workers, Look(w) PROVE SearchInv'
  <1> DEFINE gene == pop[worker[w].job]
             hit  == fpCache[Fingerprint[gene]]
  <1>1. worker[w] # Idle /\ pc = "evaluate" /\ worker[w].job \in Slots /\ gene \in Genes
        /\ worker[w].phase = "look"
    <2>1. worker[w].phase = "look"
      BY DEF Look
    <2>2. worker[w] # Idle
      BY <2>1 DEF Idle
    <2>3. QED
      BY <2>1, <2>2 DEF SearchInv, ShapeInv
  <1>2. hit \subseteq Int /\ (TwinsAlike /\ ~cancelled => hit \subseteq {Fitness(gene)})
    <2>1. Fingerprint[gene] \in DOMAIN fpCache
      BY <1>1 DEF SearchInv, ShapeInv
    <2>2. QED
      BY <1>1, <2>1 DEF SearchInv, TypeOK, ScoreInv
  <1>3. UNCHANGED <<pc, cancelled, pop, jobs, fpCache, inds, loopVars, resultVars, top>>
    BY DEF Look
  <1>4. CASE hit # {} /\ worker' = [worker EXCEPT ![w] = Idle]
             /\ scores' = [scores EXCEPT ![worker[w].job] = CHOOSE s \in hit : TRUE]
    <2> DEFINE score == CHOOSE s \in hit : TRUE
    <2>1. score \in hit
      BY <1>4
    <2>2. score \in Int /\ (TwinsAlike /\ ~cancelled => score = Fitness(gene))
      BY <1>2, <2>1
    <2>3. \A f \in DOMAIN fpCache : fpCache[f] \subseteq Int
      BY DEF SearchInv, TypeOK
    <2>4. TwinsAlike /\ ~cancelled =>
            \A g \in Genes : fpCache[Fingerprint[g]] \subseteq {Fitness(g)}
      BY DEF SearchInv, ScoreInv
    <2> HIDE DEF score
    <2>5. scores' = [scores EXCEPT ![worker[w].job] = score]
      BY <1>4 DEF score
    <2>6. QED
      BY <1>1, <1>3, <1>4, <2>2, <2>3, <2>4, <2>5, JobKeeps
  <1>5. CASE worker' = [worker EXCEPT ![w].phase = "run", ![w].late = cancelled]
             /\ UNCHANGED scores
    <2> USE DEF SearchInv, loopVars, resultVars
    <2>1. /\ worker' \in [Workers -> Worker]
          /\ worker'[w] = [worker[w] EXCEPT !.phase = "run", !.late = cancelled]
          /\ \A v \in Workers \ {w} : worker'[v] = worker[v]
      BY <1>5 DEF TypeOK, Worker
    <2>2. /\ worker'[w].job = worker[w].job /\ worker'[w].phase = "run"
          /\ worker'[w].late = cancelled
      BY <2>1 DEF TypeOK, Worker
    <2>3. TypeOK'
      BY <1>3, <1>5, <2>1 DEF TypeOK
    <2>4. ShapeInv'
      <3>1. \A v \in Workers : worker'[v] # Idle =>
              /\ pc' = "evaluate" /\ worker'[v].phase # "idle"
              /\ worker'[v].job \in Slots /\ worker'[v].job < jobs'
        BY <1>1, <1>3, <2>1, <2>2 DEF ShapeInv
      <3>2. QED
        BY <1>3, <3>1 DEF ShapeInv, Bred
    <2>5. LoopInv'
      BY <1>3 DEF LoopInv
    <2>6. StuckInv'
      BY <1>3 DEF StuckInv
    <2>7. TopInv'
      BY <1>3 DEF TopInv
    <2>8. ScoreInv'
      <3>1. \A v \in Workers : worker'[v].job = worker[v].job
        BY <2>1, <2>2
      <3>2. TwinsAlike /\ ~cancelled => \A v \in Workers : ~worker'[v].late
        BY <2>1, <2>2 DEF ScoreInv
      <3>3. QED
        BY <1>3, <1>5, <3>1, <3>2 DEF ScoreInv, Bred
    <2>9. RowInv'
      BY <1>1, <1>3 DEF RowInv, RecordIsTrue
    <2>10. QED
      BY <2>3, <2>4, <2>5, <2>6, <2>7, <2>8, <2>9
  <1>6. QED
    BY <1>4, <1>5 DEF Look

LEMMA ReturnKeeps == ASSUME SearchInv, NEW w \in Workers, Return(w) PROVE SearchInv'
  <1> DEFINE gene == pop[worker[w].job]
  <1>1. worker[w] # Idle /\ pc = "evaluate" /\ worker[w].job \in Slots /\ gene \in Genes
    <2>1. worker[w].phase = "run"
      BY DEF Return
    <2>2. worker[w] # Idle
      BY <2>1 DEF Idle
    <2>3. QED
      BY <2>2 DEF SearchInv, ShapeInv
  <1>2. /\ worker' = [worker EXCEPT ![w] = Idle]
        /\ UNCHANGED <<pc, cancelled, pop, jobs, inds, loopVars, resultVars, top>>
    BY DEF Return
  <1>3. PICK result \in Outcomes(gene, worker[w].late) :
          /\ fpCache' = [fpCache EXCEPT ![Fingerprint[gene]] = {result.score}]
          /\ scores' = [scores EXCEPT ![worker[w].job] = result.score]
    BY DEF Return
  <1>4. result.score \in Int /\ (TwinsAlike /\ ~cancelled => result.score = Fitness(gene))
    <2>1. worker[w].late \in BOOLEAN /\ (TwinsAlike /\ ~cancelled => ~worker[w].late)
      BY DEF SearchInv, TypeOK, Worker, ScoreInv
    <2>2. /\ result.score \in Int
          /\ ~cancelled /\ ~worker[w].late => result = Evaluated(gene, Len(Weights))
      BY <1>1, <2>1, OutcomeIsResult
    <2>3. QED
      BY <2>1, <2>2 DEF Fitness
  <1>5. DOMAIN fpCache' = DOMAIN fpCache
        /\ \A f \in DOMAIN fpCache : fpCache'[f] \subseteq Int
    BY <1>3, <1>4 DEF SearchInv, TypeOK
  <1>6. ASSUME TwinsAlike, ~cancelled, NEW g \in Genes
        PROVE  fpCache'[Fingerprint[g]] \subseteq {Fitness(g)}
    <2>1. Fingerprint[g] \in DOMAIN fpCache
      BY DEF SearchInv, ShapeInv
    <2>2. CASE Fingerprint[g] = Fingerprint[gene]
      <3>1. Fitness(g) = Fitness(gene)
        BY <1>1, <1>6, <2>2, TwinsScoreTheSame
      <3>2. fpCache'[Fingerprint[g]] = {result.score}
        BY <1>3, <2>1, <2>2
      <3>3. QED
        BY <1>4, <1>6, <3>1, <3>2
    <2>3. CASE Fingerprint[g] # Fingerprint[gene]
      <3>1. fpCache'[Fingerprint[g]] = fpCache[Fingerprint[g]]
        BY <1>3, <2>1, <2>3
      <3>2. QED
        BY <1>6, <3>1 DEF SearchInv, ScoreInv
    <2>4. QED
      BY <2>2, <2>3
  <1>7. QED
    BY <1>1, <1>2, <1>3, <1>4, <1>5, <1>6, JobKeeps

-----------------------------------------------------------------------------
(* The populations: evaluated, sorted, bred. *)

LEMMA CollectKeeps == SearchInv /\ Collect => SearchInv'
  <1> SUFFICES ASSUME SearchInv, Collect
               PROVE  SearchInv'
    OBVIOUS
  <1>1. /\ pc = "evaluate" /\ Drained /\ pc' = "check" /\ inds' \in Sorted(pop, scores)
        /\ bestEver' = IF gen = 0 THEN inds'[1].fitness ELSE bestEver
        /\ pop' = <<>> /\ scores' = [i \in Slots |-> 0] /\ fpCache' = EmptyCache
        /\ UNCHANGED <<cancelled, jobs, worker, gen, patience, prob, scale, bests, details,
                       written, top>>
    BY DEF Collect, resultVars
  <1>2. PICK p \in Bijection(Slots, Slots) :
          /\ \A i, j \in Slots : i < j => scores[p[i]] >= scores[p[j]]
          /\ inds' = [i \in Slots |-> [gene |-> pop[p[i]], fitness |-> scores[p[i]]]]
    BY <1>1 DEF Sorted
  <1>3. 1 \in Slots /\ pop \in [Slots -> Genes] /\ scores \in [Slots -> Int]
    BY <1>1, SearchAssumption DEF SearchInv, TypeOK, ShapeInv, Slots
  <1>4. p \in [Slots -> Slots] /\ \A k \in Slots : \E i \in Slots : p[i] = k
    BY DEF Bijection, Surjection
  <1>5. inds' \in [Slots -> [gene : Genes, fitness : Int]]
    BY <1>2, <1>3, <1>4
  <1>6. inds'[1].fitness = scores[p[1]] /\ inds'[1].gene = pop[p[1]] /\ p[1] \in Slots
    BY <1>2, <1>3, <1>4
  <1>7. \A w \in Workers : worker[w] = Idle
    BY <1>1 DEF Drained
  <1>8. TwinsAlike /\ ~cancelled => inds'[1].fitness = top /\ Fitness(inds'[1].gene) = top
    <2> SUFFICES ASSUME TwinsAlike, ~cancelled
                 PROVE  inds'[1].fitness = top /\ Fitness(inds'[1].gene) = top
      OBVIOUS
    <2>1. \A i \in Slots : scores[i] = Fitness(pop[i])
      <3>1. \A i \in Slots : i < jobs
        BY <1>1, SearchAssumption DEF Drained, Slots, SearchInv, TypeOK
      <3>2. \A i \in Slots : \A w \in Workers : worker[w].job # i
        BY <1>7 DEF Idle, Slots
      <3>3. QED
        BY <1>1, <3>1, <3>2 DEF SearchInv, ScoreInv
    <2>2. PICK k \in Slots : Fitness(pop[k]) = top
      BY <1>1 DEF SearchInv, ScoreInv
    <2>3. PICK i \in Slots : p[i] = k
      BY <1>4
    <2>4. scores[p[1]] >= scores[k]
      <3>1. CASE i = 1
        BY <1>3, <2>3, <3>1
      <3>2. CASE i # 1
        <4>1. 1 < i
          BY <3>2 DEF Slots
        <4>2. QED
          BY <1>2, <1>3, <2>3, <4>1
      <3>3. QED
        BY <3>1, <3>2
    <2>5. scores[p[1]] <= top /\ scores[k] = top
      BY <1>1, <1>6, <2>1, <2>2 DEF SearchInv, TopInv
    <2>6. scores[p[1]] = top
      BY <1>3, <1>6, <2>4, <2>5
    <2>7. QED
      BY <1>6, <2>1, <2>6
  <1>9. TypeOK'
    <2>1. scores' \in [Slots -> Int]
      BY <1>1
    <2>2. \A f \in DOMAIN fpCache' : fpCache'[f] \subseteq Int
      BY <1>1 DEF EmptyCache
    <2>3. bestEver' \in Int
      BY <1>1, <1>3, <1>6 DEF SearchInv, TypeOK
    <2>4. QED
      BY <1>1, <1>5, <2>1, <2>2, <2>3 DEF SearchInv, TypeOK, Pc
  <1>10. ShapeInv'
    BY <1>1, <1>5, <1>7 DEF SearchInv, ShapeInv, EmptyCache
  <1>11. LoopInv'
    BY <1>1 DEF SearchInv, LoopInv
  <1>12. StuckInv'
    <2>1. gen = 0 <=> bests = <<>>
      BY <1>1 DEF SearchInv, LoopInv
    <2>2. bests # <<>> => bestEver' = bestEver
      BY <1>1, <2>1
    <2>3. bests = <<>> => bestEver' = inds'[1].fitness
      BY <1>1, <2>1
    <2>4. UNCHANGED <<bests, patience, top>> /\ pc = "evaluate"
      BY <1>1
    <2>5. QED
      BY <2>2, <2>3, <2>4 DEF SearchInv, StuckInv
  <1>13. TopInv'
    BY <1>1 DEF TopInv
  <1>14. ScoreInv'
    <2>1. \A g \in Genes : fpCache'[Fingerprint[g]] = {}
      BY <1>1 DEF EmptyCache
    <2>2. \A w \in Workers : ~worker'[w].late
      BY <1>1, <1>7 DEF Idle
    <2>3. pc' = "check" /\ cancelled' = cancelled /\ top' = top
      BY <1>1
    <2>4. QED
      BY <1>8, <2>1, <2>2, <2>3 DEF ScoreInv
  <1>15. RowInv'
    BY <1>1 DEF SearchInv, RowInv, RecordIsTrue
  <1>16. QED
    BY <1>9, <1>10, <1>11, <1>12, <1>13, <1>14, <1>15 DEF SearchInv

\* A new population goes to the workers, one of its genes worth top.
LEMMA EvaluatesKeeps ==
  ASSUME SearchInv, NEW genes \in [Slots -> Genes], Evaluates(genes),
         pc \in {"populate", "breed"},
         gen' = IF pc = "populate" THEN gen ELSE gen + 1,
         UNCHANGED <<cancelled, bestEver, patience, prob, scale, bests, resultVars>>,
         TwinsAlike /\ pc = "breed" /\ ~cancelled => Fitness(genes[1]) = top
  PROVE  SearchInv'
  <1> USE DEF SearchInv, resultVars
  <1>1. /\ pc' = "evaluate" /\ pop' = genes /\ jobs' = 1
        /\ fpCache' = EmptyCache /\ scores' = [i \in Slots |-> 0]
        /\ inds' = <<>> /\ UNCHANGED worker
    BY DEF Evaluates
  <1>2. 1 \in Slots /\ PopSize \in Nat \ {0} /\ MaxGenerations \in Nat
    BY SearchAssumption DEF Slots
  <1>3. \A w \in Workers : worker[w] = Idle
    BY DEF ShapeInv
  <1>4. /\ top' \in Int
        /\ \A i \in Slots : Fitness(genes[i]) <= top'
        /\ pc = "breed" => top <= top'
        /\ TwinsAlike /\ ~cancelled => \E i \in Slots : Fitness(genes[i]) = top'
    <2> DEFINE F == {Fitness(genes[i]) : i \in DOMAIN genes}
               S == IF pc = "populate" THEN {} ELSE {top}
    <2>1. S \in SUBSET Int /\ IsFiniteSet(S)
      <3>1. top \in Int
        BY DEF ShapeInv
      <3>2. QED
        BY <3>1, FS_EmptySet, FS_Singleton
    <2>2. top' = Max(S \cup F)
      BY DEF Evaluates
    <2>3. PICK T \in SUBSET Int : T = S
      BY <2>1
    <2>4. Max(T \cup F) \in T \cup F /\ \A n \in T \cup F : Max(T \cup F) >= n
      BY <2>1, <2>3, BestOfGenes
    <2>5. F \in SUBSET Int
      BY FitnessIsInt
    <2>6. \A i \in Slots : Fitness(genes[i]) \in F
      OBVIOUS
    <2>7. \A n \in F : \E i \in Slots : Fitness(genes[i]) = n
      OBVIOUS
    <2>8. Fitness(genes[1]) \in F
      BY <1>2, <2>6
    <2> HIDE DEF F
    <2>9. top' \in Int /\ \A n \in T \cup F : n <= top'
      BY <2>2, <2>3, <2>4, <2>5
    <2>10. TwinsAlike /\ ~cancelled => top' \in F
      BY <2>2, <2>3, <2>4, <2>8
    <2>11. pc = "breed" => top <= top'
      BY <2>3, <2>9
    <2>12. QED
      BY <2>6, <2>7, <2>9, <2>10, <2>11
  <1>5. TypeOK'
    <2>1. scores' \in [Slots -> Int] /\ jobs' \in 1 .. PopSize + 1
      BY <1>1, <1>2
    <2>2. \A f \in DOMAIN fpCache' : fpCache'[f] \subseteq Int
      BY <1>1 DEF EmptyCache
    <2>3. gen' \in 0 .. MaxGenerations
      BY <1>2 DEF TypeOK, LoopInv
    <2>4. QED
      BY <1>1, <2>1, <2>2, <2>3 DEF TypeOK, Pc
  <1>6. ShapeInv'
    BY <1>1, <1>3, <1>4 DEF ShapeInv, Bred, EmptyCache
  <1>7. LoopInv'
    BY <1>1 DEF LoopInv
  <1>8. StuckInv'
    <2> SUFFICES ASSUME TwinsAlike
                 PROVE  StuckInv'
      BY DEF StuckInv
    <2>1. /\ \A k, m \in 1 .. Len(bests) : k <= m => bests[k] <= bests[m]
          /\ \A k \in 1 .. Len(bests) : bests[k] <= top
          /\ bests # <<>> =>
               bestEver = bests[IF patience < Len(bests) THEN Len(bests) - patience ELSE 1]
      BY DEF StuckInv
    <2>2. \A k \in 1 .. Len(bests) : bests[k] <= top'
      <3>1. CASE pc = "populate"
        BY <3>1 DEF LoopInv
      <3>2. CASE pc = "breed"
        <4>1. \A k \in 1 .. Len(bests) : bests[k] \in Int
          BY DEF LoopInv
        <4>2. top \in Int
          BY DEF ShapeInv
        <4>3. QED
          BY <1>4, <2>1, <3>2, <4>1, <4>2
      <3>3. QED
        BY <3>1, <3>2
    <2>3. QED
      BY <1>1, <2>1, <2>2 DEF StuckInv
  <1>9. TopInv'
    BY <1>1, <1>4 DEF TopInv
  <1>10. ScoreInv'
    <2>1. \A g \in Genes : fpCache'[Fingerprint[g]] = {}
      BY <1>1 DEF EmptyCache
    <2>2. \A i \in Slots : ~ (i < jobs')
      BY <1>1 DEF Slots
    <2>3. QED
      BY <1>1, <1>3, <1>4, <2>1, <2>2 DEF ScoreInv, Bred, Idle
  <1>11. RowInv'
    BY <1>1 DEF ShapeInv, RowInv, RecordIsTrue
  <1>12. QED
    BY <1>5, <1>6, <1>7, <1>8, <1>9, <1>10, <1>11

LEMMA InitPopulationKeeps == SearchInv /\ InitPopulation => SearchInv'
  <1> SUFFICES ASSUME SearchInv, InitPopulation
               PROVE  SearchInv'
    OBVIOUS
  <1>1. pc = "populate" /\ UNCHANGED <<cancelled, loopVars, resultVars>>
    BY DEF InitPopulation
  <1>2. PICK elites \in Stored \cup {<<>>} :
          \E drawn \in [1 .. PopSize - Len(Copied(elites)) -> Genes] :
            Evaluates(Copied(elites) \o drawn)
    BY DEF InitPopulation
  <1>3. PICK drawn \in [1 .. PopSize - Len(Copied(elites)) -> Genes] :
          Evaluates(Copied(elites) \o drawn)
    BY <1>2
  <1>4. Copied(elites) \o drawn \in [Slots -> Genes]
    BY CopiesFit, Filled
  <1>5. QED
    BY <1>1, <1>3, <1>4, EvaluatesKeeps DEF loopVars

LEMMA BreedKeeps == SearchInv /\ Breed => SearchInv'
  <1> SUFFICES ASSUME SearchInv, Breed
               PROVE  SearchInv'
    OBVIOUS
  <1>1. /\ pc = "breed" /\ gen' = gen + 1
        /\ UNCHANGED <<cancelled, bestEver, patience, prob, scale, bests, resultVars>>
    BY DEF Breed
  <1>2. inds \in [Slots -> [gene : Genes, fitness : Int]]
    BY <1>1 DEF SearchInv, ShapeInv, Bred
  <1>3. PICK elites : elites = Elites
    OBVIOUS
  <1>4. elites \in Seq(Genes) /\ Len(elites) \in 1 .. PopSize /\ elites[1] = inds[1].gene
    BY <1>2, <1>3, ElitesFit
  <1>5. PICK children \in [1 .. PopSize - Len(elites) -> Genes] : Evaluates(elites \o children)
    BY <1>3 DEF Breed
  <1>6. elites \o children \in [Slots -> Genes] /\ (elites \o children)[1] = inds[1].gene
    BY <1>4, Filled
  <1>7. TwinsAlike /\ ~cancelled => Fitness((elites \o children)[1]) = top
    BY <1>1, <1>6 DEF SearchInv, ScoreInv, Bred
  <1>8. QED
    BY <1>1, <1>5, <1>6, <1>7, EvaluatesKeeps

-----------------------------------------------------------------------------
(* The theorems. *)

LEMMA SearchStep == SearchInv /\ [Next]_vars => SearchInv'
  <1> SUFFICES ASSUME SearchInv, [Next]_vars
               PROVE  SearchInv'
    OBVIOUS
  <1>1. CASE EpochStep
    BY <1>1, BuildPlanKeeps, InitPopulationKeeps, CollectKeeps, InterruptedKeeps, ConvergeKeeps,
       BreedKeeps, DetailKeeps, InsertKeeps, CommitKeeps DEF EpochStep
  <1>2. CASE Cancel
    BY <1>2, CancelKeeps
  <1>3. ASSUME NEW w \in Workers, WorkerStep(w)
        PROVE  SearchInv'
    BY <1>3, ReceiveKeeps, LookKeeps, ReturnKeeps DEF WorkerStep
  <1>4. CASE UNCHANGED vars
    BY <1>4, StutterKeeps
  <1>5. QED
    BY <1>1, <1>2, <1>3, <1>4 DEF Next

LEMMA SearchInvariant == Spec => []SearchInv
  BY SearchInit, SearchStep, PTL DEF Spec

\* Every variable keeps its type: the generations and the patience stay within
\* their bounds, the ramps never pass their ends, an index never leaves the
\* population (engine.go:124-181).
THEOREM SearchTypeCorrect == Spec => []TypeOK
  <1>1. SearchInv => TypeOK
    BY DEF SearchInv
  <1>2. QED
    BY SearchInvariant, <1>1, PTL

\* The best gene is never lost, for any number of workers and of elites: while
\* the context is not done the head of the population is worth as much as any
\* gene evaluated in the epoch (engine.go:159-181, :334-356).
THEOREM BestIsKept == ASSUME TwinsAlike PROVE Spec => []BestKept
  <1>1. SearchInv => BestKept
    BY DEF SearchInv, ScoreInv, BestKept, Bred
  <1>2. QED
    BY SearchInvariant, <1>1, PTL

\* The row in the database has the score and the windows of an evaluation of its
\* gene that nothing cut short, and no gene did better (engine.go:187-216).
THEOREM RowIsTrue == ASSUME TwinsAlike PROVE Spec => []RecordIsTrue
  <1>1. SearchInv => RecordIsTrue
    BY DEF SearchInv, RowInv
  <1>2. QED
    BY SearchInvariant, <1>1, PTL

\* Only the report of a generation adds to the bests.
LEMMA OnlyConvergeReports ==
  ASSUME SearchInv, [Next]_vars, pc = "check", bests' # bests
  PROVE  Converge
  <1>1. CASE EpochStep
    BY <1>1 DEF EpochStep, BuildPlan, InitPopulation, Collect, Interrupted, Breed, Detail,
               Insert, Commit, loopVars
  <1>2. CASE Cancel
    BY <1>2 DEF Cancel, loopVars
  <1>3. ASSUME NEW w \in Workers, WorkerStep(w)
        PROVE  FALSE
    BY <1>3 DEF WorkerStep, Receive, Look, Return, loopVars
  <1>4. CASE UNCHANGED vars
    BY <1>4 DEF vars, loopVars
  <1>5. QED
    BY <1>1, <1>2, <1>3, <1>4 DEF Next

\* The search stops early only after Patience generations that together gained
\* less than MinDelta, for any ramps and patience (engine.go:130-154).
THEOREM StopIsEarned == ASSUME TwinsAlike PROVE Spec => EarlyStopIsEarned
  <1> DEFINE Earned ==
        pc = "check" /\ bests' # bests /\ pc' = "detail" =>
          LET n == Len(bests')
          IN n >= Patience /\ bests'[n] - bests'[Max({1, n - Patience})] < MinDelta
  <1>1. SearchInv /\ [Next]_vars => [Earned]_vars
    <2> SUFFICES ASSUME SearchInv, [Next]_vars, pc = "check", bests' # bests, pc' = "detail"
                 PROVE  LET n == Len(bests')
                        IN n >= Patience
                             /\ bests'[n] - bests'[Max({1, n - Patience})] < MinDelta
      OBVIOUS
    <2>1. Converge
      BY OnlyConvergeReports
    <2>2. QED
      BY <2>1, ConvergeIsEarned
  <1>2. QED
    BY SearchInvariant, <1>1, PTL DEF Spec, EarlyStopIsEarned

-----------------------------------------------------------------------------
(* The epoch is the Search step of Evolution. *)

Ended == pc \in {"done", "failed"}

\* The record of the epoch that ends.
LEMMA EndedEpoch ==
  ASSUME NEW r
  PROVE  [[task |-> 1, pc |-> "search", result |-> "running"] EXCEPT !.pc = "record", !.result = r]
           = [task |-> 1, pc |-> "record", result |-> r]
  <1> DEFINE e == [task |-> 1, pc |-> "search", result |-> "running"]
             f == [e EXCEPT !.pc = "record", !.result = r]
             T == [task : {1}, pc : {"search", "record"}, result : {"running", r}]
  <1>1. e \in T
    OBVIOUS
  <1> HIDE DEF e
  <1>2. f \in T /\ f.pc = "record" /\ f.result = r
    BY <1>1
  <1> HIDE DEF f
  <1>3. f = [task |-> f.task, pc |-> f.pc, result |-> f.result] /\ f.task = 1
    BY <1>2
  <1>4. f = [task |-> 1, pc |-> "record", result |-> r]
    BY <1>2, <1>3
  <1>5. QED
    BY <1>4 DEF e, f

\* A step by which the epoch ends is the step Search of Evolution: with the row
\* written and the context not done, or as a failure.
LEMMA EndIsSearch ==
  ASSUME ~Ended, pc' \in {"done", "failed"}, UNCHANGED cancelled, written = {},
         pc' = "done" => ~cancelled /\ written' # {}
  PROVE  E!Next
  <1> DEFINE ep   == [task |-> 1, pc |-> "search", result |-> "running"]
             over == {[task |-> 1, pc |-> IF pc \in {"done", "failed"} THEN "record" ELSE "search",
                       result |-> IF pc \in {"done", "failed"} THEN pc ELSE "running"]}
  <1>1. over = {ep}
    BY DEF Ended
  <1>2. over' = {[task |-> 1, pc |-> "record", result |-> pc']}
    OBVIOUS
  <1>3. E!Goes(ep, "record", pc')
    <2>1. \A r : [ep EXCEPT !.pc = "record", !.result = r]
                  = [task |-> 1, pc |-> "record", result |-> r]
      BY EndedEpoch
    <2>2. over' = (over \ {ep}) \cup {[ep EXCEPT !.pc = "record", !.result = pc']}
      <3>1. over \ {ep} = {}
        BY <1>1
      <3> HIDE DEF ep, over
      <3>2. QED
        BY <1>2, <2>1, <3>1
    <2>3. QED
      BY <2>2 DEF E!Goes
  <1>4. ep.pc = "search" /\ ep.task = 1
    OBVIOUS
  <1>5. [<<IF written = {} THEN "none" ELSE "challenger">> EXCEPT ![1] = "challenger"]
          = <<"challenger">>
    OBVIOUS
  <1>6. E!Search(ep)
    <2>1. CASE pc' = "done"
      BY <1>3, <1>4, <1>5, <2>1 DEF E!Search, E!requestVars
    <2>2. CASE pc' = "failed"
      BY <1>3, <1>4, <1>5, <2>2 DEF E!Search, E!requestVars
    <2>3. QED
      BY <2>1, <2>2
  <1>7. E!EpochStep(ep)
    BY <1>6 DEF E!EpochStep
  <1>8. QED
    BY <1>1, <1>7 DEF E!Next

\* A step of which Evolution sees nothing.
LEMMA Stutters ==
  ASSUME UNCHANGED <<cancelled, written>>, Ended <=> Ended', Ended => UNCHANGED pc
  PROVE  UNCHANGED E!vars
  BY DEF Ended, E!vars, E!taskVars, E!requestVars

LEMMA CancelIsCancel ==
  ASSUME Cancel
  PROVE  E!Next
  <1>1. ~cancelled /\ cancelled' = TRUE /\ UNCHANGED <<pc, written>>
    BY DEF Cancel, resultVars
  <1>2. E!CancelActiveTask
    BY <1>1 DEF E!CancelActiveTask, E!requestVars
  <1>3. QED
    BY <1>2 DEF E!Next

\* Each step of the epoch, of its workers and of whoever cancels it is a step of
\* Evolution or none: the challenger is written once, at the end, and a success is
\* reported only with the row and before any cancellation (service.go:155-191).
THEOREM EpochIsSearch == Spec => ImplementsSearch
  <1>1. SearchInv /\ [Next]_vars => [E!Next]_(E!vars)
    <2> SUFFICES ASSUME SearchInv, [Next]_vars
                 PROVE  E!Next \/ UNCHANGED E!vars
      OBVIOUS
    <2>1. written # {} => Ended
      BY DEF SearchInv, ShapeInv, Ended
    <2>2. CASE BuildPlan
      <3>1. pc = "plan" /\ pc' \in {"populate", "failed"} /\ UNCHANGED <<cancelled, written>>
        BY <2>2 DEF BuildPlan, resultVars
      <3>2. CASE pc' = "failed"
        BY <2>1, <3>1, <3>2, EndIsSearch DEF Ended
      <3>3. CASE pc' = "populate"
        BY <3>1, <3>3, Stutters DEF Ended
      <3>4. QED
        BY <3>1, <3>2, <3>3
    <2>3. CASE Insert
      <3>1. pc = "insert" /\ pc' \in {"commit", "failed"} /\ UNCHANGED <<cancelled, written>>
        BY <2>3 DEF Insert, resultVars
      <3>2. CASE pc' = "failed"
        BY <2>1, <3>1, <3>2, EndIsSearch DEF Ended
      <3>3. CASE pc' = "commit"
        BY <3>1, <3>3, Stutters DEF Ended
      <3>4. QED
        BY <3>1, <3>2, <3>3
    <2>4. CASE Commit
      <3>1. /\ pc = "commit" /\ pc' \in {"done", "failed"} /\ UNCHANGED cancelled
            /\ pc' = "done" => ~cancelled /\ written' # {}
        BY <2>4 DEF Commit
      <3>2. QED
        BY <2>1, <3>1, EndIsSearch DEF Ended
    <2>5. CASE InitPopulation \/ Collect \/ Interrupted \/ Converge \/ Breed \/ Detail
      <3>1. ~Ended /\ ~Ended' /\ UNCHANGED <<cancelled, written>>
        BY <2>5 DEF InitPopulation, Evaluates, Collect, Interrupted, Converge, Breed, Detail,
                    resultVars, Ended
      <3>2. QED
        BY <3>1, Stutters
    <2>6. CASE Cancel
      BY <2>6, CancelIsCancel
    <2>7. ASSUME NEW w \in Workers, WorkerStep(w)
          PROVE  UNCHANGED E!vars
      <3>1. UNCHANGED <<pc, cancelled, written>>
        BY <2>7 DEF WorkerStep, Receive, Look, Return, resultVars
      <3>2. QED
        BY <3>1, Stutters DEF Ended
    <2>8. CASE UNCHANGED vars
      <3>1. UNCHANGED <<pc, cancelled, written>>
        BY <2>8 DEF vars, resultVars
      <3>2. QED
        BY <3>1, Stutters DEF Ended
    <2>9. QED
      BY <2>2, <2>3, <2>4, <2>5, <2>6, <2>7, <2>8 DEF Next, EpochStep
  <1>2. QED
    BY SearchInvariant, <1>1, PTL DEF Spec, ImplementsSearch
-----------------------------------------------------------------------------
(* The steps run out. *)

\* A bound on the steps of the epoch from here on: those of the generations to
\* come, those that lead out of this one, and while it is evaluated three for each
\* job in the channel and the rest of those that the workers have.
InPhase(phase) == Cardinality({w \in Workers : worker[w].phase = phase})

StepsOut == [plan |-> 3 * PopSize + 8, populate |-> 3 * PopSize + 7, evaluate |-> 6,
             check |-> 5, breed |-> 4, detail |-> 3, insert |-> 2, commit |-> 1,
             done |-> 0, failed |-> 0]

StepsLeft ==
  (MaxGenerations - gen) * (3 * PopSize + 3) + StepsOut[pc]
    + (IF pc = "evaluate" THEN 3 * (PopSize + 1 - jobs) + 2 * InPhase("look") + InPhase("run")
       ELSE 0)

\* The epoch cannot go on for ever: whichever worker moves, whatever the cache
\* holds and however the scores fall, no step but a cancellation leaves as much to
\* do as there was before it (engine.go:123, :328-354).
StepsRunOut == [][cancelled' # cancelled \/ (0 <= StepsLeft' /\ StepsLeft' < StepsLeft)]_vars

LEMMA StepsOutFrom ==
  /\ StepsOut["plan"] = 3 * PopSize + 8 /\ StepsOut["populate"] = 3 * PopSize + 7
  /\ StepsOut["evaluate"] = 6 /\ StepsOut["check"] = 5 /\ StepsOut["breed"] = 4
  /\ StepsOut["detail"] = 3 /\ StepsOut["insert"] = 2 /\ StepsOut["commit"] = 1
  /\ StepsOut["done"] = 0 /\ StepsOut["failed"] = 0
  BY DEF StepsOut

LEMMA GenerationsOut ==
  ASSUME NEW m \in Nat, NEW k \in Nat
  PROVE  m * k \in Nat /\ (m + 1) * k = m * k + k
  BY SMT

\* The workers f of one phase; InPhase counts those of worker.
CountIn(f, phase) == Cardinality({w \in Workers : f[w].phase = phase})

LEMMA PhaseCount ==
  ASSUME IsFiniteSet(Workers), NEW phase, NEW f
  PROVE  /\ CountIn(f, phase) \in Nat
         /\ (\A w \in Workers : f[w].phase # phase) => CountIn(f, phase) = 0
  <1> DEFINE S == {w \in Workers : f[w].phase = phase}
  <1>1. IsFiniteSet(S)
    BY FS_Subset, S \in SUBSET Workers
  <1>2. (\A w \in Workers : f[w].phase # phase) => S = {}
    OBVIOUS
  <1>3. QED
    BY <1>1, <1>2, FS_CardinalityType, FS_EmptySet DEF CountIn

\* One worker moves from its phase to another.
LEMMA PhaseChange ==
  ASSUME IsFiniteSet(Workers), NEW phase, NEW w \in Workers, NEW f, NEW g,
         \A v \in Workers : v # w => g[v] = f[v]
  PROVE  CountIn(g, phase) = CountIn(f, phase) - (IF f[w].phase = phase THEN 1 ELSE 0)
                               + (IF g[w].phase = phase THEN 1 ELSE 0)
  <1> DEFINE S == {v \in Workers : f[v].phase = phase}
             T == {v \in Workers : g[v].phase = phase}
  <1>1. IsFiniteSet(S) /\ IsFiniteSet(S \ {w}) /\ Cardinality(S) \in Nat
    BY FS_Subset, FS_CardinalityType, S \in SUBSET Workers, S \ {w} \in SUBSET Workers
  <1>2. T = IF g[w].phase = phase THEN (S \ {w}) \cup {w} ELSE S \ {w}
    OBVIOUS
  <1>3. (w \in S) = (f[w].phase = phase)
    OBVIOUS
  <1> HIDE DEF S, T
  <1>4. Cardinality(S \ {w}) = IF w \in S THEN Cardinality(S) - 1 ELSE Cardinality(S)
    BY <1>1, FS_RemoveElement
  <1>5. Cardinality((S \ {w}) \cup {w}) = Cardinality(S \ {w}) + 1
    BY <1>1, FS_AddElement
  <1>6. Cardinality(T) = Cardinality(S) - (IF f[w].phase = phase THEN 1 ELSE 0)
                           + (IF g[w].phase = phase THEN 1 ELSE 0)
    BY <1>1, <1>2, <1>3, <1>4, <1>5
  <1>7. QED
    BY <1>6 DEF CountIn, S, T

\* What is left is never negative, and within a generation it is StepsOut, but for
\* the jobs.
LEMMA LeftIsCounted ==
  ASSUME SearchInv, IsFiniteSet(Workers)
  PROVE  /\ (MaxGenerations - gen) * (3 * PopSize + 3) \in Nat
         /\ PopSize \in Nat /\ PopSize + 1 - jobs \in Nat
         /\ InPhase("look") \in Nat /\ InPhase("run") \in Nat
         /\ StepsLeft \in Nat
  <1>1. /\ PopSize \in Nat /\ MaxGenerations \in Nat /\ gen \in 0 .. MaxGenerations
        /\ jobs \in 1 .. PopSize + 1 /\ pc \in Pc
    BY SearchAssumption DEF SearchInv, TypeOK
  <1>2. MaxGenerations - gen \in Nat /\ 3 * PopSize + 3 \in Nat /\ PopSize + 1 - jobs \in Nat
    BY <1>1
  <1>3. (MaxGenerations - gen) * (3 * PopSize + 3) \in Nat
    BY <1>2, GenerationsOut
  <1>4. InPhase("look") \in Nat /\ InPhase("run") \in Nat
    BY PhaseCount DEF InPhase, CountIn
  <1>5. StepsOut[pc] \in Nat
    BY <1>1, StepsOutFrom DEF Pc
  <1>6. QED
    BY <1>1, <1>2, <1>3, <1>4, <1>5 DEF StepsLeft

\* A step of a worker.
LEMMA WorkerRunsOut ==
  ASSUME SearchInv, IsFiniteSet(Workers), NEW w \in Workers, WorkerStep(w)
  PROVE  StepsLeft' < StepsLeft
  <1>1. /\ worker \in [Workers -> Worker] /\ jobs \in Int /\ gen' = gen /\ pc' = pc
        /\ worker[w].phase # "idle" => pc = "evaluate"
    BY SearchAssumption DEF SearchInv, TypeOK, ShapeInv, WorkerStep, Receive, Look, Return,
         loopVars, Idle
  <1>2. pc = "evaluate"
    BY <1>1 DEF WorkerStep, Receive, Look, Return
  <1>3. PICK out : out = (MaxGenerations - gen) * (3 * PopSize + 3) + StepsOut[pc]
    OBVIOUS
  <1>4. /\ StepsLeft = out + (3 * (PopSize + 1 - jobs) + 2 * InPhase("look") + InPhase("run"))
        /\ StepsLeft' = out + (3 * (PopSize + 1 - jobs') + 2 * InPhase("look")' + InPhase("run")')
    BY <1>1, <1>2, <1>3 DEF StepsLeft, StepsOut
  <1>5. out \in Int /\ PopSize \in Int /\ InPhase("look") \in Nat /\ InPhase("run") \in Nat
    BY <1>2, <1>3, LeftIsCounted, StepsOutFrom
  <1>6. PICK x : /\ worker' = [worker EXCEPT ![w] = x]
                 /\ \/ worker[w].phase = "idle" /\ x.phase = "look" /\ jobs' = jobs + 1
                    \/ worker[w].phase = "look" /\ x.phase \in {"idle", "run"} /\ jobs' = jobs
                    \/ worker[w].phase = "run" /\ x.phase = "idle" /\ jobs' = jobs
    <2>1. CASE Receive(w)
      <3>1. [job |-> jobs, phase |-> "look", late |-> FALSE].phase = "look"
        OBVIOUS
      <3>2. QED
        BY <2>1, <3>1 DEF Receive
    <2>2. CASE Look(w)
      <3>1. \/ worker' = [worker EXCEPT ![w] = Idle]
            \/ worker' = [worker EXCEPT ![w] = [worker[w] EXCEPT !.phase = "run", !.late = cancelled]]
        BY <1>1, <2>2 DEF Look
      <3>2. /\ Idle.phase = "idle"
            /\ [worker[w] EXCEPT !.phase = "run", !.late = cancelled].phase = "run"
        BY <1>1 DEF Idle, Worker
      <3>3. worker[w].phase = "look" /\ jobs' = jobs
        BY <2>2 DEF Look
      <3>4. QED
        BY <3>1, <3>2, <3>3
    <2>3. CASE Return(w)
      <3>1. Idle.phase = "idle"
        BY DEF Idle
      <3>2. QED
        BY <2>3, <3>1 DEF Return
    <2>4. QED
      BY <2>1, <2>2, <2>3 DEF WorkerStep
  <1>7. worker'[w] = x /\ \A v \in Workers : v # w => worker'[v] = worker[v]
    BY <1>1, <1>6
  <1>8. CountIn(worker', "look") = CountIn(worker, "look")
          - (IF worker[w].phase = "look" THEN 1 ELSE 0) + (IF worker'[w].phase = "look" THEN 1 ELSE 0)
    BY <1>7, PhaseChange
  <1>9. CountIn(worker', "run") = CountIn(worker, "run")
          - (IF worker[w].phase = "run" THEN 1 ELSE 0) + (IF worker'[w].phase = "run" THEN 1 ELSE 0)
    BY <1>7, PhaseChange
  <1>10. /\ InPhase("look") = CountIn(worker, "look") /\ InPhase("run") = CountIn(worker, "run")
         /\ InPhase("look")' = CountIn(worker', "look") /\ InPhase("run")' = CountIn(worker', "run")
    BY DEF InPhase, CountIn
  <1>11. /\ InPhase("look")' = InPhase("look") - (IF worker[w].phase = "look" THEN 1 ELSE 0)
                                 + (IF x.phase = "look" THEN 1 ELSE 0)
         /\ InPhase("run")' = InPhase("run") - (IF worker[w].phase = "run" THEN 1 ELSE 0)
                                + (IF x.phase = "run" THEN 1 ELSE 0)
    BY <1>7, <1>8, <1>9, <1>10
  <1>12. QED
    BY <1>1, <1>4, <1>5, <1>6, <1>11

\* A step of the epoch's goroutine.
LEMMA EpochRunsOut ==
  ASSUME SearchInv, SearchInv', IsFiniteSet(Workers), EpochStep
  PROVE  StepsLeft' < StepsLeft
  <1> DEFINE Out(g) == (MaxGenerations - g) * (3 * PopSize + 3)
  <1>1. /\ Out(gen) \in Nat /\ PopSize \in Nat
        /\ StepsOut[pc] \in Nat /\ StepsOut[pc'] \in Nat
    <2>1. PopSize \in Nat /\ Out(gen) \in Nat
      BY LeftIsCounted
    <2>2. pc \in Pc /\ pc' \in Pc
      BY DEF SearchInv, TypeOK
    <2>3. QED
      BY <2>1, <2>2, StepsOutFrom DEF Pc
  <1>2. pc # "evaluate" => StepsLeft = Out(gen) + StepsOut[pc]
    BY <1>1 DEF StepsLeft
  <1>3. gen' = gen /\ pc' # "evaluate" => StepsLeft' = Out(gen) + StepsOut[pc']
    BY <1>1 DEF StepsLeft
  <1>4. pc = "evaluate" /\ Drained => StepsLeft = Out(gen) + 6
    <2> SUFFICES ASSUME pc = "evaluate", Drained
                 PROVE  StepsLeft = Out(gen) + 6
      OBVIOUS
    <2>1. PopSize + 1 - jobs = 0
      <3>1. PopSize \in Nat /\ jobs \in 1 .. PopSize + 1 /\ jobs > PopSize
        BY <1>1 DEF Drained, SearchInv, TypeOK
      <3>2. QED
        BY <3>1
    <2>2. \A w \in Workers : worker[w].phase = "idle"
      BY DEF Drained, Idle
    <2>3. InPhase("look") = 0 /\ InPhase("run") = 0
      BY <2>2, PhaseCount DEF InPhase, CountIn
    <2>4. QED
      BY <1>1, <2>1, <2>3, StepsOutFrom DEF StepsLeft
  <1>5. ASSUME NEW genes, Evaluates(genes), pc # "evaluate"
        PROVE  StepsLeft' = Out(gen') + 3 * PopSize + 6
    <2>1. pc' = "evaluate" /\ jobs' = 1 /\ worker' = worker
      BY <1>5 DEF Evaluates
    <2>2. \A w \in Workers : worker[w].phase = "idle"
      BY <1>5 DEF SearchInv, ShapeInv, Idle
    <2>3. InPhase("look")' = 0 /\ InPhase("run")' = 0
      <3>1. CountIn(worker, "look") = 0 /\ CountIn(worker, "run") = 0
        BY <2>2, PhaseCount
      <3>2. QED
        BY <2>1, <3>1 DEF InPhase, CountIn
    <2>4. Out(gen') \in Nat
      <3>1. gen' \in 0 .. MaxGenerations /\ MaxGenerations \in Nat
        BY SearchAssumption DEF SearchInv, TypeOK
      <3>2. MaxGenerations - gen' \in Nat
        <4>1. \A m \in Nat : \A n \in 0 .. m : m - n \in Nat
          OBVIOUS
        <4>2. QED
          BY <3>1, <4>1
      <3>3. 3 * PopSize + 3 \in Nat
        BY <1>1
      <3>4. QED
        BY <3>2, <3>3, GenerationsOut
    <2>5. QED
      BY <1>1, <2>1, <2>3, <2>4, StepsOutFrom DEF StepsLeft
  <1>6. CASE BuildPlan
    BY <1>1, <1>2, <1>3, <1>6, StepsOutFrom DEF BuildPlan, loopVars
  <1>7. CASE InitPopulation
    <2>1. pc = "populate" /\ gen' = gen /\ \E genes : Evaluates(genes)
      BY <1>7 DEF InitPopulation, loopVars
    <2>2. QED
      BY <1>1, <1>2, <1>5, <2>1, StepsOutFrom
  <1>8. CASE Collect
    BY <1>1, <1>3, <1>4, <1>8, StepsOutFrom DEF Collect
  <1>9. CASE Interrupted
    BY <1>1, <1>2, <1>3, <1>9, StepsOutFrom DEF Interrupted, loopVars
  <1>10. CASE Converge
    <2>1. pc = "check" /\ gen' = gen /\ pc' \in {"detail", "breed"}
      BY <1>10 DEF Converge
    <2>2. QED
      BY <1>1, <1>2, <1>3, <2>1, StepsOutFrom
  <1>11. CASE Breed
    <2>1. pc = "breed" /\ gen' = gen + 1 /\ \E genes : Evaluates(genes)
      BY <1>11 DEF Breed
    <2>2. Out(gen) = Out(gen') + 3 * PopSize + 3 /\ Out(gen') \in Nat
      <3>1. /\ MaxGenerations - gen' \in Nat /\ 3 * PopSize + 3 \in Nat
            /\ MaxGenerations - gen = (MaxGenerations - gen') + 1
        <4>1. /\ gen \in 0 .. MaxGenerations /\ gen' \in 0 .. MaxGenerations
              /\ MaxGenerations \in Nat
          BY SearchAssumption DEF SearchInv, TypeOK
        <4>2. QED
          BY <1>1, <2>1, <4>1
      <3>2. QED
        BY <1>1, <3>1, GenerationsOut
    <2>3. QED
      BY <1>1, <1>2, <1>5, <2>1, <2>2, StepsOutFrom
  <1>12. CASE Detail \/ Insert \/ Commit
    <2>1. /\ gen' = gen
          /\ \/ pc = "detail" /\ pc' = "insert"
             \/ pc = "insert" /\ pc' \in {"commit", "failed"}
             \/ pc = "commit" /\ pc' \in {"done", "failed"}
      BY <1>12 DEF Detail, Insert, Commit, loopVars
    <2>2. QED
      BY <1>1, <1>2, <1>3, <2>1, StepsOutFrom
  <1>13. QED
    BY <1>6, <1>7, <1>8, <1>9, <1>10, <1>11, <1>12 DEF EpochStep

\* However large the population and the cache, and however many workers race for
\* the jobs, an epoch makes finitely many steps: what is left of it is a natural
\* number that every step lowers, cancellation apart (engine.go:123, :328-354).
THEOREM EpochRunsDown ==
  ASSUME IsFiniteSet(Workers)
  PROVE  Spec => StepsRunOut
  <1>1. SearchInv => StepsLeft \in Nat
    BY LeftIsCounted
  <1>2. SearchInv /\ SearchInv' /\ (StepsLeft \in Nat)' /\ [Next]_vars =>
          [cancelled' # cancelled \/ (0 <= StepsLeft' /\ StepsLeft' < StepsLeft)]_vars
    <2> SUFFICES ASSUME SearchInv, SearchInv', (StepsLeft \in Nat)', Next,
                        cancelled' = cancelled
                 PROVE  0 <= StepsLeft' /\ StepsLeft' < StepsLeft
      OBVIOUS
    <2>1. EpochStep \/ \E w \in Workers : WorkerStep(w)
      BY DEF Next, Cancel
    <2>2. 0 <= StepsLeft'
      OBVIOUS
    <2>3. QED
      BY <2>1, <2>2, EpochRunsOut, WorkerRunsOut
  <1>3. QED
    BY SearchInvariant, <1>1, <1>2, PTL DEF Spec, StepsRunOut
=============================================================================
