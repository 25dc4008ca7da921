--------------------------- MODULE LearningEngines ---------------------------
(***************************************************************************)
(* Genetic and Mesh (engines/genetic/genetic_engine.py, mesh/mesh_engine.py)*)
(* and their SQLite: each with a file of its own, or both on the one       *)
(* connection of the merged learning module (consolidated/learning.py,     *)
(* shared.py), where the commit of one commits what the other has left     *)
(* open.                                                                   *)
(*                                                                         *)
(* A genome is its number, its fitness and its generation; what crossover  *)
(* and mutation do to the parameters, and what a report says, is left out. *)
(* No call awaits: an error at any statement is what can come in between.  *)
(***************************************************************************)
EXTENDS Naturals, Sequences, FiniteSets, SequencesExt

CONSTANTS
  PopulationSize,  \* genomes that are seeded
  ReplaceCount,    \* REPLACE_COUNT
  TopFitness,      \* fitness values, 0..TopFitness
  MaxGenomes,      \* bound: genomes numbered in a behaviour
  MaxRows,         \* bound: reports stored
  SharedModes      \* whether the engines share a connection: the cases explored

ASSUME LearningAssumption ==
  /\ ReplaceCount \in Nat \ {0}
  /\ PopulationSize \in Nat /\ PopulationSize >= 2 * ReplaceCount
  /\ SharedModes \subseteq BOOLEAN /\ TopFitness \in Nat
  /\ MaxGenomes \in Nat /\ MaxGenomes >= PopulationSize /\ MaxRows \in Nat

VARIABLES
  shared,      \* shared_db is set
  disk,        \* what is committed: [genomes, rows, policies]
  work,        \* what the open transactions have made of it
  population,  \* Genetic's list, in memory
  generation,
  counter,     \* _id_counter
  degraded,    \* of "genetic" and "mesh"
  frozen       \* history: the genomes on disk when Genetic degraded

learningVars == <<shared, disk, work, population, generation, counter, degraded, frozen>>

Engines == {"genetic", "mesh"}
Genome(n, fit, gen) == [id |-> n, fitness |-> fit, generation |-> gen]

(* A commit by engine e of what it has made of the tables; on a shared     *)
(* connection the other's statements go with it.                           *)
Committed(e, w) ==
  IF shared THEN w
  ELSE IF e = "genetic" THEN [disk EXCEPT !.genomes = w.genomes]
  ELSE [disk EXCEPT !.rows = w.rows, !.policies = w.policies]

Seeded == [i \in 1..PopulationSize |-> Genome(i, 0, 0)]

LearningInit ==
  /\ shared \in SharedModes
  /\ disk = [genomes |-> Range(Seeded), rows |-> 0, policies |-> 0]
  /\ work = disk
  /\ population = Seeded /\ generation = 0 /\ counter = PopulationSize
  /\ degraded = [e \in Engines |-> FALSE]
  /\ frozen = {}

Degrades(e) ==
  /\ degraded' = [degraded EXCEPT ![e] = TRUE]
  /\ frozen' = IF e = "genetic" THEN disk.genomes ELSE frozen

-----------------------------------------------------------------------------
(* A set in the order of a relation: k - 1 of it come before the k-th.     *)
InOrder(S, before) ==
  [k \in 1..Cardinality(S) |->
     CHOOSE x \in S : Cardinality({y \in S : <<y, x>> \in before}) = k - 1]

(* The list by falling fitness, ties as they were.                         *)
ByFitness(p) ==
  {e \in (DOMAIN p) \X (DOMAIN p) :
     \/ p[e[1]].fitness > p[e[2]].fitness
     \/ p[e[1]].fitness = p[e[2]].fitness /\ e[1] < e[2]}
Sorted(p) == [k \in DOMAIN p |-> p[InOrder(DOMAIN p, ByFitness(p))[k]]]

Survivors(p) == SubSeq(Sorted(p), 1, Len(p) - ReplaceCount)
Doomed(p)    == Range(SubSeq(Sorted(p), Len(p) - ReplaceCount + 1, Len(p)))
Children     == [i \in 1..ReplaceCount |-> Genome(counter + i, 0, generation + 1)]

(* Mutant of Deleted: the statements commit themselves.                    *)
DeletedAtOnce(gs) ==
  /\ work' = [work EXCEPT !.genomes = @ \ gs]
  /\ disk' = Committed("genetic", [work EXCEPT !.genomes = @ \ gs])

Deleted(gs) == work' = [work EXCEPT !.genomes = @ \ gs] /\ UNCHANGED disk

(* The bottom ones out, children of the top ones in.                       *)
Evolve ==
  /\ ~degraded["genetic"] /\ Len(population) >= 2 * ReplaceCount
  /\ counter + ReplaceCount <= MaxGenomes
  /\ work' = [work EXCEPT !.genomes = (@ \ Doomed(population)) \cup Range(Children)]
  /\ disk' = Committed("genetic", work')
  /\ population' = Survivors(population) \o Children
  /\ generation' = generation + 1
  /\ counter' = counter + ReplaceCount
  /\ UNCHANGED <<shared, degraded, frozen>>

(* The disk is full, or the database is locked, at a statement: before     *)
(* anything, after the deletes, or at the commit, when memory has moved on.*)
EvolveFailsAtDeletes ==
  /\ ~degraded["genetic"] /\ Len(population) >= 2 * ReplaceCount
  /\ counter + ReplaceCount <= MaxGenomes
  /\ \E gs \in SUBSET Doomed(population) : Deleted(gs)
  /\ counter' = counter + ReplaceCount
  /\ Degrades("genetic")
  /\ UNCHANGED <<shared, population, generation>>

EvolveFailsAtCommit ==
  /\ ~degraded["genetic"] /\ Len(population) >= 2 * ReplaceCount
  /\ counter + ReplaceCount <= MaxGenomes
  /\ work' = [work EXCEPT !.genomes = (@ \ Doomed(population)) \cup Range(Children)]
  /\ population' = Survivors(population) \o Children
  /\ generation' = generation + 1
  /\ counter' = counter + ReplaceCount
  /\ Degrades("genetic")
  /\ UNCHANGED <<shared, disk>>

(* The file of a standalone engine has reached its cap.                    *)
VolumeReached(e) ==
  /\ ~shared /\ ~degraded[e]
  /\ Degrades(e)
  /\ UNCHANGED <<shared, disk, work, population, generation, counter>>

(* Fresh statistics give some genomes a new fitness; a failure leaves what *)
(* was stored open, and degrades nothing.                                  *)
Refit(is, fit) == [i \in DOMAIN population |->
                     IF i \in is THEN [population[i] EXCEPT !.fitness = fit] ELSE population[i]]
Stored(is, fit) ==
  [work EXCEPT !.genomes =
     {g \in @ : \A i \in is : g.id # population[i].id} \cup {Refit(is, fit)[i] : i \in is}]

FitnessUpdated(is, fit, ok) ==
  /\ ~degraded["genetic"]
  /\ is # {} /\ is \subseteq DOMAIN population
  /\ population' = Refit(is, fit)
  /\ work' = Stored(is, fit)
  /\ disk' = IF ok THEN Committed("genetic", work') ELSE disk
  /\ UNCHANGED <<shared, generation, counter, degraded, frozen>>

-----------------------------------------------------------------------------
(* A report is a row; an error degrades Mesh.                              *)
ReportStored(ok) ==
  /\ ~degraded["mesh"] /\ work.rows < MaxRows
  /\ work' = [work EXCEPT !.rows = @ + 1]
  /\ IF ok THEN disk' = Committed("mesh", work') /\ UNCHANGED <<degraded, frozen>>
     ELSE Degrades("mesh") /\ UNCHANGED disk
  /\ UNCHANGED <<shared, population, generation, counter>>

(* A sweep makes the policies from the rows and prunes the old ones; an    *)
(* error is logged, and what was written waits for the next commit.        *)
Aggregate(pruned, ok) ==
  /\ ~degraded["mesh"] /\ work.rows > 0 /\ pruned \in 0..work.rows
  /\ work' = [work EXCEPT !.policies = work.rows, !.rows = @ - pruned]
  /\ disk' = IF ok THEN Committed("mesh", work') ELSE disk
  /\ UNCHANGED <<shared, population, generation, counter, degraded, frozen>>

-----------------------------------------------------------------------------
ByNumber(gs) == {e \in gs \X gs : e[1].id < e[2].id}

(* A stop or a kill, and the next start: what was not committed is gone,   *)
(* and an empty table is seeded.  The order of the rows is the table's.    *)
Restart ==
  LET loaded == IF disk.genomes = {} THEN Seeded
                ELSE InOrder(disk.genomes, ByNumber(disk.genomes))
  IN /\ population' = loaded
     /\ disk' = [disk EXCEPT !.genomes = Range(loaded)]
     /\ work' = disk'
     /\ generation' = CHOOSE n \in {g.generation : g \in Range(loaded)} :
                        \A g \in Range(loaded) : n >= g.generation
     /\ counter' = Last(loaded).id
     /\ degraded' = [e \in Engines |-> FALSE]
     /\ frozen' = {}
     /\ UNCHANGED shared

(* The database cannot be opened: both run without.                        *)
OpenFails ==
  /\ work' = disk
  /\ population' = <<>> /\ generation' = 0 /\ counter' = 0
  /\ degraded' = [e \in Engines |-> TRUE]
  /\ frozen' = disk.genomes
  /\ UNCHANGED <<shared, disk>>

-----------------------------------------------------------------------------
LearningTypeOK ==
  /\ shared \in BOOLEAN
  /\ counter \in 0..MaxGenomes /\ Len(population) <= PopulationSize
  /\ work.rows \in 0..MaxRows /\ disk.rows \in 0..MaxRows
  /\ degraded \in [Engines -> BOOLEAN]

(* No two genomes of the file, or of memory, have the same number, whatever*)
(* failed and however often the numbering started again.                   *)
NumbersUnique ==
  /\ \A g, h \in disk.genomes : g.id = h.id => g = h
  /\ \A i, j \in DOMAIN population : i # j => population[i].id # population[j].id

(* "DEGRADED - population frozen read-only": with a file of its own, a     *)
(* Genetic that gave up changes the file no more, and the file holds the   *)
(* whole population whatever failed before.                                *)
PopulationKept ==
  ~shared => /\ Cardinality(disk.genomes) = PopulationSize
             /\ degraded["genetic"] => disk.genomes = frozen

GenomesKept == NumbersUnique /\ PopulationKept
=============================================================================
