----------------------------- MODULE NnFuzzers ------------------------------
(***************************************************************************)
(* The fuzz loops of several fuzzer instances (HeavyFuzzer with the        *)
(* CustomMutationalStage) on the feed of NnFeed, together with neural      *)
(* networks that only send inputs, none of them garbled.  The feed is what *)
(* the fuzz loops stand on, not what is shown of them here.  A fuzzer      *)
(* loads its seeds, then goes round: pick a test case, mutate and evaluate *)
(* it a number of times, publish what is new, and take in what the others  *)
(* have published.                                                         *)
(*                                                                         *)
(* Running an input is deterministic: it crashes, or it reaches a set of   *)
(* points of the coverage map, and is interesting to a fuzzer that has not *)
(* reached all of them.                                                    *)
(***************************************************************************)
EXTENDS Naturals, Sequences, FiniteSets

CONSTANTS
  Fuzzers,
  Peers,
  Inputs,
  Crashing,       \* inputs whose run is a crash or a timeout
  Points,         \* points of the coverage map, an edge with a hit count
  Reaches,        \* [Inputs -> SUBSET Points]
  SeedCount,      \* inputs a fuzzer starts from
  MaxIterations,  \* mutations of one test case in one stage: 128 in the code
  MaxSolutions,   \* bound: crashes the fuzzers find by themselves
  MaxInputs       \* bound: inputs a peer sends

ASSUME ClientsDisjoint == Fuzzers \cap Peers = {}
ASSUME CrashingInputs == Crashing \subseteq Inputs
ASSUME ReachesPoints == Reaches \in [Inputs -> SUBSET Points]
ASSUME CountsAreNat == {SeedCount, MaxIterations, MaxSolutions, MaxInputs} \subseteq Nat

Clients == Fuzzers \cup Peers

VARIABLES
  said,     \* [Clients -> Seq(Event)]  events fired by a client, inputs sent by a peer
  settled, log, inbox,  \* as in NnFeed
  pc,       \* [Fuzzers -> ...]  load, loop, stage, report, process, ended
  todo,     \* [Fuzzers -> Nat]  seeds or iterations still to do
  idx,      \* [Fuzzers -> Nat]  the test case of the present stage
  corpus,   \* [Fuzzers -> Seq([input, depth])]  depth 0: no MutationMeta
  seeded,   \* [Fuzzers -> Nat]  the size of the corpus after loading
  covered,  \* [Fuzzers -> SUBSET Points]  the history of the map feedback
  solutions, \* [Fuzzers -> Nat]
  maxDepth  \* [Fuzzers -> Nat]  max_depth of the stage

feedVars == <<settled, log, inbox>>
loopVars == <<pc, todo, idx>>
stateVars == <<corpus, seeded, covered, solutions>>
vars == <<said, feedVars, loopVars, stateVars, maxDepth>>

Feed == INSTANCE NnFeed WITH
  Remote <- {}, submitted <- [c \in Clients |-> Len(said[c])],
  joined <- Fuzzers \cup Peers, start <- [c \in Clients |-> 0]

Event ==
  [kind: {"NewTestcase"}, input: Inputs, size: Nat]
    \cup [kind: {"Objective"}, size: Nat]
    \cup [kind: {"UpdateUserStats"}, depth: Nat]

Init ==
  /\ said = [c \in Clients |-> <<>>]
  /\ Feed!Init
  /\ pc = [f \in Fuzzers |-> "load"]
  /\ todo = [f \in Fuzzers |-> SeedCount]
  /\ idx = [f \in Fuzzers |-> 1]
  /\ corpus = [f \in Fuzzers |-> <<>>]
  /\ seeded = [f \in Fuzzers |-> 0]
  /\ covered = [f \in Fuzzers |-> {}]
  /\ solutions = [f \in Fuzzers |-> 0]
  /\ maxDepth = [f \in Fuzzers |-> 0]

Goto(f, place, n) ==
  /\ pc' = [pc EXCEPT ![f] = place]
  /\ todo' = [todo EXCEPT ![f] = n]

-----------------------------------------------------------------------------
(* Evaluating one input: execute_input and process_execution *)

\* An event is a message of the feed as soon as it is fired.
Fire(c, event) == said' = [said EXCEPT ![c] = Append(@, event)]

TellAlways(c, event, send) == Fire(c, event)  \* mutant: send_events not looked at
Tell(c, event, send) == IF send THEN Fire(c, event) ELSE UNCHANGED said

NewTestcase(i, n) == [kind |-> "NewTestcase", input |-> i, size |-> n]

InterestingAlways(f, i) == TRUE  \* mutant: every input goes into the corpus
Interesting(f, i) == ~(Reaches[i] \subseteq covered[f])

IsSolution(i) == i \in Crashing
IsCorpus(f, i) == ~IsSolution(i) /\ Interesting(f, i)

\* A solution goes to the solutions and is announced, an interesting input goes
\* into the corpus and is announced, both only when the caller sends events.
\* Its depth is the caller's to add.
Process(f, i, tests, depth, send) ==
  \/ /\ IsSolution(i)
     /\ solutions' = [solutions EXCEPT ![f] = @ + 1]
     /\ corpus' = [corpus EXCEPT ![f] = tests]
     /\ UNCHANGED covered
     /\ Tell(f, [kind |-> "Objective", size |-> solutions[f] + 1], send)
  \/ /\ IsCorpus(f, i)
     /\ corpus' = [corpus EXCEPT ![f] = Append(tests, [input |-> i, depth |-> depth])]
     /\ covered' = [covered EXCEPT ![f] = @ \cup Reaches[i]]
     /\ UNCHANGED solutions
     /\ Tell(f, NewTestcase(i, Len(tests) + 1), send)
  \/ /\ ~IsSolution(i) /\ ~IsCorpus(f, i)
     /\ corpus' = [corpus EXCEPT ![f] = tests]
     /\ UNCHANGED <<said, covered, solutions>>

-----------------------------------------------------------------------------
(* A fuzzer *)

\* Found by this fuzzer itself: announced.  Taken in from others: not.
SendFoundNot == FALSE  \* mutant: finds are kept
SendFound == TRUE
SendImported == FALSE

Objectives(f) == {n \in DOMAIN said[f] : said[f][n].kind = "Objective"}
MayRun(i) ==
  IsSolution(i) => Cardinality(UNION {{f} \X Objectives(f) : f \in Fuzzers}) < MaxSolutions

\* One initial input, read from a directory or generated.
LoadSeed(f) ==
  /\ pc[f] = "load"
  /\ todo[f] > 0
  /\ \E i \in Inputs :
       /\ MayRun(i)
       /\ Process(f, i, corpus[f], 0, SendFound)
  /\ seeded' = [seeded EXCEPT ![f] = Len(corpus'[f])]
  /\ Goto(f, "load", todo[f] - 1)
  /\ UNCHANGED <<feedVars, idx, maxDepth>>

\* The loop begins; without a single test case the scheduler fails at once.
LoadDone(f) ==
  /\ pc[f] = "load"
  /\ todo[f] = 0
  /\ Goto(f, IF corpus[f] = <<>> THEN "ended" ELSE "loop", 0)
  /\ UNCHANGED <<said, feedVars, idx, stateVars, maxDepth>>

\* fuzz_one: the scheduler picks any test case, the stage a number of rounds.
SchedulableFromZero(f) == 0..(Len(corpus[f]) - 1)  \* mutant: off by one
Schedulable(f) == DOMAIN corpus[f]
FuzzOne(f) ==
  /\ pc[f] = "loop"
  /\ \E i \in Schedulable(f), n \in 1..MaxIterations :
       /\ idx' = [idx EXCEPT ![f] = i]
       /\ Goto(f, "stage", n)
  /\ UNCHANGED <<said, feedVars, stateVars, maxDepth>>

\* One iteration of perform_mutational.  The parent gets depth 1 if it has none
\* yet, a new test case is one deeper than its parent, and a depth never seen
\* before is to be reported.
ParentDepth(f) == LET d == corpus[f][idx[f]].depth IN IF d = 0 THEN 1 ELSE d
DeeperAlways(f, d) == TRUE  \* mutant: every depth is reported
Deeper(f, d) == maxDepth[f] < d
Mutate(f) ==
  /\ pc[f] = "stage"
  /\ todo[f] > 0
  /\ LET depth == ParentDepth(f) + 1
         tests == [corpus[f] EXCEPT ![idx[f]].depth = ParentDepth(f)]
     IN  \E i \in Inputs :
           /\ MayRun(i)
           /\ Process(f, i, tests, depth, SendFound)
           /\ IF IsCorpus(f, i) /\ Deeper(f, depth)
              THEN /\ maxDepth' = [maxDepth EXCEPT ![f] = depth]
                   /\ Goto(f, "report", todo[f] - 1)
              ELSE /\ UNCHANGED maxDepth
                   /\ Goto(f, "stage", todo[f] - 1)
  /\ UNCHANGED <<feedVars, idx, seeded>>

Report(f) ==
  /\ pc[f] = "report"
  /\ Fire(f, [kind |-> "UpdateUserStats", depth |-> maxDepth[f]])
  /\ Goto(f, "stage", todo[f])
  /\ UNCHANGED <<feedVars, idx, stateVars, maxDepth>>

StageDone(f) ==
  /\ pc[f] = "stage"
  /\ todo[f] = 0
  /\ Goto(f, "process", 0)
  /\ idx' = [idx EXCEPT ![f] = 1]
  /\ UNCHANGED <<said, feedVars, stateVars, maxDepth>>

\* The event manager takes in the next test case of another client ...
InputAt(p) == said[log[p].client][log[p].n].input
Ahead(f) == {p \in (Feed!Reached(f) + 1)..Len(log) : log[p].client # f}
Import(f) ==
  /\ pc[f] = "process"
  /\ \E p \in Ahead(f) :
       /\ \A q \in Ahead(f) : p <= q
       /\ Process(f, InputAt(p), corpus[f], 0, SendImported)
       /\ inbox' = [inbox EXCEPT ![f] = Append(@, p)]
  /\ UNCHANGED <<settled, log, loopVars, seeded, maxDepth>>

\* ... until there is none left.
ProcessDone(f) ==
  /\ pc[f] = "process"
  /\ Ahead(f) = {}
  /\ Goto(f, "loop", 0)
  /\ UNCHANGED <<said, feedVars, idx, stateVars, maxDepth>>

-----------------------------------------------------------------------------
(* The broker and the peers, as the feed *)

BrokerMsg(c) ==
  /\ settled[c] < Len(said[c])
  /\ UNCHANGED said
  /\ IF said[c][settled[c] + 1].kind = "NewTestcase" THEN Feed!Publish(c) ELSE Feed!Keep(c)
  /\ UNCHANGED <<loopVars, stateVars, maxDepth>>

PeerSend(k) ==
  /\ Len(said[k]) < MaxInputs
  /\ \E i \in Inputs : Fire(k, NewTestcase(i, 0))
  /\ UNCHANGED <<feedVars, loopVars, stateVars, maxDepth>>

-----------------------------------------------------------------------------
Fuzz(f) ==
  \/ LoadSeed(f) \/ LoadDone(f) \/ FuzzOne(f) \/ Mutate(f) \/ Report(f)
  \/ StageDone(f) \/ Import(f) \/ ProcessDone(f)

Next ==
  \/ \E f \in Fuzzers : Fuzz(f)
  \/ \E c \in Clients : BrokerMsg(c)
  \/ \E k \in Peers : PeerSend(k)

Spec == Init /\ [][Next]_vars

\* Fuzzers loop for ever and the broker polls all clients.
FairSpec ==
  /\ Spec
  /\ \A f \in Fuzzers : WF_vars(Fuzz(f))
  /\ \A c \in Clients : WF_vars(BrokerMsg(c))

-----------------------------------------------------------------------------
\* Every variable has its type.
TypeOK ==
  /\ said \in [Clients -> Seq(Event)]
  /\ settled \in [Clients -> Nat]
  /\ log \in Seq([client: Clients, n: Nat])
  /\ inbox \in [Clients -> Seq(Nat)]
  /\ pc \in [Fuzzers -> {"load", "loop", "stage", "report", "process", "ended"}]
  /\ todo \in [Fuzzers -> Nat]
  /\ idx \in [Fuzzers -> Nat \ {0}]
  /\ corpus \in [Fuzzers -> Seq([input: Inputs, depth: Nat])]
  /\ seeded \in [Fuzzers -> Nat]
  /\ covered \in [Fuzzers -> SUBSET Points]
  /\ solutions \in [Fuzzers -> Nat]
  /\ maxDepth \in [Fuzzers -> Nat]

Announced(f, s) == {n \in DOMAIN said[f] :
                      said[f][n].kind = "NewTestcase" /\ said[f][n].size = s}

\* A fuzzer announces a test case exactly if it was one of its seeds or it found
\* it by mutation, once, with the corpus size it had then: what it took in from
\* others, which has no depth above 1, is not passed on, so test cases do not
\* circle between fuzzers and no network gets its own inputs back.
AnnouncesOwnFinds ==
  \A f \in Fuzzers :
    /\ \A n \in DOMAIN said[f] : said[f][n].kind = "NewTestcase" =>
         /\ said[f][n].size \in DOMAIN corpus[f]
         /\ corpus[f][said[f][n].size].input = said[f][n].input
    /\ \A s \in DOMAIN corpus[f] :
         Cardinality(Announced(f, s)) = IF s <= seeded[f] \/ corpus[f][s].depth >= 2 THEN 1 ELSE 0

\* The map history is what the corpus has reached, and each test case of the
\* corpus, also one that another fuzzer had found interesting, reached something
\* that none before it did.  Crashes leave no trace in either.
EveryTestcaseCounts ==
  \A f \in Fuzzers :
    LET reached(s) == UNION {Reaches[corpus[f][r].input] : r \in 1..s}
    IN  /\ covered[f] = reached(Len(corpus[f]))
        /\ \A s \in DOMAIN corpus[f] :
             /\ corpus[f][s].input \notin Crashing
             /\ ~(Reaches[corpus[f][s].input] \subseteq reached(s - 1))

\* The monitor's max_depth: a fuzzer reports 2, 3, 4 and so on without a gap or a
\* repetition, each the depth of one of its test cases, and the last one reported,
\* or about to be, is that of its longest chain of mutations.
Reports(f) == {n \in DOMAIN said[f] : said[f][n].kind = "UpdateUserStats"}
DepthsReported ==
  \A f \in Fuzzers :
    LET depths == {corpus[f][s].depth : s \in DOMAIN corpus[f]}
    IN  /\ \A n \in Reports(f) :
             /\ said[f][n].depth = Cardinality({m \in Reports(f) : m < n}) + 2
             /\ said[f][n].depth \in depths
        /\ \A d \in depths : \/ d <= Cardinality(Reports(f)) + 1
                             \/ pc[f] = "report" /\ d = maxDepth[f]

\* The solutions of a fuzzer are those it announced and those that came from
\* neural networks, of which the monitor does not learn; no fuzzer makes another
\* one run a crash.
SolutionsAccounted ==
  \A f \in Fuzzers :
    LET crashes == {q \in DOMAIN inbox[f] : InputAt(inbox[f][q]) \in Crashing}
    IN  /\ solutions[f] = Cardinality(Objectives(f)) + Cardinality(crashes)
        /\ \A q \in crashes : log[inbox[f][q]].client \in Peers

\* Whatever point one fuzzer reaches, by itself or with an input of a network,
\* all fuzzers reach in the end, but those that stopped for want of a seed.
CoverageConverges ==
  <>[](\A f, g \in Fuzzers : pc[g] # "ended" => covered[f] \subseteq covered[g])
=============================================================================
