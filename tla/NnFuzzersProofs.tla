-------------------------- MODULE NnFuzzersProofs --------------------------
(***************************************************************************)
(* Theorems about NnFuzzers, for any fuzzers, networks, target and bounds. *)
(***************************************************************************)
EXTENDS NnFuzzers, FiniteSetTheorems, TLAPS

Test == [input: Inputs, depth: Nat]
Entry == [client: Clients, n: Nat]
Places == {"load", "loop", "stage", "report", "process", "ended"}

\* The feed is behind what was said, and shows test cases only.
FeedPlaces ==
  /\ \A c \in Clients : settled[c] <= Len(said[c])
  /\ \A p \in DOMAIN log :
       /\ log[p].n \in DOMAIN said[log[p].client]
       /\ said[log[p].client][log[p].n].kind = "NewTestcase"
  /\ \A c \in Clients : \A q \in DOMAIN inbox[c] : inbox[c][q] \in DOMAIN log

\* A stage has its test case in the corpus, which grew from what was loaded.
LoopPlaces ==
  \A f \in Fuzzers :
    /\ pc[f] \in {"stage", "report"} => idx[f] \in DOMAIN corpus[f]
    /\ seeded[f] <= Len(corpus[f])
    /\ pc[f] = "load" => seeded[f] = Len(corpus[f])

BaseInv == TypeOK /\ FeedPlaces /\ LoopPlaces

-----------------------------------------------------------------------------
(* Events and evaluations *)

LEMMA EventFields ==
  /\ \A e \in Event : e.kind \in {"NewTestcase", "Objective", "UpdateUserStats"}
  /\ \A e \in Event : e.kind = "NewTestcase" => e.input \in Inputs /\ e.size \in Nat
  /\ \A i \in Inputs, n \in Nat :
       /\ NewTestcase(i, n) \in Event /\ NewTestcase(i, n).kind = "NewTestcase"
       /\ NewTestcase(i, n).input = i /\ NewTestcase(i, n).size = n
  /\ \A n \in Nat : [kind |-> "Objective", size |-> n] \in Event
  /\ \A n \in Nat : [kind |-> "UpdateUserStats", depth |-> n] \in Event
BY DEF Event, NewTestcase

\* The corpus with metadata given to tests that had none.
SameTests(f, tests) ==
  /\ tests \in Seq(Test)
  /\ Len(tests) = Len(corpus[f])
  /\ \A s \in DOMAIN corpus[f] :
       /\ tests[s].input = corpus[f][s].input
       /\ \/ tests[s].depth = corpus[f][s].depth
          \/ corpus[f][s].depth = 0 /\ tests[s].depth = 1

Evaluates(f, i, tests, depth, send) ==
  /\ i \in Inputs /\ depth \in Nat /\ send \in BOOLEAN
  /\ SameTests(f, tests)
  /\ Process(f, i, tests, depth, send)

\* What one evaluation does to each fuzzer's state.
LEMMA EvaluateOutcome ==
  ASSUME TypeOK, NEW f \in Fuzzers, NEW i, NEW tests, NEW depth, NEW send,
         Evaluates(f, i, tests, depth, send)
  PROVE  \/ /\ i \in Crashing
            /\ solutions' = [solutions EXCEPT ![f] = @ + 1]
            /\ corpus' = [corpus EXCEPT ![f] = tests]
            /\ covered' = covered
            /\ send => said' = [said EXCEPT ![f] =
                 Append(@, [kind |-> "Objective", size |-> solutions[f] + 1])]
            /\ ~send => said' = said
         \/ /\ i \notin Crashing /\ ~(Reaches[i] \subseteq covered[f])
            /\ corpus' = [corpus EXCEPT ![f] = Append(tests, [input |-> i, depth |-> depth])]
            /\ covered' = [covered EXCEPT ![f] = @ \cup Reaches[i]]
            /\ solutions' = solutions
            /\ send => said' = [said EXCEPT ![f] = Append(@, NewTestcase(i, Len(tests) + 1))]
            /\ ~send => said' = said
         \/ /\ i \notin Crashing /\ Reaches[i] \subseteq covered[f]
            /\ corpus' = [corpus EXCEPT ![f] = tests]
            /\ said' = said /\ covered' = covered /\ solutions' = solutions
BY DEF Evaluates, Process, IsSolution, IsCorpus, Interesting, Tell, Fire

\* Loading and importing leave the tests as they are.
LEMMA CorpusIsSame ==
  ASSUME TypeOK, NEW f \in Fuzzers
  PROVE  SameTests(f, corpus[f])
BY DEF TypeOK, SameTests, Test

\* A stage gives its test case depth 1 if it had none.
LEMMA ParentIsSame ==
  ASSUME TypeOK, NEW f \in Fuzzers, idx[f] \in DOMAIN corpus[f]
  PROVE  /\ ParentDepth(f) \in Nat /\ ParentDepth(f) >= 1
         /\ SameTests(f, [corpus[f] EXCEPT ![idx[f]].depth = ParentDepth(f)])
<1> DEFINE tests == [corpus[f] EXCEPT ![idx[f]].depth = ParentDepth(f)]
<1>1. corpus[f] \in Seq(Test) BY DEF TypeOK, Test
<1>2. /\ corpus[f][idx[f]] \in Test /\ corpus[f][idx[f]].depth \in Nat
  <2>1. corpus[f][idx[f]] \in Test BY <1>1
  <2> QED BY <2>1 DEF Test
<1>3. ParentDepth(f) \in Nat /\ ParentDepth(f) >= 1 BY <1>2 DEF ParentDepth
<1>4. /\ DOMAIN tests = DOMAIN corpus[f]
      /\ \A s \in DOMAIN corpus[f] : s # idx[f] => tests[s] = corpus[f][s]
      /\ tests[idx[f]] = [corpus[f][idx[f]] EXCEPT !.depth = ParentDepth(f)]
  BY <1>1
<1>5. /\ tests[idx[f]] \in Test /\ tests[idx[f]].input = corpus[f][idx[f]].input
      /\ tests[idx[f]].depth = ParentDepth(f)
  BY <1>2, <1>3, <1>4 DEF Test
<1>6. /\ Len(corpus[f]) \in Nat /\ DOMAIN corpus[f] = 1..Len(corpus[f])
      /\ \A s \in DOMAIN corpus[f] : corpus[f][s] \in Test
  BY <1>1
<1>7. tests = [s \in 1..Len(corpus[f]) |-> tests[s]] BY <1>4, <1>6
<1>8. \A s \in 1..Len(corpus[f]) : tests[s] \in Test BY <1>4, <1>5, <1>6
<1> HIDE DEF tests
<1>9. tests \in Seq(Test) /\ Len(tests) = Len(corpus[f]) BY <1>6, <1>7, <1>8
<1>10. \/ ParentDepth(f) = corpus[f][idx[f]].depth
       \/ corpus[f][idx[f]].depth = 0 /\ ParentDepth(f) = 1
  <2>1. CASE corpus[f][idx[f]].depth = 0 BY <2>1 DEF ParentDepth
  <2>2. CASE corpus[f][idx[f]].depth # 0 BY <2>2 DEF ParentDepth
  <2> QED BY <2>1, <2>2
<1>11. SameTests(f, tests) BY <1>4, <1>5, <1>9, <1>10 DEF SameTests
<1> QED BY <1>3, <1>11 DEF tests

LEMMA LoadEvaluates ==
  ASSUME TypeOK, NEW f \in Fuzzers, LoadSeed(f)
  PROVE  /\ \E i : Evaluates(f, i, corpus[f], 0, TRUE)
         /\ pc[f] = "load" /\ todo[f] > 0
         /\ seeded' = [seeded EXCEPT ![f] = Len(corpus'[f])]
         /\ pc' = [pc EXCEPT ![f] = "load"] /\ todo' = [todo EXCEPT ![f] = todo[f] - 1]
         /\ UNCHANGED <<feedVars, idx, maxDepth>>
BY CorpusIsSame DEF LoadSeed, Evaluates, SendFound, Goto

LEMMA MutateEvaluates ==
  ASSUME TypeOK, LoopPlaces, NEW f \in Fuzzers, Mutate(f)
  PROVE  /\ \E i : /\ Evaluates(f, i, [corpus[f] EXCEPT ![idx[f]].depth = ParentDepth(f)],
                                ParentDepth(f) + 1, TRUE)
                   /\ IF IsCorpus(f, i) /\ Deeper(f, ParentDepth(f) + 1)
                      THEN /\ maxDepth' = [maxDepth EXCEPT ![f] = ParentDepth(f) + 1]
                           /\ pc' = [pc EXCEPT ![f] = "report"]
                      ELSE /\ maxDepth' = maxDepth
                           /\ pc' = [pc EXCEPT ![f] = "stage"]
         /\ pc[f] = "stage" /\ todo[f] > 0 /\ todo' = [todo EXCEPT ![f] = todo[f] - 1]
         /\ UNCHANGED <<feedVars, idx, seeded>>
<1>1. pc[f] = "stage" /\ todo[f] > 0 /\ UNCHANGED <<feedVars, idx, seeded>>
  BY DEF Mutate
<1>2. idx[f] \in DOMAIN corpus[f] BY <1>1 DEF LoopPlaces
<1> DEFINE tests == [corpus[f] EXCEPT ![idx[f]].depth = ParentDepth(f)]
<1>3. SameTests(f, tests) /\ ParentDepth(f) + 1 \in Nat BY <1>2, ParentIsSame
<1>4. PICK i \in Inputs :
        /\ Process(f, i, tests, ParentDepth(f) + 1, SendFound)
        /\ IF IsCorpus(f, i) /\ Deeper(f, ParentDepth(f) + 1)
           THEN /\ maxDepth' = [maxDepth EXCEPT ![f] = ParentDepth(f) + 1]
                /\ Goto(f, "report", todo[f] - 1)
           ELSE /\ UNCHANGED maxDepth
                /\ Goto(f, "stage", todo[f] - 1)
  BY DEF Mutate
<1>5. Evaluates(f, i, tests, ParentDepth(f) + 1, TRUE) BY <1>3, <1>4 DEF Evaluates, SendFound
<1>6. todo' = [todo EXCEPT ![f] = todo[f] - 1] BY <1>4 DEF Goto
<1>7. IF IsCorpus(f, i) /\ Deeper(f, ParentDepth(f) + 1)
      THEN /\ maxDepth' = [maxDepth EXCEPT ![f] = ParentDepth(f) + 1]
           /\ pc' = [pc EXCEPT ![f] = "report"]
      ELSE /\ maxDepth' = maxDepth
           /\ pc' = [pc EXCEPT ![f] = "stage"]
  BY <1>4 DEF Goto
<1> QED BY <1>1, <1>5, <1>6, <1>7

\* The event manager is at the first position of another client it has not had.
LEMMA ImportEvaluates ==
  ASSUME BaseInv, NEW f \in Fuzzers, Import(f)
  PROVE  \E p \in DOMAIN log :
           /\ log[p].client # f
           /\ Evaluates(f, InputAt(p), corpus[f], 0, FALSE)
           /\ inbox' = [inbox EXCEPT ![f] = Append(@, p)]
           /\ pc[f] = "process"
           /\ UNCHANGED <<settled, log, loopVars, seeded, maxDepth>>
<1>1. pc[f] = "process" /\ UNCHANGED <<settled, log, loopVars, seeded, maxDepth>>
  BY DEF Import
<1>2. PICK p \in Ahead(f) :
        /\ Process(f, InputAt(p), corpus[f], 0, SendImported)
        /\ inbox' = [inbox EXCEPT ![f] = Append(@, p)]
  BY DEF Import
<1>3. /\ inbox[f] \in Seq(Nat) /\ log \in Seq(Entry) /\ said \in [Clients -> Seq(Event)]
  BY DEF BaseInv, TypeOK, Clients, Entry
<1>4. Feed!Reached(f) \in Nat
  <2>1. CASE inbox[f] = <<>> BY <2>1 DEF Feed!Reached, Clients
  <2>2. CASE inbox[f] # <<>>
    <3>1. inbox[f][Len(inbox[f])] \in Nat BY <1>3, <2>2
    <3> QED BY <2>2, <3>1 DEF Feed!Reached
  <2> QED BY <2>1, <2>2
<1>5. p \in DOMAIN log /\ log[p].client # f BY <1>2, <1>3, <1>4 DEF Ahead
<1>6. InputAt(p) \in Inputs
  <2>0. log[p] \in Entry BY <1>3, <1>5
  <2>1. log[p].client \in Clients BY <2>0 DEF Entry
  <2>2. /\ log[p].n \in DOMAIN said[log[p].client]
        /\ said[log[p].client][log[p].n].kind = "NewTestcase"
    BY <1>5 DEF BaseInv, FeedPlaces
  <2>3. said[log[p].client][log[p].n] \in Event BY <1>3, <2>1, <2>2
  <2> QED BY <2>2, <2>3, EventFields DEF InputAt
<1>7. Evaluates(f, InputAt(p), corpus[f], 0, FALSE)
  BY <1>2, <1>6, CorpusIsSame DEF Evaluates, SendImported, BaseInv
<1> QED BY <1>1, <1>2, <1>5, <1>7

-----------------------------------------------------------------------------
(* The base invariant *)

SaidGrows ==
  \A c \in Clients :
    /\ DOMAIN said[c] \subseteq DOMAIN said'[c]
    /\ Len(said[c]) <= Len(said'[c])
    /\ \A n \in DOMAIN said[c] : said'[c][n] = said[c][n]

LEMMA FireGrows ==
  ASSUME TypeOK, NEW c \in Clients, NEW e \in Event,
         said' = [said EXCEPT ![c] = Append(@, e)]
  PROVE  /\ said' \in [Clients -> Seq(Event)] /\ SaidGrows
         /\ DOMAIN said'[c] = DOMAIN said[c] \cup {Len(said[c]) + 1}
         /\ Len(said[c]) + 1 \notin DOMAIN said[c] /\ Len(said[c]) + 1 \in Nat
         /\ said'[c][Len(said[c]) + 1] = e
         /\ \A d \in Clients : d # c => said'[d] = said[d]
<1>1. said \in [Clients -> Seq(Event)] BY DEF TypeOK
<1>2. said[c] \in Seq(Event) /\ Len(said[c]) \in Nat /\ DOMAIN said[c] = 1..Len(said[c])
  BY <1>1
<1>3. said'[c] = Append(said[c], e) /\ \A d \in Clients : d # c => said'[d] = said[d]
  BY <1>1
<1>4. /\ said'[c] \in Seq(Event) /\ Len(said'[c]) = Len(said[c]) + 1
      /\ DOMAIN said'[c] = 1..(Len(said[c]) + 1)
      /\ \A n \in DOMAIN said[c] : said'[c][n] = said[c][n]
      /\ said'[c][Len(said[c]) + 1] = e
  BY <1>2, <1>3
<1>5. SaidGrows
  <2> SUFFICES ASSUME NEW d \in Clients
               PROVE  /\ DOMAIN said[d] \subseteq DOMAIN said'[d]
                      /\ Len(said[d]) <= Len(said'[d])
                      /\ \A n \in DOMAIN said[d] : said'[d][n] = said[d][n]
    BY DEF SaidGrows
  <2>1. CASE d = c BY <1>2, <1>4, <2>1
  <2>2. CASE d # c
    <3>1. said[d] \in Seq(Event) /\ said'[d] = said[d] BY <1>1, <1>3, <2>2
    <3> QED BY <3>1
  <2> QED BY <2>1, <2>2
<1>6. said' \in [Clients -> Seq(Event)] BY <1>1, <1>3, <1>4
<1> QED BY <1>2, <1>3, <1>4, <1>5, <1>6

LEMMA SameGrows ==
  ASSUME TypeOK, said' = said
  PROVE  SaidGrows
<1> SUFFICES ASSUME NEW c \in Clients PROVE Len(said[c]) \in Nat
  BY DEF SaidGrows
<1> QED BY DEF TypeOK

LEMMA EvaluateGrows ==
  ASSUME TypeOK, NEW f \in Fuzzers, NEW i, NEW tests, NEW depth, NEW send,
         Evaluates(f, i, tests, depth, send)
  PROVE  /\ said' \in [Clients -> Seq(Event)] /\ SaidGrows
         /\ corpus' \in [Fuzzers -> Seq(Test)]
         /\ Len(corpus[f]) <= Len(corpus'[f])
         /\ \A g \in Fuzzers : g # f => corpus'[g] = corpus[g]
         /\ covered' \in [Fuzzers -> SUBSET Points]
         /\ solutions' \in [Fuzzers -> Nat]
<1>1. /\ said \in [Clients -> Seq(Event)] /\ corpus \in [Fuzzers -> Seq(Test)]
      /\ covered \in [Fuzzers -> SUBSET Points] /\ solutions \in [Fuzzers -> Nat]
      /\ f \in Clients
  BY DEF TypeOK, Test, Clients
<1>2. /\ tests \in Seq(Test) /\ Len(tests) = Len(corpus[f]) /\ Len(corpus[f]) \in Nat
      /\ [input |-> i, depth |-> depth] \in Test /\ Reaches[i] \subseteq Points
      /\ i \in Inputs
  <2>1. tests \in Seq(Test) /\ Len(tests) = Len(corpus[f]) BY DEF Evaluates, SameTests
  <2>2. Len(corpus[f]) \in Nat BY <1>1
  <2>3. i \in Inputs /\ [input |-> i, depth |-> depth] \in Test BY DEF Evaluates, Test
  <2>4. Reaches[i] \subseteq Points BY <2>3, ReachesPoints
  <2> QED BY <2>1, <2>2, <2>3, <2>4
<1>3. CASE /\ solutions' = [solutions EXCEPT ![f] = @ + 1]
           /\ corpus' = [corpus EXCEPT ![f] = tests]
           /\ covered' = covered
           /\ send => said' = [said EXCEPT ![f] =
                Append(@, [kind |-> "Objective", size |-> solutions[f] + 1])]
           /\ ~send => said' = said
  <2>1. [kind |-> "Objective", size |-> solutions[f] + 1] \in Event BY <1>1, EventFields
  <2>2. said' \in [Clients -> Seq(Event)] /\ SaidGrows
    BY <1>1, <1>3, <2>1, FireGrows, SameGrows
  <2>3. corpus' \in [Fuzzers -> Seq(Test)] /\ corpus'[f] = tests BY <1>1, <1>2, <1>3
  <2>4. solutions' \in [Fuzzers -> Nat] BY <1>1, <1>3
  <2> QED BY <1>1, <1>2, <1>3, <2>2, <2>3, <2>4
<1>4. CASE /\ corpus' = [corpus EXCEPT ![f] = Append(tests, [input |-> i, depth |-> depth])]
           /\ covered' = [covered EXCEPT ![f] = @ \cup Reaches[i]]
           /\ solutions' = solutions
           /\ send => said' = [said EXCEPT ![f] = Append(@, NewTestcase(i, Len(tests) + 1))]
           /\ ~send => said' = said
  <2>1. NewTestcase(i, Len(tests) + 1) \in Event BY <1>2, EventFields
  <2>2. said' \in [Clients -> Seq(Event)] /\ SaidGrows
    BY <1>1, <1>4, <2>1, FireGrows, SameGrows
  <2>3. /\ Append(tests, [input |-> i, depth |-> depth]) \in Seq(Test)
        /\ Len(Append(tests, [input |-> i, depth |-> depth])) = Len(tests) + 1
    BY <1>2
  <2>4. /\ corpus' \in [Fuzzers -> Seq(Test)]
        /\ corpus'[f] = Append(tests, [input |-> i, depth |-> depth])
    BY <1>1, <1>4, <2>3
  <2>5. Len(corpus[f]) <= Len(corpus'[f]) BY <1>2, <2>3, <2>4
  <2>6. covered' \in [Fuzzers -> SUBSET Points] BY <1>1, <1>2, <1>4
  <2> QED BY <1>1, <1>4, <2>2, <2>4, <2>5, <2>6
<1>5. CASE /\ corpus' = [corpus EXCEPT ![f] = tests]
           /\ said' = said /\ covered' = covered /\ solutions' = solutions
  <2>1. corpus' \in [Fuzzers -> Seq(Test)] /\ corpus'[f] = tests BY <1>1, <1>2, <1>5
  <2> QED BY <1>1, <1>2, <1>5, <2>1, SameGrows
<1> QED BY <1>3, <1>4, <1>5, EvaluateOutcome

\* What is in the feed stays good as long as clients only say more.
LEMMA FeedKept ==
  ASSUME TypeOK, FeedPlaces, SaidGrows, UNCHANGED <<settled, log>>,
         said' \in [Clients -> Seq(Event)],
         \A c \in Clients : \A q \in DOMAIN inbox'[c] : inbox'[c][q] \in DOMAIN log
  PROVE  FeedPlaces'
<1>1. \A c \in Clients : settled'[c] <= Len(said'[c])
  <2> SUFFICES ASSUME NEW c \in Clients PROVE settled'[c] <= Len(said'[c])
    OBVIOUS
  <2>1. /\ settled'[c] = settled[c] /\ settled[c] \in Nat
        /\ Len(said[c]) \in Nat /\ Len(said'[c]) \in Nat
        /\ settled[c] <= Len(said[c]) /\ Len(said[c]) <= Len(said'[c])
    BY DEF TypeOK, FeedPlaces, SaidGrows
  <2> QED BY <2>1
<1>2. \A p \in DOMAIN log : log[p].client \in Clients
  <2>1. log \in Seq(Entry) BY DEF TypeOK, Entry
  <2>2. \A p \in DOMAIN log : log[p] \in Entry BY <2>1
  <2> QED BY <2>2 DEF Entry
<1>3. \A p \in DOMAIN log' :
        /\ log'[p].n \in DOMAIN said'[log'[p].client]
        /\ said'[log'[p].client][log'[p].n].kind = "NewTestcase"
  BY <1>2 DEF FeedPlaces, SaidGrows
<1> QED BY <1>1, <1>3 DEF FeedPlaces

LEMMA InitBase == Init => BaseInv
<1> SUFFICES ASSUME Init PROVE BaseInv
  OBVIOUS
<1>1. TypeOK
  BY CountsAreNat DEF Init, TypeOK, Feed!Init, Clients
<1>2. FeedPlaces
  <2>1. log = <<>> /\ \A c \in Clients : settled[c] = 0 /\ said[c] = <<>> /\ inbox[c] = <<>>
    BY DEF Init, Feed!Init, Clients
  <2> QED BY <2>1 DEF FeedPlaces
<1>3. LoopPlaces BY DEF Init, LoopPlaces
<1> QED BY <1>1, <1>2, <1>3 DEF BaseInv

\* An action that only moves f along its loop.
LEMMA MoveBase ==
  ASSUME BaseInv, NEW f \in Fuzzers,
         UNCHANGED <<said, feedVars, stateVars, maxDepth>>,
         NEW place \in Places, NEW n \in Nat, NEW i \in Nat \ {0},
         pc' = [pc EXCEPT ![f] = place], todo' = [todo EXCEPT ![f] = n],
         idx' = [idx EXCEPT ![f] = i],
         place # "load", place \in {"stage", "report"} => i \in DOMAIN corpus[f]
  PROVE  BaseInv'
<1>1. TypeOK' BY DEF BaseInv, TypeOK, feedVars, stateVars, Places
<1>2. FeedPlaces' BY DEF BaseInv, FeedPlaces, feedVars
<1>3. LoopPlaces'
  <2>1. /\ pc'[f] = place /\ idx'[f] = i
        /\ \A g \in Fuzzers : g # f => pc'[g] = pc[g] /\ idx'[g] = idx[g]
    BY DEF BaseInv, TypeOK
  <2> QED BY <2>1 DEF BaseInv, LoopPlaces, stateVars
<1> QED BY <1>1, <1>2, <1>3 DEF BaseInv

LEMMA QuietBase ==
  ASSUME BaseInv, NEW f \in Fuzzers,
         LoadDone(f) \/ FuzzOne(f) \/ StageDone(f) \/ ProcessDone(f)
  PROVE  BaseInv'
<1>1. /\ idx \in [Fuzzers -> Nat \ {0}] /\ idx[f] \in Nat \ {0}
      /\ corpus \in [Fuzzers -> Seq(Test)]
      /\ pc \in [Fuzzers -> Places]
  BY DEF BaseInv, TypeOK, Test, Places
<1>2. CASE LoadDone(f)
  <2>1. /\ UNCHANGED <<said, feedVars, stateVars, maxDepth>>
        /\ idx' = [idx EXCEPT ![f] = idx[f]]
    BY <1>1, <1>2 DEF LoadDone
  <2>2. CASE corpus[f] = <<>>
    <3>1. pc' = [pc EXCEPT ![f] = "ended"] /\ todo' = [todo EXCEPT ![f] = 0]
      BY <1>2, <2>2 DEF LoadDone, Goto
    <3> QED BY <1>1, <2>1, <3>1, MoveBase DEF Places
  <2>3. CASE corpus[f] # <<>>
    <3>1. pc' = [pc EXCEPT ![f] = "loop"] /\ todo' = [todo EXCEPT ![f] = 0]
      BY <1>2, <2>3 DEF LoadDone, Goto
    <3> QED BY <1>1, <2>1, <3>1, MoveBase DEF Places
  <2> QED BY <2>2, <2>3
<1>3. CASE FuzzOne(f)
  <2>1. PICK i \in DOMAIN corpus[f], n \in 1..MaxIterations :
          idx' = [idx EXCEPT ![f] = i] /\ Goto(f, "stage", n)
    BY <1>3 DEF FuzzOne, Schedulable
  <2>2. i \in Nat \ {0} /\ n \in Nat BY <1>1
  <2> QED BY <1>3, <2>1, <2>2, MoveBase DEF FuzzOne, Goto, Places
<1>4. CASE StageDone(f)
  <2>1. /\ UNCHANGED <<said, feedVars, stateVars, maxDepth>>
        /\ pc' = [pc EXCEPT ![f] = "process"] /\ todo' = [todo EXCEPT ![f] = 0]
        /\ idx' = [idx EXCEPT ![f] = 1]
    BY <1>4 DEF StageDone, Goto
  <2>2. 1 \in Nat \ {0} /\ 0 \in Nat /\ "process" \in Places BY DEF Places
  <2>3. "process" # "load" /\ "process" \notin {"stage", "report"} OBVIOUS
  <2> QED BY <2>1, <2>2, <2>3, MoveBase
<1>5. CASE ProcessDone(f)
  <2>1. /\ UNCHANGED <<said, feedVars, stateVars, maxDepth>>
        /\ pc' = [pc EXCEPT ![f] = "loop"] /\ todo' = [todo EXCEPT ![f] = 0]
        /\ idx' = [idx EXCEPT ![f] = idx[f]]
    BY <1>1, <1>5 DEF ProcessDone, Goto
  <2> QED BY <1>1, <2>1, MoveBase DEF Places
<1> QED BY <1>2, <1>3, <1>4, <1>5

LEMMA LoadBase ==
  ASSUME BaseInv, NEW f \in Fuzzers, LoadSeed(f)
  PROVE  BaseInv'
<1>1. /\ pc[f] = "load" /\ todo[f] > 0
      /\ seeded' = [seeded EXCEPT ![f] = Len(corpus'[f])]
      /\ pc' = [pc EXCEPT ![f] = "load"] /\ todo' = [todo EXCEPT ![f] = todo[f] - 1]
      /\ UNCHANGED <<feedVars, idx, maxDepth>>
  BY LoadEvaluates DEF BaseInv
<1>2. PICK i : Evaluates(f, i, corpus[f], 0, TRUE) BY LoadEvaluates DEF BaseInv
<1>3. /\ said' \in [Clients -> Seq(Event)] /\ SaidGrows
      /\ corpus' \in [Fuzzers -> Seq(Test)]
      /\ \A g \in Fuzzers : g # f => corpus'[g] = corpus[g]
      /\ covered' \in [Fuzzers -> SUBSET Points] /\ solutions' \in [Fuzzers -> Nat]
  BY <1>2, EvaluateGrows DEF BaseInv
<1>4. seeded \in [Fuzzers -> Nat] /\ todo[f] - 1 \in Nat /\ Len(corpus'[f]) \in Nat
  BY <1>1, <1>3 DEF BaseInv, TypeOK
<1>5. TypeOK'
  BY <1>1, <1>3, <1>4 DEF BaseInv, TypeOK, feedVars, Test
<1>6. FeedPlaces'
  BY <1>1, <1>3, FeedKept DEF BaseInv, FeedPlaces, feedVars
<1>7. LoopPlaces'
  <2> SUFFICES ASSUME NEW g \in Fuzzers
               PROVE  /\ pc'[g] \in {"stage", "report"} => idx'[g] \in DOMAIN corpus'[g]
                      /\ seeded'[g] <= Len(corpus'[g])
                      /\ pc'[g] = "load" => seeded'[g] = Len(corpus'[g])
    BY DEF LoopPlaces
  <2>1. CASE g = f
    <3>1. seeded'[f] = Len(corpus'[f]) /\ pc'[f] = "load" BY <1>1, <1>4 DEF BaseInv, TypeOK
    <3> QED BY <1>4, <2>1, <3>1
  <2>2. CASE g # f
    <3>1. /\ seeded'[g] = seeded[g] /\ pc'[g] = pc[g] /\ idx'[g] = idx[g]
          /\ corpus'[g] = corpus[g]
      BY <1>1, <1>3, <2>2 DEF BaseInv, TypeOK
    <3> QED BY <3>1 DEF BaseInv, LoopPlaces
  <2> QED BY <2>1, <2>2
<1> QED BY <1>5, <1>6, <1>7 DEF BaseInv

LEMMA MutateBase ==
  ASSUME BaseInv, NEW f \in Fuzzers, Mutate(f)
  PROVE  BaseInv'
<1> DEFINE tests == [corpus[f] EXCEPT ![idx[f]].depth = ParentDepth(f)]
<1>1. PICK i :
        /\ Evaluates(f, i, tests, ParentDepth(f) + 1, TRUE)
        /\ IF IsCorpus(f, i) /\ Deeper(f, ParentDepth(f) + 1)
           THEN /\ maxDepth' = [maxDepth EXCEPT ![f] = ParentDepth(f) + 1]
                /\ pc' = [pc EXCEPT ![f] = "report"]
           ELSE /\ maxDepth' = maxDepth
                /\ pc' = [pc EXCEPT ![f] = "stage"]
  BY MutateEvaluates DEF BaseInv
<1>2. /\ pc[f] = "stage" /\ todo[f] > 0 /\ todo' = [todo EXCEPT ![f] = todo[f] - 1]
      /\ UNCHANGED <<feedVars, idx, seeded>>
  BY MutateEvaluates DEF BaseInv
<1> HIDE DEF tests
<1>3. /\ said' \in [Clients -> Seq(Event)] /\ SaidGrows
      /\ corpus' \in [Fuzzers -> Seq(Test)]
      /\ Len(corpus[f]) <= Len(corpus'[f])
      /\ \A g \in Fuzzers : g # f => corpus'[g] = corpus[g]
      /\ covered' \in [Fuzzers -> SUBSET Points] /\ solutions' \in [Fuzzers -> Nat]
  BY <1>1, EvaluateGrows DEF BaseInv
<1>4. todo[f] - 1 \in Nat /\ Len(corpus'[f]) \in Nat /\ Len(corpus[f]) \in Nat
  BY <1>2, <1>3 DEF BaseInv, TypeOK
<1>5. idx[f] \in DOMAIN corpus[f] BY <1>2 DEF BaseInv, LoopPlaces
<1>6. ParentDepth(f) + 1 \in Nat
  <2>1. ParentDepth(f) \in Nat BY <1>5, ParentIsSame DEF BaseInv
  <2> QED BY <2>1
<1>7. /\ maxDepth' \in [Fuzzers -> Nat] /\ pc' \in [Fuzzers -> Places]
      /\ pc'[f] \in {"stage", "report"} /\ \A g \in Fuzzers : g # f => pc'[g] = pc[g]
  BY <1>1, <1>6 DEF BaseInv, TypeOK, Places
<1>8. TypeOK'
  <2>1. todo' \in [Fuzzers -> Nat] BY <1>2, <1>4 DEF BaseInv, TypeOK
  <2> QED BY <1>2, <1>3, <1>7, <2>1 DEF BaseInv, TypeOK, feedVars, Test, Places
<1>9. FeedPlaces'
  BY <1>2, <1>3, FeedKept DEF BaseInv, FeedPlaces, feedVars
<1>10. LoopPlaces'
  <2> SUFFICES ASSUME NEW g \in Fuzzers
               PROVE  /\ pc'[g] \in {"stage", "report"} => idx'[g] \in DOMAIN corpus'[g]
                      /\ seeded'[g] <= Len(corpus'[g])
                      /\ pc'[g] = "load" => seeded'[g] = Len(corpus'[g])
    BY DEF LoopPlaces
  <2>1. CASE g = f
    <3>1. DOMAIN corpus[f] \subseteq DOMAIN corpus'[f]
      <4>1. corpus[f] \in Seq(Test) /\ corpus'[f] \in Seq(Test)
        BY <1>3 DEF BaseInv, TypeOK, Test
      <4> QED BY <1>3, <1>4, <4>1
    <3>2. seeded[f] \in Nat /\ seeded[f] <= Len(corpus[f]) BY DEF BaseInv, LoopPlaces, TypeOK
    <3> QED BY <1>2, <1>3, <1>4, <1>5, <1>7, <2>1, <3>1, <3>2
  <2>2. CASE g # f BY <1>2, <1>3, <1>7, <2>2 DEF BaseInv, LoopPlaces
  <2> QED BY <2>1, <2>2
<1> QED BY <1>8, <1>9, <1>10 DEF BaseInv

LEMMA ReportBase ==
  ASSUME BaseInv, NEW f \in Fuzzers, Report(f)
  PROVE  /\ BaseInv' /\ SaidGrows
         /\ said' = [said EXCEPT ![f] =
              Append(@, [kind |-> "UpdateUserStats", depth |-> maxDepth[f]])]
         /\ [kind |-> "UpdateUserStats", depth |-> maxDepth[f]] \in Event
<1>1. maxDepth[f] \in Nat /\ f \in Clients BY DEF BaseInv, TypeOK, Clients
<1>2. [kind |-> "UpdateUserStats", depth |-> maxDepth[f]] \in Event BY <1>1, EventFields
<1>3. /\ said' = [said EXCEPT ![f] =
              Append(@, [kind |-> "UpdateUserStats", depth |-> maxDepth[f]])]
      /\ UNCHANGED <<feedVars, idx, stateVars, maxDepth>>
      /\ pc[f] = "report" /\ pc' = [pc EXCEPT ![f] = "stage"]
      /\ todo' = [todo EXCEPT ![f] = todo[f]]
  BY DEF Report, Fire, Goto
<1>4. said' \in [Clients -> Seq(Event)] /\ SaidGrows
  BY <1>1, <1>2, <1>3, FireGrows DEF BaseInv
<1>5. TypeOK'
  BY <1>3, <1>4 DEF BaseInv, TypeOK, feedVars, stateVars, Places
<1>6. FeedPlaces' BY <1>3, <1>4, FeedKept DEF BaseInv, FeedPlaces, feedVars
<1>7. LoopPlaces'
  <2>1. pc'[f] = "stage" /\ \A g \in Fuzzers : g # f => pc'[g] = pc[g]
    BY <1>3 DEF BaseInv, TypeOK
  <2> QED BY <1>3, <2>1 DEF BaseInv, LoopPlaces, stateVars
<1> QED BY <1>2, <1>3, <1>4, <1>5, <1>6, <1>7 DEF BaseInv

LEMMA ImportBase ==
  ASSUME BaseInv, NEW f \in Fuzzers, Import(f)
  PROVE  BaseInv'
<1>1. PICK p \in DOMAIN log :
        /\ Evaluates(f, InputAt(p), corpus[f], 0, FALSE)
        /\ inbox' = [inbox EXCEPT ![f] = Append(@, p)]
        /\ pc[f] = "process"
        /\ UNCHANGED <<settled, log, loopVars, seeded, maxDepth>>
  BY ImportEvaluates
<1>2. /\ said' \in [Clients -> Seq(Event)] /\ SaidGrows
      /\ corpus' \in [Fuzzers -> Seq(Test)]
      /\ Len(corpus[f]) <= Len(corpus'[f])
      /\ \A g \in Fuzzers : g # f => corpus'[g] = corpus[g]
      /\ covered' \in [Fuzzers -> SUBSET Points] /\ solutions' \in [Fuzzers -> Nat]
  BY <1>1, EvaluateGrows DEF BaseInv
<1>3. /\ inbox \in [Clients -> Seq(Nat)] /\ log \in Seq(Entry) /\ f \in Clients
  BY DEF BaseInv, TypeOK, Clients, Entry
<1>4. p \in Nat /\ inbox[f] \in Seq(Nat) BY <1>3
<1>5. inbox' \in [Clients -> Seq(Nat)] /\ inbox'[f] = Append(inbox[f], p)
  BY <1>1, <1>3, <1>4
<1>6. TypeOK'
  BY <1>1, <1>2, <1>5 DEF BaseInv, TypeOK, loopVars, Test
<1>7. \A c \in Clients : \A q \in DOMAIN inbox'[c] : inbox'[c][q] \in DOMAIN log
  <2> SUFFICES ASSUME NEW c \in Clients, NEW q \in DOMAIN inbox'[c]
               PROVE  inbox'[c][q] \in DOMAIN log
    OBVIOUS
  <2>1. CASE c = f
    <3>1. \/ q \in DOMAIN inbox[f] /\ inbox'[f][q] = inbox[f][q]
          \/ inbox'[f][q] = p
      BY <1>4, <1>5, <2>1
    <3> QED BY <1>3, <2>1, <3>1 DEF BaseInv, FeedPlaces
  <2>2. CASE c # f
    <3>1. inbox'[c] = inbox[c] BY <1>1, <1>3, <2>2
    <3> QED BY <3>1 DEF BaseInv, FeedPlaces
  <2> QED BY <2>1, <2>2
<1>8. FeedPlaces' BY <1>1, <1>2, <1>7, FeedKept DEF BaseInv
<1>9. LoopPlaces'
  <2> SUFFICES ASSUME NEW g \in Fuzzers
               PROVE  /\ pc'[g] \in {"stage", "report"} => idx'[g] \in DOMAIN corpus'[g]
                      /\ seeded'[g] <= Len(corpus'[g])
                      /\ pc'[g] = "load" => seeded'[g] = Len(corpus'[g])
    BY DEF LoopPlaces
  <2>1. CASE g = f
    <3>1. seeded[f] \in Nat /\ seeded[f] <= Len(corpus[f]) /\ seeded'[f] = seeded[f]
      BY <1>1 DEF BaseInv, LoopPlaces, TypeOK
    <3>2. corpus[f] \in Seq(Test) /\ corpus'[f] \in Seq(Test)
      BY <1>2 DEF BaseInv, TypeOK, Test
    <3>3. Len(corpus[f]) \in Nat /\ Len(corpus'[f]) \in Nat BY <3>2
    <3> QED BY <1>1, <1>2, <2>1, <3>1, <3>3 DEF loopVars
  <2>2. CASE g # f BY <1>1, <1>2, <2>2 DEF BaseInv, LoopPlaces, loopVars
  <2> QED BY <2>1, <2>2
<1> QED BY <1>6, <1>8, <1>9 DEF BaseInv

\* The broker publishes the next message of a client if it is a test case.
LEMMA BrokerStep ==
  ASSUME BaseInv, NEW c \in Clients, BrokerMsg(c)
  PROVE  /\ UNCHANGED <<said, inbox, loopVars, stateVars, maxDepth>>
         /\ settled[c] + 1 \in DOMAIN said[c]
         /\ settled' = [settled EXCEPT ![c] = @ + 1]
         /\ \/ /\ log' = Append(log, [client |-> c, n |-> settled[c] + 1])
               /\ said[c][settled[c] + 1].kind = "NewTestcase"
            \/ log' = log
<1>1. /\ settled[c] \in Nat /\ said[c] \in Seq(Event) /\ settled[c] < Len(said[c])
      /\ UNCHANGED <<said, loopVars, stateVars, maxDepth>>
  BY DEF BrokerMsg, BaseInv, TypeOK
<1>2. settled[c] + 1 \in DOMAIN said[c] BY <1>1
<1>3. CASE said[c][settled[c] + 1].kind = "NewTestcase"
  <2>1. Feed!Publish(c) BY <1>3 DEF BrokerMsg
  <2> QED BY <1>1, <1>2, <1>3, <2>1 DEF Feed!Publish
<1>4. CASE said[c][settled[c] + 1].kind # "NewTestcase"
  <2>1. Feed!Keep(c) BY <1>4 DEF BrokerMsg
  <2> QED BY <1>1, <1>2, <2>1 DEF Feed!Keep
<1> QED BY <1>3, <1>4

LEMMA BrokerBase ==
  ASSUME BaseInv, NEW c \in Clients, BrokerMsg(c)
  PROVE  BaseInv'
<1>1. /\ UNCHANGED <<said, inbox, loopVars, stateVars, maxDepth>>
      /\ settled[c] + 1 \in DOMAIN said[c]
      /\ settled' = [settled EXCEPT ![c] = @ + 1]
      /\ \/ /\ log' = Append(log, [client |-> c, n |-> settled[c] + 1])
            /\ said[c][settled[c] + 1].kind = "NewTestcase"
         \/ log' = log
  BY BrokerStep
<1>2. /\ settled \in [Clients -> Nat] /\ said \in [Clients -> Seq(Event)]
      /\ log \in Seq(Entry) /\ inbox \in [Clients -> Seq(Nat)]
  BY DEF BaseInv, TypeOK, Entry
<1>3. /\ settled' \in [Clients -> Nat] /\ settled'[c] = settled[c] + 1
      /\ \A d \in Clients : d # c => settled'[d] = settled[d]
      /\ [client |-> c, n |-> settled[c] + 1] \in Entry
  BY <1>1, <1>2 DEF Entry
<1>4. /\ log' \in Seq(Entry) /\ Len(log) \in Nat /\ DOMAIN log = 1..Len(log)
      /\ DOMAIN log \subseteq DOMAIN log'
      /\ \A p \in DOMAIN log' :
           \/ p \in DOMAIN log /\ log'[p] = log[p]
           \/ /\ log'[p] = [client |-> c, n |-> settled[c] + 1]
              /\ said[c][settled[c] + 1].kind = "NewTestcase"
  <2>1. CASE log' = log BY <1>2, <2>1
  <2>2. CASE /\ log' = Append(log, [client |-> c, n |-> settled[c] + 1])
             /\ said[c][settled[c] + 1].kind = "NewTestcase"
    BY <1>2, <1>3, <2>2
  <2> QED BY <1>1, <2>1, <2>2
<1>5. TypeOK'
  BY <1>1, <1>3, <1>4 DEF BaseInv, TypeOK, loopVars, stateVars, Entry
<1>6. \A d \in Clients : settled'[d] <= Len(said'[d])
  <2> SUFFICES ASSUME NEW d \in Clients PROVE settled'[d] <= Len(said[d])
    BY <1>1
  <2>1. CASE d = c
    <3>1. said[c] \in Seq(Event) BY <1>2
    <3>2. settled[c] + 1 <= Len(said[c]) BY <1>1, <3>1
    <3> QED BY <1>3, <2>1, <3>2
  <2>2. CASE d # c BY <1>3, <2>2 DEF BaseInv, FeedPlaces
  <2> QED BY <2>1, <2>2
<1>7. \A p \in DOMAIN log' :
        /\ log'[p].n \in DOMAIN said'[log'[p].client]
        /\ said'[log'[p].client][log'[p].n].kind = "NewTestcase"
  <2> SUFFICES ASSUME NEW p \in DOMAIN log'
               PROVE  /\ log'[p].n \in DOMAIN said[log'[p].client]
                      /\ said[log'[p].client][log'[p].n].kind = "NewTestcase"
    BY <1>1
  <2>1. CASE p \in DOMAIN log /\ log'[p] = log[p] BY <2>1 DEF BaseInv, FeedPlaces
  <2>2. CASE /\ log'[p] = [client |-> c, n |-> settled[c] + 1]
             /\ said[c][settled[c] + 1].kind = "NewTestcase"
    BY <1>1, <2>2
  <2> QED BY <1>4, <2>1, <2>2
<1>8. \A d \in Clients : \A q \in DOMAIN inbox'[d] : inbox'[d][q] \in DOMAIN log'
  BY <1>1, <1>4 DEF BaseInv, FeedPlaces
<1>9. LoopPlaces' BY <1>1 DEF BaseInv, LoopPlaces, loopVars, stateVars
<1> QED BY <1>5, <1>6, <1>7, <1>8, <1>9 DEF BaseInv, FeedPlaces

LEMMA PeerBase ==
  ASSUME BaseInv, NEW k \in Peers, PeerSend(k)
  PROVE  /\ BaseInv' /\ SaidGrows
         /\ \A c \in Clients : c # k => said'[c] = said[c]
<1>1. PICK i \in Inputs : said' = [said EXCEPT ![k] = Append(@, NewTestcase(i, 0))]
  BY DEF PeerSend, Fire
<1>2. UNCHANGED <<feedVars, loopVars, stateVars, maxDepth>> BY DEF PeerSend
<1>3. k \in Clients /\ NewTestcase(i, 0) \in Event BY EventFields DEF Clients
<1>4. /\ said' \in [Clients -> Seq(Event)] /\ SaidGrows
      /\ \A c \in Clients : c # k => said'[c] = said[c]
  BY <1>1, <1>3, FireGrows DEF BaseInv
<1>5. TypeOK' BY <1>2, <1>4 DEF BaseInv, TypeOK, feedVars, loopVars, stateVars
<1>6. FeedPlaces' BY <1>2, <1>4, FeedKept DEF BaseInv, FeedPlaces, feedVars
<1>7. LoopPlaces' BY <1>2 DEF BaseInv, LoopPlaces, loopVars, stateVars
<1> QED BY <1>4, <1>5, <1>6, <1>7 DEF BaseInv

LEMMA StutterBase ==
  ASSUME BaseInv, UNCHANGED vars
  PROVE  BaseInv'
BY DEF BaseInv, TypeOK, FeedPlaces, LoopPlaces, vars, feedVars, loopVars, stateVars

LEMMA NextBase ==
  ASSUME BaseInv, [Next]_vars
  PROVE  BaseInv'
<1>1. ASSUME NEW f \in Fuzzers, Fuzz(f) PROVE BaseInv'
  BY <1>1, LoadBase, QuietBase, MutateBase, ReportBase, ImportBase DEF Fuzz
<1>2. ASSUME NEW c \in Clients, BrokerMsg(c) PROVE BaseInv'
  BY <1>2, BrokerBase
<1>3. ASSUME NEW k \in Peers, PeerSend(k) PROVE BaseInv'
  BY <1>3, PeerBase
<1> QED BY <1>1, <1>2, <1>3, StutterBase DEF Next

\* Where feed, loop and corpus stand to each other, and every variable's type.
THEOREM BaseInvariant == Spec => []BaseInv
<1>1. Init => BaseInv BY InitBase
<1>2. BaseInv /\ [Next]_vars => BaseInv' BY NextBase
<1> QED BY <1>1, <1>2, PTL DEF Spec

\* Every variable of the fuzz loops keeps its type.
THEOREM TypeCorrect == Spec => []TypeOK
<1>1. BaseInv => TypeOK BY DEF BaseInv
<1> QED BY <1>1, BaseInvariant, PTL

-----------------------------------------------------------------------------
(* The corpus and the history of the map feedback *)

ReachedBy(tests, s) == UNION {Reaches[tests[r].input] : r \in 1..s}

Covers(tests, history) ==
  /\ history = ReachedBy(tests, Len(tests))
  /\ \A s \in DOMAIN tests :
       /\ tests[s].input \notin Crashing
       /\ ~(Reaches[tests[s].input] \subseteq ReachedBy(tests, s - 1))

LEMMA CountsIsCovers ==
  EveryTestcaseCounts <=> \A f \in Fuzzers : Covers(corpus[f], covered[f])
BY DEF EveryTestcaseCounts, Covers, ReachedBy

\* What tests reach depends on their inputs alone.
LEMMA SameReach ==
  ASSUME NEW one, NEW other, NEW s \in Nat,
         \A r \in 1..s : one[r].input = other[r].input
  PROVE  ReachedBy(one, s) = ReachedBy(other, s)
<1>1. {Reaches[one[r].input] : r \in 1..s} = {Reaches[other[r].input] : r \in 1..s}
  OBVIOUS
<1> QED BY <1>1 DEF ReachedBy

LEMMA CoversSame ==
  ASSUME NEW tests \in Seq(Test), NEW others \in Seq(Test), NEW history,
         Len(others) = Len(tests),
         \A s \in DOMAIN tests : others[s].input = tests[s].input,
         Covers(tests, history)
  PROVE  Covers(others, history)
<1>1. /\ Len(tests) \in Nat /\ DOMAIN tests = 1..Len(tests)
      /\ DOMAIN others = 1..Len(tests)
  OBVIOUS
<1>2. \A s \in 0..Len(tests) : ReachedBy(others, s) = ReachedBy(tests, s)
  <2> SUFFICES ASSUME NEW s \in 0..Len(tests)
               PROVE  ReachedBy(others, s) = ReachedBy(tests, s)
    OBVIOUS
  <2>1. \A r \in 1..s : others[r].input = tests[r].input BY <1>1
  <2> QED BY <1>1, <2>1, SameReach
<1>3. history = ReachedBy(others, Len(others)) BY <1>1, <1>2 DEF Covers
<1>4. ASSUME NEW s \in DOMAIN others
      PROVE  /\ others[s].input \notin Crashing
             /\ ~(Reaches[others[s].input] \subseteq ReachedBy(others, s - 1))
  <2>1. s \in DOMAIN tests /\ s - 1 \in 0..Len(tests) BY <1>1
  <2> QED BY <1>2, <2>1 DEF Covers
<1> QED BY <1>3, <1>4 DEF Covers

LEMMA CoversMore ==
  ASSUME NEW tests \in Seq(Test), NEW t \in Test, NEW history, Covers(tests, history),
         t.input \notin Crashing, ~(Reaches[t.input] \subseteq history)
  PROVE  Covers(Append(tests, t), history \cup Reaches[t.input])
<1> DEFINE more == Append(tests, t)
<1>1. /\ Len(tests) \in Nat /\ DOMAIN tests = 1..Len(tests)
      /\ Len(more) = Len(tests) + 1 /\ DOMAIN more = 1..(Len(tests) + 1)
      /\ \A s \in 1..Len(tests) : more[s] = tests[s]
      /\ more[Len(tests) + 1] = t
  OBVIOUS
<1> HIDE DEF more
<1>2. \A s \in 0..Len(tests) : ReachedBy(more, s) = ReachedBy(tests, s)
  <2> SUFFICES ASSUME NEW s \in 0..Len(tests)
               PROVE  ReachedBy(more, s) = ReachedBy(tests, s)
    OBVIOUS
  <2>1. \A r \in 1..s : more[r].input = tests[r].input BY <1>1
  <2> QED BY <1>1, <2>1, SameReach
<1>3. history = ReachedBy(more, Len(tests)) BY <1>1, <1>2 DEF Covers
<1>4. ReachedBy(more, Len(tests) + 1) = ReachedBy(more, Len(tests)) \cup Reaches[t.input]
  <2>1. 1..(Len(tests) + 1) = (1..Len(tests)) \cup {Len(tests) + 1} BY <1>1
  <2> QED BY <1>1, <2>1 DEF ReachedBy
<1>5. ASSUME NEW s \in DOMAIN more
      PROVE  /\ more[s].input \notin Crashing
             /\ ~(Reaches[more[s].input] \subseteq ReachedBy(more, s - 1))
  <2>1. CASE s \in 1..Len(tests)
    <3>1. s \in DOMAIN tests /\ s - 1 \in 0..Len(tests) /\ more[s] = tests[s] BY <1>1, <2>1
    <3> QED BY <1>2, <3>1 DEF Covers
  <2>2. CASE s = Len(tests) + 1
    <3>1. more[s] = t /\ s - 1 = Len(tests) BY <1>1, <2>2
    <3> QED BY <1>3, <3>1
  <2> QED BY <1>1, <2>1, <2>2
<1> QED BY <1>1, <1>3, <1>4, <1>5 DEF Covers, more

LEMMA EvaluateCounts ==
  ASSUME TypeOK, EveryTestcaseCounts, NEW f \in Fuzzers,
         NEW i, NEW tests, NEW depth, NEW send, Evaluates(f, i, tests, depth, send)
  PROVE  EveryTestcaseCounts'
<1>1. /\ corpus \in [Fuzzers -> Seq(Test)] /\ covered \in [Fuzzers -> SUBSET Points]
      /\ tests \in Seq(Test) /\ [input |-> i, depth |-> depth] \in Test
  BY DEF TypeOK, Evaluates, SameTests, Test
<1>2. Covers(corpus[f], covered[f]) BY CountsIsCovers
<1>3. Covers(tests, covered[f])
  <2>1. /\ corpus[f] \in Seq(Test) /\ Len(tests) = Len(corpus[f])
        /\ \A s \in DOMAIN corpus[f] : tests[s].input = corpus[f][s].input
    BY <1>1 DEF Evaluates, SameTests
  <2> QED BY <1>1, <1>2, <2>1, CoversSame
<1>4. Covers(corpus'[f], covered'[f])
  <2>1. CASE corpus' = [corpus EXCEPT ![f] = tests] /\ covered' = covered
    BY <1>1, <1>3, <2>1
  <2>2. CASE /\ i \notin Crashing /\ ~(Reaches[i] \subseteq covered[f])
             /\ corpus' = [corpus EXCEPT ![f] = Append(tests, [input |-> i, depth |-> depth])]
             /\ covered' = [covered EXCEPT ![f] = @ \cup Reaches[i]]
    <3> DEFINE t == [input |-> i, depth |-> depth]
    <3>1. corpus'[f] = Append(tests, t) /\ covered'[f] = covered[f] \cup Reaches[t.input]
      BY <1>1, <2>2
    <3>2. t \in Test /\ t.input \notin Crashing /\ ~(Reaches[t.input] \subseteq covered[f])
      BY <1>1, <2>2
    <3> HIDE DEF t
    <3> QED BY <1>1, <1>3, <3>1, <3>2, CoversMore
  <2> QED BY <2>1, <2>2, EvaluateOutcome
<1>5. \A g \in Fuzzers : g # f => corpus'[g] = corpus[g] /\ covered'[g] = covered[g]
  BY <1>1, EvaluateOutcome
<1>6. \A g \in Fuzzers : Covers(corpus'[g], covered'[g]) BY <1>4, <1>5, CountsIsCovers
<1> QED BY <1>6 DEF EveryTestcaseCounts, Covers, ReachedBy

\* Each fuzzer's step evaluates one input or leaves the corpus alone.
LEMMA NextEvaluates ==
  ASSUME BaseInv, [Next]_vars
  PROVE  \/ \E f \in Fuzzers : \E i, tests, depth, send : Evaluates(f, i, tests, depth, send)
         \/ UNCHANGED <<corpus, covered, solutions>>
<1>1. ASSUME NEW f \in Fuzzers, LoadSeed(f)
      PROVE  \E i, tests, depth, send : Evaluates(f, i, tests, depth, send)
  BY <1>1, LoadEvaluates DEF BaseInv
<1>2. ASSUME NEW f \in Fuzzers, Mutate(f)
      PROVE  \E i, tests, depth, send : Evaluates(f, i, tests, depth, send)
  BY <1>2, MutateEvaluates DEF BaseInv
<1>3. ASSUME NEW f \in Fuzzers, Import(f)
      PROVE  \E i, tests, depth, send : Evaluates(f, i, tests, depth, send)
  BY <1>3, ImportEvaluates
<1>4. ASSUME NEW f \in Fuzzers,
             LoadDone(f) \/ FuzzOne(f) \/ Report(f) \/ StageDone(f) \/ ProcessDone(f)
      PROVE  UNCHANGED <<corpus, covered, solutions>>
  BY <1>4 DEF LoadDone, FuzzOne, Report, StageDone, ProcessDone, stateVars
<1>5. ASSUME (\E c \in Clients : BrokerMsg(c)) \/ (\E k \in Peers : PeerSend(k)) \/ UNCHANGED vars
      PROVE  UNCHANGED <<corpus, covered, solutions>>
  BY <1>5 DEF BrokerMsg, PeerSend, stateVars, vars
<1> QED BY <1>1, <1>2, <1>3, <1>4, <1>5 DEF Next, Fuzz

\* The map history is what the corpus reaches, and each test case of a corpus
\* adds to it, with any number of fuzzers and networks sending inputs.
THEOREM EveryTestcaseCountsAlways == Spec => []EveryTestcaseCounts
<1>1. Init => EveryTestcaseCounts
  <2> SUFFICES ASSUME Init PROVE EveryTestcaseCounts
    OBVIOUS
  <2>1. \A f \in Fuzzers : corpus[f] = <<>> /\ covered[f] = {} BY DEF Init
  <2>2. ReachedBy(<<>>, 0) = {} BY DEF ReachedBy
  <2>3. Covers(<<>>, {}) BY <2>2 DEF Covers
  <2> QED BY <2>1, <2>3, CountsIsCovers
<1>2. BaseInv /\ EveryTestcaseCounts /\ [Next]_vars => EveryTestcaseCounts'
  <2> SUFFICES ASSUME BaseInv, EveryTestcaseCounts, [Next]_vars PROVE EveryTestcaseCounts'
    OBVIOUS
  <2>1. CASE \E f \in Fuzzers : \E i, tests, depth, send : Evaluates(f, i, tests, depth, send)
    BY <2>1, EvaluateCounts DEF BaseInv
  <2>2. CASE UNCHANGED <<corpus, covered, solutions>>
    BY <2>2 DEF EveryTestcaseCounts
  <2> QED BY <2>1, <2>2, NextEvaluates
<1> QED BY <1>1, <1>2, BaseInvariant, PTL DEF Spec

-----------------------------------------------------------------------------
(* Solutions *)

\* What a fuzzer announces as a test case is none of its crashes, so whoever
\* takes it in has no crash from it.
NoCrashAnnounced ==
  \A f \in Fuzzers : \A n \in DOMAIN said[f] :
    said[f][n].kind = "NewTestcase" => said[f][n].input \notin Crashing

SolutionsInv == NoCrashAnnounced /\ SolutionsAccounted

Crashes(f) == {q \in DOMAIN inbox[f] : InputAt(inbox[f][q]) \in Crashing}

Accounted(f) ==
  /\ solutions[f] = Cardinality(Objectives(f)) + Cardinality(Crashes(f))
  /\ \A q \in Crashes(f) : log[inbox[f][q]].client \in Peers

LogGrows == DOMAIN log \subseteq DOMAIN log' /\ \A p \in DOMAIN log : log'[p] = log[p]

LEMMA AccountedMeans == SolutionsAccounted <=> \A f \in Fuzzers : Accounted(f)
BY DEF SolutionsAccounted, Accounted, Crashes

LEMMA SetsFinite ==
  ASSUME BaseInv, NEW f \in Fuzzers
  PROVE  /\ IsFiniteSet(Objectives(f)) /\ Cardinality(Objectives(f)) \in Nat
         /\ IsFiniteSet(Crashes(f)) /\ Cardinality(Crashes(f)) \in Nat
         /\ Crashes(f) \subseteq DOMAIN inbox[f]
<1>1. said[f] \in Seq(Event) /\ inbox[f] \in Seq(Nat) BY DEF BaseInv, TypeOK, Clients
<1>2. /\ Len(said[f]) \in Nat /\ DOMAIN said[f] = 1..Len(said[f])
      /\ Len(inbox[f]) \in Nat /\ DOMAIN inbox[f] = 1..Len(inbox[f])
  BY <1>1
<1>3. IsFiniteSet(1..Len(said[f])) /\ IsFiniteSet(1..Len(inbox[f])) BY <1>2, FS_Interval
<1>4. Objectives(f) \in SUBSET (1..Len(said[f])) /\ Crashes(f) \in SUBSET (1..Len(inbox[f]))
  BY <1>2 DEF Objectives, Crashes
<1>5. IsFiniteSet(Objectives(f)) /\ IsFiniteSet(Crashes(f)) BY <1>3, <1>4, FS_Subset
<1> QED BY <1>2, <1>4, <1>5, FS_CardinalityType

\* Published inputs stay what they are.
LEMMA InputKept ==
  ASSUME BaseInv, SaidGrows, LogGrows, NEW p \in DOMAIN log
  PROVE  InputAt(p)' = InputAt(p) /\ log'[p] = log[p]
<1>1. log \in Seq(Entry) BY DEF BaseInv, TypeOK, Entry
<1>2. log[p] \in Entry BY <1>1
<1>3. log[p].client \in Clients /\ log[p].n \in DOMAIN said[log[p].client]
  BY <1>2 DEF Entry, BaseInv, FeedPlaces
<1> QED BY <1>3 DEF InputAt, SaidGrows, LogGrows

LEMMA CrashesKept ==
  ASSUME BaseInv, SaidGrows, LogGrows, NEW f \in Fuzzers, inbox'[f] = inbox[f]
  PROVE  /\ Crashes(f)' = Crashes(f)
         /\ \A q \in Crashes(f) : log'[inbox'[f][q]] = log[inbox[f][q]]
<1>1. \A q \in DOMAIN inbox[f] : inbox[f][q] \in DOMAIN log
  BY DEF BaseInv, FeedPlaces, Clients
<1>2. \A q \in DOMAIN inbox[f] :
        InputAt(inbox[f][q])' = InputAt(inbox[f][q]) /\ log'[inbox[f][q]] = log[inbox[f][q]]
  BY <1>1, InputKept
<1> QED BY <1>2 DEF Crashes

\* A step that adds no crash and takes none in.
LEMMA AccountKept ==
  ASSUME BaseInv, SaidGrows, LogGrows, NEW f \in Fuzzers, Accounted(f),
         inbox'[f] = inbox[f], solutions'[f] = solutions[f],
         Objectives(f)' = Objectives(f)
  PROVE  Accounted(f)'
BY CrashesKept DEF Accounted

LEMMA FireObjectives ==
  ASSUME BaseInv, NEW c \in Clients, NEW e \in Event,
         said' = [said EXCEPT ![c] = Append(@, e)]
  PROVE  /\ e.kind = "Objective" => Objectives(c)' = Objectives(c) \cup {Len(said[c]) + 1}
         /\ e.kind # "Objective" => Objectives(c)' = Objectives(c)
         /\ \A f \in Fuzzers : f # c => Objectives(f)' = Objectives(f)
         /\ Len(said[c]) + 1 \notin Objectives(c)
<1>1. /\ DOMAIN said'[c] = DOMAIN said[c] \cup {Len(said[c]) + 1}
      /\ Len(said[c]) + 1 \notin DOMAIN said[c]
      /\ said'[c][Len(said[c]) + 1] = e
      /\ \A d \in Clients : d # c => said'[d] = said[d]
      /\ \A n \in DOMAIN said[c] : said'[c][n] = said[c][n]
  BY FireGrows DEF BaseInv, SaidGrows
<1> QED BY <1>1 DEF Objectives, Clients

LEMMA SendKeepsAccount ==
  ASSUME BaseInv, SolutionsInv, NEW f \in Fuzzers, UNCHANGED feedVars,
         NEW i, NEW tests, NEW depth, Evaluates(f, i, tests, depth, TRUE)
  PROVE  SolutionsInv'
<1>1. /\ SaidGrows /\ LogGrows /\ inbox' = inbox /\ f \in Clients /\ i \in Inputs
      /\ solutions \in [Fuzzers -> Nat] /\ Len(tests) + 1 \in Nat
  <2>1. SaidGrows BY EvaluateGrows DEF BaseInv
  <2>2. tests \in Seq(Test) /\ i \in Inputs BY DEF Evaluates, SameTests
  <2>3. Len(tests) \in Nat BY <2>2
  <2> QED BY <2>1, <2>2, <2>3 DEF LogGrows, feedVars, Clients, BaseInv, TypeOK
<1>2. \A g \in Fuzzers : Accounted(g) BY AccountedMeans DEF SolutionsInv
<1>3. \A g \in Fuzzers : g # f => solutions'[g] = solutions[g]
  BY <1>1, EvaluateOutcome DEF BaseInv
<1>4. CASE /\ solutions' = [solutions EXCEPT ![f] = @ + 1]
           /\ said' = [said EXCEPT ![f] =
                Append(@, [kind |-> "Objective", size |-> solutions[f] + 1])]
  <2> DEFINE e == [kind |-> "Objective", size |-> solutions[f] + 1]
  <2>1. e \in Event /\ e.kind = "Objective" BY <1>1, EventFields
  <2> HIDE DEF e
  <2>2. said' = [said EXCEPT ![f] = Append(@, e)] BY <1>4 DEF e
  <2>3. /\ Objectives(f)' = Objectives(f) \cup {Len(said[f]) + 1}
        /\ Len(said[f]) + 1 \notin Objectives(f)
        /\ \A g \in Fuzzers : g # f => Objectives(g)' = Objectives(g)
    BY <1>1, <2>1, <2>2, FireObjectives
  <2>4. Cardinality(Objectives(f)') = Cardinality(Objectives(f)) + 1
    BY <2>3, SetsFinite, FS_AddElement
  <2>5. Accounted(f)'
    <3>1. solutions'[f] = solutions[f] + 1 BY <1>1, <1>4
    <3>2. Crashes(f)' = Crashes(f)
          /\ \A q \in Crashes(f) : log'[inbox'[f][q]] = log[inbox[f][q]]
      BY <1>1, CrashesKept
    <3>3. /\ solutions[f] = Cardinality(Objectives(f)) + Cardinality(Crashes(f))
          /\ \A q \in Crashes(f) : log[inbox[f][q]].client \in Peers
      BY <1>2 DEF Accounted
    <3>4. Cardinality(Objectives(f)) \in Nat /\ Cardinality(Crashes(f)) \in Nat
      BY SetsFinite
    <3>5. solutions'[f] = Cardinality(Objectives(f)') + Cardinality(Crashes(f)')
      BY <2>4, <3>1, <3>2, <3>3, <3>4
    <3> QED BY <3>2, <3>3, <3>5 DEF Accounted
  <2>6. \A g \in Fuzzers : g # f => Accounted(g)'
    BY <1>1, <1>2, <1>3, <2>3, AccountKept
  <2>7. NoCrashAnnounced'
    <3> SUFFICES ASSUME NEW g \in Fuzzers, NEW n \in DOMAIN said'[g],
                        said'[g][n].kind = "NewTestcase"
                 PROVE  said'[g][n].input \notin Crashing
      BY DEF NoCrashAnnounced
    <3>1. n \in DOMAIN said[g] /\ said'[g][n] = said[g][n]
      BY <1>1, <2>1, <2>2, FireGrows DEF BaseInv, Clients, SaidGrows
    <3> QED BY <3>1 DEF SolutionsInv, NoCrashAnnounced
  <2> QED BY <2>5, <2>6, <2>7
          DEF SolutionsInv, SolutionsAccounted, Accounted, Crashes
<1>5. CASE /\ i \notin Crashing /\ solutions' = solutions
           /\ said' = [said EXCEPT ![f] = Append(@, NewTestcase(i, Len(tests) + 1))]
  <2> DEFINE e == NewTestcase(i, Len(tests) + 1)
  <2>1. e \in Event /\ e.kind = "NewTestcase" /\ e.input = i BY <1>1, EventFields
  <2> HIDE DEF e
  <2>2. said' = [said EXCEPT ![f] = Append(@, e)] BY <1>5 DEF e
  <2>3. \A g \in Fuzzers : Objectives(g)' = Objectives(g)
    BY <1>1, <2>1, <2>2, FireObjectives
  <2>4. \A g \in Fuzzers : Accounted(g)' BY <1>1, <1>2, <1>5, <2>3, AccountKept
  <2>5. NoCrashAnnounced'
    <3> SUFFICES ASSUME NEW g \in Fuzzers, NEW n \in DOMAIN said'[g],
                        said'[g][n].kind = "NewTestcase"
                 PROVE  said'[g][n].input \notin Crashing
      BY DEF NoCrashAnnounced
    <3>1. \/ n \in DOMAIN said[g] /\ said'[g][n] = said[g][n]
          \/ said'[g][n] = e
      BY <1>1, <2>1, <2>2, FireGrows DEF BaseInv, Clients, SaidGrows
    <3> QED BY <1>5, <2>1, <3>1 DEF SolutionsInv, NoCrashAnnounced
  <2> QED BY <2>4, <2>5 DEF SolutionsInv, SolutionsAccounted, Accounted, Crashes
<1>6. CASE said' = said /\ solutions' = solutions
  BY <1>1, <1>6 DEF SolutionsInv, NoCrashAnnounced, SolutionsAccounted, Objectives, InputAt,
     feedVars
<1> QED BY <1>4, <1>5, <1>6, EvaluateOutcome DEF BaseInv

\* A crash taken in is one of a network.
LEMMA ImportKeepsAccount ==
  ASSUME BaseInv, SolutionsInv, NEW f \in Fuzzers, Import(f)
  PROVE  SolutionsInv'
<1>1. PICK p \in DOMAIN log :
        /\ Evaluates(f, InputAt(p), corpus[f], 0, FALSE)
        /\ inbox' = [inbox EXCEPT ![f] = Append(@, p)]
        /\ UNCHANGED <<settled, log, loopVars, seeded, maxDepth>>
  BY ImportEvaluates
<1>2. /\ said' = said /\ log' = log
      /\ solutions' = IF InputAt(p) \in Crashing
                      THEN [solutions EXCEPT ![f] = @ + 1] ELSE solutions
  BY <1>1, EvaluateOutcome DEF BaseInv
<1>3. /\ inbox \in [Clients -> Seq(Nat)] /\ f \in Clients
      /\ log \in Seq(Entry) /\ solutions \in [Fuzzers -> Nat]
  BY DEF BaseInv, TypeOK, Clients, Entry
<1>4. /\ inbox'[f] = Append(inbox[f], p) /\ inbox[f] \in Seq(Nat) /\ p \in Nat
      /\ \A g \in Fuzzers : g # f => inbox'[g] = inbox[g]
  BY <1>1, <1>3 DEF Clients
<1>5. /\ Len(inbox[f]) \in Nat /\ DOMAIN inbox[f] = 1..Len(inbox[f])
      /\ DOMAIN inbox'[f] = DOMAIN inbox[f] \cup {Len(inbox[f]) + 1}
      /\ Len(inbox[f]) + 1 \notin DOMAIN inbox[f]
      /\ inbox'[f][Len(inbox[f]) + 1] = p
      /\ \A q \in DOMAIN inbox[f] : inbox'[f][q] = inbox[f][q]
  BY <1>4
<1>6. /\ \A g \in Fuzzers : Accounted(g) /\ Objectives(g)' = Objectives(g)
      /\ \A q : InputAt(q)' = InputAt(q)
  BY <1>2, AccountedMeans DEF SolutionsInv, Objectives, InputAt
<1>7. ASSUME NEW g \in Fuzzers, g # f PROVE Accounted(g)'
  <2>1. solutions'[g] = solutions[g] BY <1>2, <1>3, <1>7
  <2>2. Crashes(g)' = Crashes(g) /\ inbox'[g] = inbox[g] BY <1>4, <1>6, <1>7 DEF Crashes
  <2> QED BY <1>2, <1>6, <1>7, <2>1, <2>2 DEF Accounted
<1>8. Accounted(f)'
  <2>1. CASE InputAt(p) \in Crashing
    <3>1. solutions'[f] = solutions[f] + 1 BY <1>2, <1>3, <2>1
    <3>2. Crashes(f)' = Crashes(f) \cup {Len(inbox[f]) + 1}
      BY <1>5, <1>6, <2>1 DEF Crashes
    <3>3. Len(inbox[f]) + 1 \notin Crashes(f) BY <1>5 DEF Crashes
    <3>4. Cardinality(Crashes(f)') = Cardinality(Crashes(f)) + 1
      BY <3>2, <3>3, SetsFinite, FS_AddElement
    <3>5. Cardinality(Objectives(f)) \in Nat /\ Cardinality(Crashes(f)) \in Nat
      BY SetsFinite
    <3>6. solutions'[f] = Cardinality(Objectives(f)') + Cardinality(Crashes(f)')
      BY <1>6, <3>1, <3>4, <3>5 DEF Accounted
    <3>7. log[p].client \in Peers
      <4>1. log[p] \in Entry BY <1>3
      <4>2. log[p].client \in Clients BY <4>1 DEF Entry
      <4>3. /\ log[p].n \in DOMAIN said[log[p].client]
            /\ said[log[p].client][log[p].n].kind = "NewTestcase"
        BY DEF BaseInv, FeedPlaces
      <4>4. said[log[p].client][log[p].n].input \in Crashing BY <2>1 DEF InputAt
      <4> QED BY <4>2, <4>3, <4>4 DEF SolutionsInv, NoCrashAnnounced, Clients
    <3>8. \A q \in Crashes(f)' : log'[inbox'[f][q]].client \in Peers
      <4>1. \A q \in Crashes(f) : inbox'[f][q] = inbox[f][q] BY <1>5 DEF Crashes
      <4> QED BY <1>2, <1>5, <1>6, <3>2, <3>7, <4>1 DEF Accounted
    <3> QED BY <3>6, <3>8 DEF Accounted
  <2>2. CASE InputAt(p) \notin Crashing
    <3>1. Crashes(f)' = Crashes(f) BY <1>5, <1>6, <2>2 DEF Crashes
    <3>2. \A q \in Crashes(f) : inbox'[f][q] = inbox[f][q] BY <1>5 DEF Crashes
    <3> QED BY <1>2, <1>6, <2>2, <3>1, <3>2 DEF Accounted
  <2> QED BY <2>1, <2>2
<1>9. NoCrashAnnounced' BY <1>2 DEF SolutionsInv, NoCrashAnnounced
<1> QED BY <1>7, <1>8, <1>9 DEF SolutionsInv, SolutionsAccounted, Accounted, Crashes

\* Every other step evaluates nothing.
LEMMA OtherKeepsAccount ==
  ASSUME BaseInv, SolutionsInv, SaidGrows, LogGrows, UNCHANGED <<inbox, solutions>>,
         \A f \in Fuzzers : Objectives(f)' = Objectives(f),
         \A f \in Fuzzers : \A n \in DOMAIN said'[f] :
           (n \in DOMAIN said[f] /\ said'[f][n] = said[f][n])
             \/ said'[f][n].kind # "NewTestcase"
  PROVE  SolutionsInv'
<1>1. \A f \in Fuzzers : Accounted(f)'
  BY AccountedMeans, AccountKept DEF SolutionsInv
<1>2. NoCrashAnnounced' BY DEF SolutionsInv, NoCrashAnnounced
<1> QED BY <1>1, <1>2 DEF SolutionsInv, SolutionsAccounted, Accounted, Crashes

LEMMA LogAppends ==
  ASSUME BaseInv, NEW e, log' = Append(log, e) \/ log' = log
  PROVE  LogGrows
<1>1. log \in Seq(Entry) BY DEF BaseInv, TypeOK, Entry
<1>2. /\ DOMAIN Append(log, e) = 1..(Len(log) + 1) /\ DOMAIN log = 1..Len(log)
      /\ Len(log) \in Nat /\ \A p \in DOMAIN log : Append(log, e)[p] = log[p]
  BY <1>1
<1> QED BY <1>2 DEF LogGrows

LEMMA NextKeepsAccount ==
  ASSUME BaseInv, SolutionsInv, [Next]_vars
  PROVE  SolutionsInv'
<1>1. ASSUME NEW f \in Fuzzers, LoadSeed(f) PROVE SolutionsInv'
  BY <1>1, LoadEvaluates, SendKeepsAccount DEF BaseInv
<1>2. ASSUME NEW f \in Fuzzers, Mutate(f) PROVE SolutionsInv'
  BY <1>2, MutateEvaluates, SendKeepsAccount DEF BaseInv
<1>3. ASSUME NEW f \in Fuzzers, Import(f) PROVE SolutionsInv'
  BY <1>3, ImportKeepsAccount
<1>4. ASSUME said' = said, UNCHANGED <<inbox, solutions>>, LogGrows PROVE SolutionsInv'
  BY <1>4, SameGrows, OtherKeepsAccount DEF BaseInv, Objectives
<1>5. ASSUME NEW f \in Fuzzers, LoadDone(f) \/ FuzzOne(f) \/ StageDone(f) \/ ProcessDone(f)
      PROVE  SolutionsInv'
  BY <1>4, <1>5 DEF LoadDone, FuzzOne, StageDone, ProcessDone, stateVars, feedVars, LogGrows
<1>6. ASSUME NEW f \in Fuzzers, Report(f) PROVE SolutionsInv'
  <2>1. /\ SaidGrows /\ f \in Clients
        /\ said' = [said EXCEPT ![f] =
             Append(@, [kind |-> "UpdateUserStats", depth |-> maxDepth[f]])]
        /\ [kind |-> "UpdateUserStats", depth |-> maxDepth[f]] \in Event
        /\ UNCHANGED <<inbox, solutions, log>>
    BY <1>6, ReportBase DEF Report, feedVars, stateVars, Clients
  <2> DEFINE e == [kind |-> "UpdateUserStats", depth |-> maxDepth[f]]
  <2>2. e.kind # "Objective" /\ e.kind # "NewTestcase" OBVIOUS
  <2>3. said' = [said EXCEPT ![f] = Append(@, e)] /\ e \in Event BY <2>1
  <2> HIDE DEF e
  <2>4. \A g \in Fuzzers : Objectives(g)' = Objectives(g)
    BY <2>1, <2>2, <2>3, FireObjectives
  <2>5. \A g \in Fuzzers : \A n \in DOMAIN said'[g] :
          (n \in DOMAIN said[g] /\ said'[g][n] = said[g][n])
            \/ said'[g][n].kind # "NewTestcase"
    BY <2>1, <2>2, <2>3, FireGrows DEF BaseInv, Clients, SaidGrows
  <2> QED BY <2>1, <2>4, <2>5, OtherKeepsAccount DEF LogGrows
<1>7. ASSUME NEW c \in Clients, BrokerMsg(c) PROVE SolutionsInv'
  BY <1>4, <1>7, BrokerStep, LogAppends DEF stateVars
<1>8. ASSUME NEW k \in Peers, PeerSend(k) PROVE SolutionsInv'
  <2>1. /\ SaidGrows /\ LogGrows /\ UNCHANGED <<inbox, solutions>>
        /\ \A f \in Fuzzers : said'[f] = said[f]
    BY <1>8, PeerBase, ClientsDisjoint
       DEF PeerSend, feedVars, stateVars, LogGrows, Clients
  <2> QED BY <2>1, OtherKeepsAccount DEF Objectives
<1>9. ASSUME UNCHANGED vars PROVE SolutionsInv'
  BY <1>4, <1>9 DEF vars, feedVars, stateVars, LogGrows
<1> QED BY <1>1, <1>2, <1>3, <1>5, <1>6, <1>7, <1>8, <1>9 DEF Next, Fuzz

\* A fuzzer's solutions are those it announced and those networks sent it.
THEOREM SolutionsAccountedAlways == Spec => []SolutionsAccounted
<1>1. Init => SolutionsInv
  <2> SUFFICES ASSUME Init PROVE SolutionsInv
    OBVIOUS
  <2>1. \A f \in Fuzzers : said[f] = <<>> /\ inbox[f] = <<>> /\ solutions[f] = 0
    BY DEF Init, Feed!Init, Clients
  <2>2. \A f \in Fuzzers : Objectives(f) = {} /\ Crashes(f) = {}
    BY <2>1 DEF Objectives, Crashes
  <2>3. Cardinality({}) = 0 BY FS_EmptySet
  <2>4. \A f \in Fuzzers : Accounted(f)
    <3> SUFFICES ASSUME NEW f \in Fuzzers PROVE Accounted(f)
      OBVIOUS
    <3>1. solutions[f] = 0 /\ Cardinality(Objectives(f)) = 0 /\ Cardinality(Crashes(f)) = 0
      BY <2>1, <2>2, <2>3
    <3> QED BY <2>2, <3>1 DEF Accounted
  <2> QED BY <2>1, <2>4, AccountedMeans DEF SolutionsInv, NoCrashAnnounced
<1>2. BaseInv /\ SolutionsInv /\ [Next]_vars => SolutionsInv' BY NextKeepsAccount
<1>3. SolutionsInv => SolutionsAccounted BY DEF SolutionsInv
<1> QED BY <1>1, <1>2, <1>3, BaseInvariant, PTL DEF Spec

-----------------------------------------------------------------------------
(* Announcements *)

\* A test case of the fuzzer's own: loaded, or found by mutation.
Own(f, s) == s <= seeded[f] \/ corpus[f][s].depth >= 2

IsFind(f, n) == said[f][n].kind = "NewTestcase"

\* Events and own test cases are in one-to-one correspondence.
Announces(f) ==
  /\ \A n \in DOMAIN said[f] : IsFind(f, n) => \E s \in DOMAIN corpus[f] :
       said[f][n].size = s /\ corpus[f][s].input = said[f][n].input /\ Own(f, s)
  /\ \A m, n \in DOMAIN said[f] :
       IsFind(f, m) /\ IsFind(f, n) /\ said[f][m].size = said[f][n].size => m = n
  /\ \A s \in DOMAIN corpus[f] : Own(f, s) =>
       \E n \in DOMAIN said[f] : IsFind(f, n) /\ said[f][n].size = s

AnnounceInv == \A f \in Fuzzers : Announces(f)

LEMMA AnnouncesKept ==
  ASSUME NEW f \in Fuzzers, Announces(f),
         said'[f] = said[f], corpus'[f] = corpus[f], seeded'[f] = seeded[f]
  PROVE  Announces(f)'
BY DEF Announces, Own, IsFind

LEMMA AnnounceImplies ==
  ASSUME BaseInv, AnnounceInv
  PROVE  AnnouncesOwnFinds
<1> SUFFICES ASSUME NEW f \in Fuzzers, NEW s \in DOMAIN corpus[f]
             PROVE  Cardinality(Announced(f, s)) =
                      IF s <= seeded[f] \/ corpus[f][s].depth >= 2 THEN 1 ELSE 0
  BY DEF AnnouncesOwnFinds, AnnounceInv, Announces, IsFind
<1>1. Announces(f) BY DEF AnnounceInv
<1>2. CASE Own(f, s)
  <2>1. PICK n \in DOMAIN said[f] : IsFind(f, n) /\ said[f][n].size = s
    BY <1>1, <1>2 DEF Announces
  <2>2. Announced(f, s) = {n} BY <1>1, <2>1 DEF Announces, Announced, IsFind
  <2>3. Cardinality({n}) = 1 BY FS_Singleton
  <2> QED BY <1>2, <2>2, <2>3 DEF Own
<1>3. CASE ~Own(f, s)
  <2>1. Announced(f, s) = {} BY <1>1, <1>3 DEF Announces, Announced, IsFind
  <2>2. Cardinality({}) = 0 BY FS_EmptySet
  <2> QED BY <1>3, <2>1, <2>2 DEF Own
<1> QED BY <1>2, <1>3

\* An event that is no test case announces nothing.
LEMMA OtherEvent ==
  ASSUME BaseInv, NEW f \in Fuzzers, Announces(f), NEW e \in Event, e.kind # "NewTestcase",
         said' = [said EXCEPT ![f] = Append(@, e)],
         Len(corpus'[f]) = Len(corpus[f]), corpus'[f] \in Seq(Test),
         \A s \in DOMAIN corpus[f] : /\ corpus'[f][s].input = corpus[f][s].input
                                     /\ Own(f, s)' <=> Own(f, s)
  PROVE  Announces(f)'
<1>1. /\ DOMAIN said'[f] = DOMAIN said[f] \cup {Len(said[f]) + 1}
      /\ said'[f][Len(said[f]) + 1] = e
      /\ \A n \in DOMAIN said[f] : said'[f][n] = said[f][n]
  BY FireGrows DEF BaseInv, Clients, SaidGrows
<1>2. DOMAIN corpus'[f] = DOMAIN corpus[f]
  <2>1. corpus[f] \in Seq(Test) BY DEF BaseInv, TypeOK, Test
  <2> QED BY <2>1
<1>3. \A n \in DOMAIN said'[f] :
        IsFind(f, n)' => n \in DOMAIN said[f] /\ said'[f][n] = said[f][n] /\ IsFind(f, n)
  BY <1>1 DEF IsFind
<1>4. \A n \in DOMAIN said[f] : IsFind(f, n) => n \in DOMAIN said'[f] /\ IsFind(f, n)'
  BY <1>1 DEF IsFind
<1>5. \A n \in DOMAIN said'[f] : IsFind(f, n)' => \E s \in DOMAIN corpus'[f] :
        said'[f][n].size = s /\ corpus'[f][s].input = said'[f][n].input /\ Own(f, s)'
  BY <1>2, <1>3 DEF Announces
<1>6. \A m, n \in DOMAIN said'[f] :
        IsFind(f, m)' /\ IsFind(f, n)' /\ said'[f][m].size = said'[f][n].size => m = n
  BY <1>3 DEF Announces
<1>7. \A s \in DOMAIN corpus'[f] : Own(f, s)' =>
        \E n \in DOMAIN said'[f] : IsFind(f, n)' /\ said'[f][n].size = s
  BY <1>1, <1>2, <1>4 DEF Announces
<1> QED BY <1>5, <1>6, <1>7 DEF Announces, Own

\* The tests get metadata, and that is all.
LEMMA NoEvent ==
  ASSUME BaseInv, NEW f \in Fuzzers, Announces(f), said'[f] = said[f],
         Len(corpus'[f]) = Len(corpus[f]), corpus'[f] \in Seq(Test),
         \A s \in DOMAIN corpus[f] : /\ corpus'[f][s].input = corpus[f][s].input
                                     /\ Own(f, s)' <=> Own(f, s)
  PROVE  Announces(f)'
<1>1. DOMAIN corpus'[f] = DOMAIN corpus[f]
  <2>1. corpus[f] \in Seq(Test) BY DEF BaseInv, TypeOK, Test
  <2> QED BY <2>1
<1>2. \A n \in DOMAIN said[f] : IsFind(f, n)' <=> IsFind(f, n) BY DEF IsFind
<1>3. \A n \in DOMAIN said'[f] : IsFind(f, n)' => \E s \in DOMAIN corpus'[f] :
        said'[f][n].size = s /\ corpus'[f][s].input = said'[f][n].input /\ Own(f, s)'
  BY <1>1, <1>2 DEF Announces
<1>4. \A m, n \in DOMAIN said'[f] :
        IsFind(f, m)' /\ IsFind(f, n)' /\ said'[f][m].size = said'[f][n].size => m = n
  BY <1>2 DEF Announces
<1>5. \A s \in DOMAIN corpus'[f] : Own(f, s)' =>
        \E n \in DOMAIN said'[f] : IsFind(f, n)' /\ said'[f][n].size = s
  BY <1>1, <1>2 DEF Announces
<1> QED BY <1>3, <1>4, <1>5 DEF Announces, Own

\* A test case is added, with its event exactly if it is the fuzzer's own.
LEMMA NewFind ==
  ASSUME BaseInv, NEW f \in Fuzzers, Announces(f), NEW i \in Inputs, NEW send \in BOOLEAN,
         NEW last \in Nat, last = Len(corpus[f]) + 1,
         Len(corpus'[f]) = last, corpus'[f] \in Seq(Test), corpus'[f][last].input = i,
         Own(f, last)' <=> send,
         send => said' = [said EXCEPT ![f] = Append(@, NewTestcase(i, last))],
         ~send => said' = said,
         \A s \in DOMAIN corpus[f] : /\ corpus'[f][s].input = corpus[f][s].input
                                     /\ Own(f, s)' <=> Own(f, s)
  PROVE  Announces(f)'
<1>1. last \notin DOMAIN corpus[f] /\ DOMAIN corpus'[f] = DOMAIN corpus[f] \cup {last}
  <2>1. corpus[f] \in Seq(Test) BY DEF BaseInv, TypeOK, Test
  <2> QED BY <2>1
<1>2. CASE send
  <2>1. PICK e \in Event : e.kind = "NewTestcase" /\ e.input = i /\ e.size = last
                           /\ said' = [said EXCEPT ![f] = Append(@, e)]
    BY <1>2, EventFields
  <2>2. PICK new \in Nat :
          /\ DOMAIN said'[f] = DOMAIN said[f] \cup {new}
          /\ new \notin DOMAIN said[f] /\ said'[f][new] = e
          /\ \A n \in DOMAIN said[f] : said'[f][n] = said[f][n]
    BY <2>1, FireGrows DEF BaseInv, Clients, SaidGrows
  <2>3. /\ \A n \in DOMAIN said[f] : IsFind(f, n)' <=> IsFind(f, n)
        /\ IsFind(f, new)' /\ said'[f][new].size = last /\ said'[f][new].input = i
    BY <2>1, <2>2 DEF IsFind
  <2>4. \A n \in DOMAIN said'[f] : IsFind(f, n)' => \E s \in DOMAIN corpus'[f] :
          said'[f][n].size = s /\ corpus'[f][s].input = said'[f][n].input /\ Own(f, s)'
    <3> SUFFICES ASSUME NEW n \in DOMAIN said'[f], IsFind(f, n)'
                 PROVE  \E s \in DOMAIN corpus'[f] :
                          said'[f][n].size = s /\ corpus'[f][s].input = said'[f][n].input
                            /\ Own(f, s)'
      OBVIOUS
    <3>1. CASE n = new
      <4>1. last \in DOMAIN corpus'[f] BY <1>1
      <4> QED BY <1>2, <2>3, <3>1, <4>1
    <3>2. CASE n # new
      <4>1. n \in DOMAIN said[f] /\ IsFind(f, n) /\ said'[f][n] = said[f][n]
        BY <2>2, <2>3, <3>2
      <4>2. PICK s \in DOMAIN corpus[f] :
              said[f][n].size = s /\ corpus[f][s].input = said[f][n].input /\ Own(f, s)
        BY <4>1 DEF Announces
      <4>3. s \in DOMAIN corpus'[f] /\ corpus'[f][s].input = corpus[f][s].input /\ Own(f, s)'
        BY <1>1, <4>2
      <4> QED BY <4>1, <4>2, <4>3
    <3> QED BY <3>1, <3>2
  <2>5. \A m, n \in DOMAIN said'[f] :
          IsFind(f, m)' /\ IsFind(f, n)' /\ said'[f][m].size = said'[f][n].size => m = n
    BY <1>1, <2>2, <2>3 DEF Announces
  <2>6. \A s \in DOMAIN corpus'[f] : Own(f, s)' =>
          \E n \in DOMAIN said'[f] : IsFind(f, n)' /\ said'[f][n].size = s
    BY <1>1, <2>2, <2>3 DEF Announces
  <2> QED BY <2>4, <2>5, <2>6 DEF Announces
<1>3. CASE ~send
  <2>1. said' = said /\ \A n \in DOMAIN said[f] : IsFind(f, n)' <=> IsFind(f, n)
    BY <1>3 DEF IsFind
  <2>2. \A n \in DOMAIN said'[f] : IsFind(f, n)' => \E s \in DOMAIN corpus'[f] :
          said'[f][n].size = s /\ corpus'[f][s].input = said'[f][n].input /\ Own(f, s)'
    BY <1>1, <2>1 DEF Announces
  <2>3. \A m, n \in DOMAIN said'[f] :
          IsFind(f, m)' /\ IsFind(f, n)' /\ said'[f][m].size = said'[f][n].size => m = n
    BY <2>1 DEF Announces
  <2>4. \A s \in DOMAIN corpus'[f] : Own(f, s)' =>
          \E n \in DOMAIN said'[f] : IsFind(f, n)' /\ said'[f][n].size = s
    BY <1>1, <1>3, <2>1 DEF Announces
  <2> QED BY <2>2, <2>3, <2>4 DEF Announces
<1> QED BY <1>2, <1>3

\* Loading and mutation add test cases of the fuzzer's own and announce them,
\* importing adds others and announces none.
Counted(f, depth, send) ==
  \/ send /\ pc[f] = "load" /\ seeded'[f] = Len(corpus'[f])
  \/ send /\ depth >= 2 /\ seeded'[f] = seeded[f]
  \/ ~send /\ depth = 0 /\ seeded'[f] = seeded[f]

LEMMA EvaluateAnnounces ==
  ASSUME BaseInv, AnnounceInv, NEW f \in Fuzzers, NEW i, NEW tests, NEW depth, NEW send,
         Evaluates(f, i, tests, depth, send), Counted(f, depth, send),
         \A g \in Fuzzers : g # f => seeded'[g] = seeded[g]
  PROVE  AnnounceInv'
<1>1. /\ corpus[f] \in Seq(Test) /\ corpus' \in [Fuzzers -> Seq(Test)]
      /\ corpus \in [Fuzzers -> Seq(Test)] /\ solutions[f] \in Nat
      /\ seeded[f] \in Nat /\ seeded[f] <= Len(corpus[f])
      /\ pc[f] = "load" => seeded[f] = Len(corpus[f])
  BY EvaluateGrows DEF BaseInv, TypeOK, Test, LoopPlaces
<1>2. /\ i \in Inputs /\ depth \in Nat /\ send \in BOOLEAN
      /\ tests \in Seq(Test) /\ Len(tests) = Len(corpus[f])
      /\ \A s \in DOMAIN corpus[f] :
           /\ tests[s].input = corpus[f][s].input
           /\ \/ tests[s].depth = corpus[f][s].depth
              \/ corpus[f][s].depth = 0 /\ tests[s].depth = 1
  BY DEF Evaluates, SameTests
<1>3. /\ Len(corpus[f]) \in Nat /\ DOMAIN corpus[f] = 1..Len(corpus[f])
      /\ DOMAIN tests = DOMAIN corpus[f]
  BY <1>1, <1>2
<1>4. \A s \in DOMAIN corpus[f] : corpus[f][s].depth \in Nat
  <2>1. \A s \in DOMAIN corpus[f] : corpus[f][s] \in Test BY <1>1
  <2> QED BY <2>1 DEF Test
<1>5. ASSUME NEW g \in Fuzzers, g # f PROVE Announces(g)'
  <2>1. said'[g] = said[g] /\ corpus'[g] = corpus[g]
    <3>1. said \in [Clients -> Seq(Event)] /\ g \in Clients /\ f \in Clients
      BY DEF BaseInv, TypeOK, Clients
    <3> QED BY <1>1, <1>5, <3>1, EvaluateOutcome DEF BaseInv
  <2> QED BY <1>5, <2>1, AnnouncesKept DEF AnnounceInv
<1> SUFFICES Announces(f)'
  BY <1>5 DEF AnnounceInv
<1>6. Announces(f) /\ f \in Clients BY DEF AnnounceInv, Clients
<1>7. ASSUME Len(corpus'[f]) \in Nat, Len(corpus[f]) <= Len(corpus'[f]),
             \A s \in DOMAIN corpus[f] : corpus'[f][s] = tests[s]
      PROVE  \A s \in DOMAIN corpus[f] : /\ corpus'[f][s].input = corpus[f][s].input
                                         /\ Own(f, s)' <=> Own(f, s)
  <2> SUFFICES ASSUME NEW s \in DOMAIN corpus[f]
               PROVE  /\ corpus'[f][s].input = corpus[f][s].input
                      /\ Own(f, s)' <=> Own(f, s)
    OBVIOUS
  <2>1. corpus'[f][s].depth >= 2 <=> corpus[f][s].depth >= 2 BY <1>2, <1>4, <1>7
  <2>2. s <= seeded'[f] <=> s <= seeded[f]
    <3>1. CASE pc[f] = "load" /\ seeded'[f] = Len(corpus'[f])
      BY <1>1, <1>3, <1>7, <3>1
    <3>2. CASE seeded'[f] = seeded[f] BY <3>2
    <3> QED BY <3>1, <3>2 DEF Counted
  <2> QED BY <1>2, <1>7, <2>1, <2>2 DEF Own
<1>8. CASE corpus' = [corpus EXCEPT ![f] = tests]
  <2>1. corpus'[f] = tests BY <1>1, <1>8
  <2>2. /\ Len(corpus'[f]) = Len(corpus[f]) /\ corpus'[f] \in Seq(Test)
        /\ \A s \in DOMAIN corpus[f] : /\ corpus'[f][s].input = corpus[f][s].input
                                       /\ Own(f, s)' <=> Own(f, s)
    BY <1>2, <1>3, <1>7, <2>1
  <2>3. CASE said' = said BY <1>6, <2>2, <2>3, NoEvent
  <2>4. CASE said' = [said EXCEPT ![f] =
               Append(@, [kind |-> "Objective", size |-> solutions[f] + 1])]
    <3>1. PICK e \in Event : e.kind = "Objective" /\ said' = [said EXCEPT ![f] = Append(@, e)]
      <4>1. solutions[f] + 1 \in Nat BY <1>1
      <4> QED BY <2>4, <4>1, EventFields
    <3> QED BY <1>6, <2>2, <3>1, OtherEvent
  <2>5. CASE i \notin Crashing /\ ~(Reaches[i] \subseteq covered[f])
    <3>1. corpus'[f] = Append(tests, [input |-> i, depth |-> depth])
      BY <1>1, <2>5, EvaluateOutcome DEF BaseInv
    <3>2. Len(corpus'[f]) = Len(tests) + 1 BY <1>2, <3>1
    <3> QED BY <1>2, <1>3, <2>1, <3>2
  <2> QED BY <1>2, <2>3, <2>4, <2>5, EvaluateOutcome DEF BaseInv
<1>9. CASE corpus' = [corpus EXCEPT ![f] = Append(tests, [input |-> i, depth |-> depth])]
           /\ (send => said' = [said EXCEPT ![f] = Append(@, NewTestcase(i, Len(tests) + 1))])
           /\ (~send => said' = said)
  <2>1. corpus'[f] = Append(tests, [input |-> i, depth |-> depth]) BY <1>1, <1>9
  <2>2. PICK last \in Nat : last = Len(corpus[f]) + 1 BY <1>3
  <2>3. /\ Len(corpus'[f]) = last /\ corpus'[f] \in Seq(Test)
        /\ corpus'[f][last] = [input |-> i, depth |-> depth]
        /\ \A s \in DOMAIN corpus[f] : corpus'[f][s] = tests[s]
    BY <1>1, <1>2, <1>3, <2>1, <2>2
  <2>4. \A s \in DOMAIN corpus[f] : /\ corpus'[f][s].input = corpus[f][s].input
                                    /\ Own(f, s)' <=> Own(f, s)
    BY <1>3, <1>7, <2>2, <2>3
  <2>5. Own(f, last)' <=> send
    <3>1. corpus'[f][last].depth = depth BY <2>3
    <3>2. CASE send /\ pc[f] = "load" /\ seeded'[f] = Len(corpus'[f])
      BY <2>2, <2>3, <3>2 DEF Own
    <3>3. CASE send /\ depth >= 2 BY <3>1, <3>3 DEF Own
    <3>4. CASE ~send /\ depth = 0 /\ seeded'[f] = seeded[f]
      BY <1>1, <1>3, <2>2, <3>1, <3>4 DEF Own
    <3> QED BY <3>2, <3>3, <3>4 DEF Counted
  <2>6. corpus'[f][last].input = i BY <2>3
  <2>7. send => said' = [said EXCEPT ![f] = Append(@, NewTestcase(i, last))]
    BY <1>2, <1>9, <2>2
  <2> QED BY <1>2, <1>6, <1>9, <2>2, <2>3, <2>4, <2>5, <2>6, <2>7, NewFind
<1> QED BY <1>8, <1>9, EvaluateOutcome DEF BaseInv

LEMMA NextAnnounces ==
  ASSUME BaseInv, AnnounceInv, [Next]_vars
  PROVE  AnnounceInv'
<1> USE DEF BaseInv
<1>1. ASSUME NEW f \in Fuzzers, LoadSeed(f) PROVE AnnounceInv'
  <2>1. PICK i : Evaluates(f, i, corpus[f], 0, TRUE) BY <1>1, LoadEvaluates
  <2>2. pc[f] = "load" /\ seeded' = [seeded EXCEPT ![f] = Len(corpus'[f])]
    BY <1>1, LoadEvaluates
  <2>3. /\ seeded'[f] = Len(corpus'[f])
        /\ \A g \in Fuzzers : g # f => seeded'[g] = seeded[g]
    BY <2>2 DEF TypeOK
  <2>4. Counted(f, 0, TRUE) BY <2>2, <2>3 DEF Counted
  <2> QED BY <2>1, <2>3, <2>4, EvaluateAnnounces
<1>2. ASSUME NEW f \in Fuzzers, Mutate(f) PROVE AnnounceInv'
  <2>1. PICK i : Evaluates(f, i, [corpus[f] EXCEPT ![idx[f]].depth = ParentDepth(f)],
                           ParentDepth(f) + 1, TRUE)
    BY <1>2, MutateEvaluates
  <2>2. pc[f] = "stage" /\ seeded' = seeded BY <1>2, MutateEvaluates
  <2>3. idx[f] \in DOMAIN corpus[f] BY <2>2 DEF LoopPlaces
  <2>4. ParentDepth(f) \in Nat /\ ParentDepth(f) >= 1 BY <2>3, ParentIsSame
  <2>5. Counted(f, ParentDepth(f) + 1, TRUE) BY <2>2, <2>4 DEF Counted
  <2> QED BY <2>1, <2>2, <2>5, EvaluateAnnounces
<1>3. ASSUME NEW f \in Fuzzers, Import(f) PROVE AnnounceInv'
  <2>1. PICK i : Evaluates(f, i, corpus[f], 0, FALSE) BY <1>3, ImportEvaluates
  <2>2. seeded' = seeded BY <1>3, ImportEvaluates
  <2>3. Counted(f, 0, FALSE) BY <2>2 DEF Counted
  <2> QED BY <2>1, <2>2, <2>3, EvaluateAnnounces
<1>4. ASSUME \A f \in Fuzzers :
               said'[f] = said[f] /\ corpus'[f] = corpus[f] /\ seeded'[f] = seeded[f]
      PROVE  AnnounceInv'
  BY <1>4, AnnouncesKept DEF AnnounceInv
<1>5. ASSUME NEW f \in Fuzzers, LoadDone(f) \/ FuzzOne(f) \/ StageDone(f) \/ ProcessDone(f)
      PROVE  AnnounceInv'
  BY <1>4, <1>5 DEF LoadDone, FuzzOne, StageDone, ProcessDone, stateVars
<1>6. ASSUME NEW f \in Fuzzers, Report(f) PROVE AnnounceInv'
  <2>1. PICK e \in Event : /\ e.kind # "NewTestcase"
                           /\ said' = [said EXCEPT ![f] = Append(@, e)]
    <3>1. [kind |-> "UpdateUserStats", depth |-> maxDepth[f]].kind # "NewTestcase"
      OBVIOUS
    <3> QED BY <1>6, <3>1, ReportBase
  <2>2. UNCHANGED <<corpus, seeded>> BY <1>6 DEF Report, stateVars
  <2>3. f \in Clients /\ corpus'[f] \in Seq(Test) BY <2>2 DEF TypeOK, Test, Clients
  <2>4. \A s \in DOMAIN corpus[f] : Own(f, s)' <=> Own(f, s) BY <2>2 DEF Own
  <2>5. Announces(f)' BY <2>1, <2>2, <2>3, <2>4, OtherEvent DEF AnnounceInv
  <2>6. \A g \in Fuzzers : g # f => said'[g] = said[g]
    BY <2>1, <2>3, FireGrows DEF Clients
  <2>7. \A g \in Fuzzers : g # f => Announces(g)'
    BY <2>2, <2>6, AnnouncesKept DEF AnnounceInv
  <2> QED BY <2>5, <2>7 DEF AnnounceInv
<1>7. ASSUME NEW c \in Clients, BrokerMsg(c) PROVE AnnounceInv'
  BY <1>4, <1>7, BrokerStep DEF stateVars
<1>8. ASSUME NEW k \in Peers, PeerSend(k) PROVE AnnounceInv'
  <2>1. \A f \in Fuzzers : said'[f] = said[f]
    BY <1>8, PeerBase, ClientsDisjoint DEF Clients
  <2> QED BY <1>4, <1>8, <2>1 DEF PeerSend, stateVars
<1>9. ASSUME UNCHANGED vars PROVE AnnounceInv'
  BY <1>4, <1>9 DEF vars, stateVars
<1> QED BY <1>1, <1>2, <1>3, <1>5, <1>6, <1>7, <1>8, <1>9 DEF Next, Fuzz

\* The inductive invariant behind it: the events of a fuzzer's new test cases and
\* the test cases of its own are in one-to-one correspondence.
THEOREM AnnounceInvariant == Spec => []AnnounceInv
<1>1. Init => AnnounceInv
  BY DEF Init, AnnounceInv, Announces, Clients
<1>2. BaseInv /\ AnnounceInv /\ [Next]_vars => AnnounceInv' BY NextAnnounces
<1> QED BY <1>1, <1>2, BaseInvariant, PTL DEF Spec

\* A fuzzer announces exactly its own finds, each once: test cases do not circle.
THEOREM AnnouncesOwnFindsAlways == Spec => []AnnouncesOwnFinds
<1>1. BaseInv /\ AnnounceInv => AnnouncesOwnFinds BY AnnounceImplies
<1> QED BY <1>1, BaseInvariant, AnnounceInvariant, PTL

-----------------------------------------------------------------------------
(* Depths *)

\* max_depth is one ahead of the reports while one is due.
DepthOf(f) ==
  /\ pc[f] = "report" => maxDepth[f] = Cardinality(Reports(f)) + 2
  /\ pc[f] # "report" =>
       maxDepth[f] = IF Reports(f) = {} THEN 0 ELSE Cardinality(Reports(f)) + 1
  /\ \A n \in Reports(f) :
       /\ said[f][n].depth = Cardinality({m \in Reports(f) : m < n}) + 2
       /\ \E s \in DOMAIN corpus[f] : corpus[f][s].depth = said[f][n].depth
  /\ pc[f] = "report" => \E s \in DOMAIN corpus[f] : corpus[f][s].depth = maxDepth[f]
  /\ \A s \in DOMAIN corpus[f] :
       \/ corpus[f][s].depth <= Cardinality(Reports(f)) + 1
       \/ pc[f] = "report" /\ corpus[f][s].depth = maxDepth[f]

DepthInv == \A f \in Fuzzers : DepthOf(f)

LEMMA DepthImplies ==
  ASSUME DepthInv
  PROVE  DepthsReported
BY DEF DepthInv, DepthOf, DepthsReported

LEMMA ReportsFinite ==
  ASSUME BaseInv, NEW f \in Fuzzers
  PROVE  IsFiniteSet(Reports(f)) /\ Cardinality(Reports(f)) \in Nat
<1>1. said[f] \in Seq(Event) BY DEF BaseInv, TypeOK, Clients
<1>2. Len(said[f]) \in Nat /\ DOMAIN said[f] = 1..Len(said[f]) BY <1>1
<1>3. IsFiniteSet(1..Len(said[f])) BY <1>2, FS_Interval
<1>4. Reports(f) \in SUBSET (1..Len(said[f])) BY <1>2 DEF Reports
<1>5. IsFiniteSet(Reports(f)) BY <1>3, <1>4, FS_Subset
<1> QED BY <1>5, FS_CardinalityType

\* An evaluation reports nothing.
LEMMA EvaluateReports ==
  ASSUME BaseInv, NEW f \in Fuzzers, NEW i, NEW tests, NEW depth, NEW send,
         Evaluates(f, i, tests, depth, send)
  PROVE  \A g \in Fuzzers : /\ Reports(g)' = Reports(g)
                            /\ \A n \in Reports(g) : said'[g][n] = said[g][n]
<1>1. CASE said' = said BY <1>1 DEF Reports
<1>2. ASSUME NEW e \in Event, e.kind # "UpdateUserStats",
             said' = [said EXCEPT ![f] = Append(@, e)]
      PROVE  \A g \in Fuzzers : /\ Reports(g)' = Reports(g)
                                /\ \A n \in Reports(g) : said'[g][n] = said[g][n]
  <2>1. /\ DOMAIN said'[f] = DOMAIN said[f] \cup {Len(said[f]) + 1}
        /\ said'[f][Len(said[f]) + 1] = e
        /\ \A g \in Fuzzers : g # f => said'[g] = said[g]
        /\ \A n \in DOMAIN said[f] : said'[f][n] = said[f][n]
    BY <1>2, FireGrows DEF BaseInv, Clients, SaidGrows
  <2> QED BY <1>2, <2>1 DEF Reports
<1>3. CASE said' = [said EXCEPT ![f] =
             Append(@, [kind |-> "Objective", size |-> solutions[f] + 1])]
  <2>1. solutions[f] + 1 \in Nat BY DEF BaseInv, TypeOK
  <2>2. PICK e \in Event : /\ e.kind = "Objective"
                           /\ said' = [said EXCEPT ![f] = Append(@, e)]
    BY <1>3, <2>1, EventFields
  <2> QED BY <1>2, <2>2
<1>4. CASE said' = [said EXCEPT ![f] = Append(@, NewTestcase(i, Len(tests) + 1))]
  <2>1. i \in Inputs /\ Len(tests) + 1 \in Nat
    <3>1. i \in Inputs /\ tests \in Seq(Test) BY DEF Evaluates, SameTests
    <3> QED BY <3>1
  <2> DEFINE e == NewTestcase(i, Len(tests) + 1)
  <2>2. e \in Event /\ e.kind # "UpdateUserStats" BY <2>1, EventFields
  <2>3. said' = [said EXCEPT ![f] = Append(@, e)] BY <1>4
  <2> HIDE DEF e
  <2> QED BY <1>2, <2>2, <2>3
<1>5. send \in BOOLEAN BY DEF Evaluates
<1> QED BY <1>1, <1>3, <1>4, <1>5, EvaluateOutcome DEF BaseInv

\* Metadata given to a test changes no depth above 1.
Deepens(f, i, depth) ==
  /\ DOMAIN corpus[f] \subseteq DOMAIN corpus'[f]
  /\ \A s \in DOMAIN corpus[f] :
       /\ corpus[f][s].depth \in Nat
       /\ \/ corpus'[f][s].depth = corpus[f][s].depth
          \/ corpus[f][s].depth = 0 /\ corpus'[f][s].depth = 1
  /\ \A s \in DOMAIN corpus'[f] :
       s \in DOMAIN corpus[f] \/ (IsCorpus(f, i) /\ corpus'[f][s].depth = depth)
  /\ IsCorpus(f, i) => \E s \in DOMAIN corpus'[f] : corpus'[f][s].depth = depth

LEMMA DepthsKept ==
  ASSUME BaseInv, NEW f \in Fuzzers, NEW i, NEW tests, NEW depth, NEW send,
         Evaluates(f, i, tests, depth, send)
  PROVE  Deepens(f, i, depth)
<1>1. /\ corpus \in [Fuzzers -> Seq(Test)] /\ corpus[f] \in Seq(Test)
      /\ depth \in Nat /\ tests \in Seq(Test) /\ Len(tests) = Len(corpus[f])
      /\ \A s \in DOMAIN corpus[f] :
           \/ tests[s].depth = corpus[f][s].depth
           \/ corpus[f][s].depth = 0 /\ tests[s].depth = 1
  BY DEF BaseInv, TypeOK, Test, Evaluates, SameTests
<1>2. /\ Len(corpus[f]) \in Nat /\ DOMAIN corpus[f] = 1..Len(corpus[f])
      /\ DOMAIN tests = DOMAIN corpus[f]
  BY <1>1
<1>3. \A s \in DOMAIN corpus[f] : corpus[f][s].depth \in Nat
  <2>1. \A s \in DOMAIN corpus[f] : corpus[f][s] \in Test BY <1>1
  <2> QED BY <2>1 DEF Test
<1>4. CASE IsCorpus(f, i)
  <2>0. i \notin Crashing /\ ~(Reaches[i] \subseteq covered[f])
    BY <1>4 DEF IsCorpus, IsSolution, Interesting
  <2>1. corpus'[f] = Append(tests, [input |-> i, depth |-> depth])
    BY <1>1, <2>0, EvaluateOutcome DEF BaseInv
  <2>2. PICK last \in Nat : last = Len(corpus[f]) + 1 BY <1>2
  <2>3. /\ DOMAIN corpus'[f] = DOMAIN corpus[f] \cup {last}
        /\ corpus'[f][last] = [input |-> i, depth |-> depth]
        /\ \A s \in DOMAIN corpus[f] : corpus'[f][s] = tests[s]
    BY <1>1, <1>2, <2>1, <2>2
  <2>4. corpus'[f][last].depth = depth BY <2>3
  <2>5. \A s \in DOMAIN corpus[f] :
          \/ corpus'[f][s].depth = corpus[f][s].depth
          \/ corpus[f][s].depth = 0 /\ corpus'[f][s].depth = 1
    BY <1>1, <2>3
  <2>6. \A s \in DOMAIN corpus'[f] : s \in DOMAIN corpus[f] \/ corpus'[f][s].depth = depth
    BY <2>3, <2>4
  <2>7. \E s \in DOMAIN corpus'[f] : corpus'[f][s].depth = depth BY <2>3, <2>4
  <2> QED BY <1>3, <1>4, <2>3, <2>5, <2>6, <2>7 DEF Deepens
<1>5. CASE ~IsCorpus(f, i)
  <2>1. i \in Crashing \/ Reaches[i] \subseteq covered[f]
    BY <1>5 DEF IsCorpus, IsSolution, Interesting
  <2>2. corpus' = [corpus EXCEPT ![f] = tests] BY <2>1, EvaluateOutcome DEF BaseInv
  <2>3. corpus'[f] = tests BY <1>1, <2>2
  <2>4. \A s \in DOMAIN corpus[f] :
          \/ corpus'[f][s].depth = corpus[f][s].depth
          \/ corpus[f][s].depth = 0 /\ corpus'[f][s].depth = 1
    BY <1>1, <2>3
  <2> QED BY <1>2, <1>3, <1>5, <2>3, <2>4 DEF Deepens
<1> QED BY <1>4, <1>5

LEMMA DepthKept ==
  ASSUME NEW f \in Fuzzers, DepthOf(f), Reports(f)' = Reports(f),
         \A n \in Reports(f) : said'[f][n] = said[f][n],
         corpus'[f] = corpus[f], maxDepth'[f] = maxDepth[f],
         pc'[f] = "report" <=> pc[f] = "report"
  PROVE  DepthOf(f)'
BY DEF DepthOf

\* Loading and importing add a test case without metadata.
LEMMA FlatDepth ==
  ASSUME BaseInv, DepthInv, NEW f \in Fuzzers, NEW i, NEW send,
         Evaluates(f, i, corpus[f], 0, send), maxDepth' = maxDepth,
         pc[f] # "report", pc'[f] # "report",
         \A g \in Fuzzers : g # f => pc'[g] = pc[g]
  PROVE  DepthInv'
<1>1. \A g \in Fuzzers : /\ Reports(g)' = Reports(g)
                         /\ \A n \in Reports(g) : said'[g][n] = said[g][n]
  BY EvaluateReports
<1>2. \A g \in Fuzzers : g # f => corpus'[g] = corpus[g] BY EvaluateGrows DEF BaseInv
<1>3. \A g \in Fuzzers : g # f => DepthOf(g)'
  BY <1>1, <1>2, DepthKept DEF DepthInv
<1>4. DepthOf(f) /\ Cardinality(Reports(f)) \in Nat BY ReportsFinite DEF DepthInv
<1>5. /\ DOMAIN corpus[f] \subseteq DOMAIN corpus'[f]
      /\ \A s \in DOMAIN corpus[f] :
           /\ corpus[f][s].depth \in Nat
           /\ \/ corpus'[f][s].depth = corpus[f][s].depth
              \/ corpus[f][s].depth = 0 /\ corpus'[f][s].depth = 1
      /\ \A s \in DOMAIN corpus'[f] : s \in DOMAIN corpus[f] \/ corpus'[f][s].depth = 0
  <2>1. Deepens(f, i, 0) BY DepthsKept
  <2> QED BY <2>1 DEF Deepens
<1>6. ASSUME NEW n \in Reports(f)
      PROVE  /\ said'[f][n].depth = Cardinality({m \in Reports(f) : m < n}) + 2
             /\ \E s \in DOMAIN corpus'[f] : corpus'[f][s].depth = said'[f][n].depth
  <2>1. /\ said[f][n].depth = Cardinality({m \in Reports(f) : m < n}) + 2
        /\ said'[f][n] = said[f][n]
    BY <1>1, <1>4 DEF DepthOf
  <2>2. PICK s \in DOMAIN corpus[f] : corpus[f][s].depth = said[f][n].depth
    BY <1>4 DEF DepthOf
  <2>3. IsFiniteSet({m \in Reports(f) : m < n})
    <3>1. {m \in Reports(f) : m < n} \in SUBSET Reports(f) OBVIOUS
    <3> QED BY <3>1, ReportsFinite, FS_Subset
  <2>4. Cardinality({m \in Reports(f) : m < n}) \in Nat BY <2>3, FS_CardinalityType
  <2>5. corpus'[f][s].depth = corpus[f][s].depth BY <1>5, <2>1, <2>2, <2>4
  <2> QED BY <1>5, <2>1, <2>2, <2>5
<1>7. \A s \in DOMAIN corpus'[f] : corpus'[f][s].depth <= Cardinality(Reports(f)) + 1
  BY <1>4, <1>5 DEF DepthOf
<1>8. DepthOf(f)' BY <1>1, <1>4, <1>6, <1>7 DEF DepthOf
<1> QED BY <1>3, <1>8 DEF DepthInv

\* A mutation is at most one deeper than everything reported.
LEMMA MutateDepth ==
  ASSUME BaseInv, DepthInv, NEW f \in Fuzzers, Mutate(f)
  PROVE  DepthInv'
<1> DEFINE parent == ParentDepth(f)
           tests == [corpus[f] EXCEPT ![idx[f]].depth = parent]
<1>1. PICK i :
        /\ Evaluates(f, i, tests, parent + 1, TRUE)
        /\ IF IsCorpus(f, i) /\ Deeper(f, parent + 1)
           THEN /\ maxDepth' = [maxDepth EXCEPT ![f] = parent + 1]
                /\ pc' = [pc EXCEPT ![f] = "report"]
           ELSE /\ maxDepth' = maxDepth
                /\ pc' = [pc EXCEPT ![f] = "stage"]
  BY MutateEvaluates DEF BaseInv
<1>2. pc[f] = "stage" BY MutateEvaluates DEF BaseInv
<1>3. idx[f] \in DOMAIN corpus[f] BY <1>2 DEF BaseInv, LoopPlaces
<1>4. parent \in Nat /\ parent >= 1 BY <1>3, ParentIsSame DEF BaseInv
<1>5. parent = 1 \/ parent = corpus[f][idx[f]].depth BY DEF ParentDepth
<1> HIDE DEF tests, parent
<1> DEFINE reports == Cardinality(Reports(f))
<1>6. DepthOf(f) /\ reports \in Nat BY ReportsFinite DEF DepthInv
<1>7. \A g \in Fuzzers : /\ Reports(g)' = Reports(g)
                         /\ \A n \in Reports(g) : said'[g][n] = said[g][n]
  BY <1>1, EvaluateReports
<1>8. \A g \in Fuzzers : g # f => corpus'[g] = corpus[g]
  BY <1>1, EvaluateGrows DEF BaseInv
<1>9. \A g \in Fuzzers : g # f => pc'[g] = pc[g] /\ maxDepth'[g] = maxDepth[g]
  BY <1>1 DEF BaseInv, TypeOK
<1>10. \A g \in Fuzzers : g # f => DepthOf(g)'
  BY <1>7, <1>8, <1>9, DepthKept DEF DepthInv
<1>11. /\ DOMAIN corpus[f] \subseteq DOMAIN corpus'[f]
       /\ \A s \in DOMAIN corpus[f] :
            /\ corpus[f][s].depth \in Nat
            /\ \/ corpus'[f][s].depth = corpus[f][s].depth
               \/ corpus[f][s].depth = 0 /\ corpus'[f][s].depth = 1
       /\ \A s \in DOMAIN corpus'[f] :
            s \in DOMAIN corpus[f] \/ (IsCorpus(f, i) /\ corpus'[f][s].depth = parent + 1)
       /\ IsCorpus(f, i) => \E s \in DOMAIN corpus'[f] : corpus'[f][s].depth = parent + 1
  <2>1. Evaluates(f, i, tests, parent + 1, TRUE) BY <1>1
  <2>2. Deepens(f, i, parent + 1) BY <2>1, DepthsKept
  <2> QED BY <2>2 DEF Deepens
<1>12. \A s \in DOMAIN corpus[f] :
         corpus[f][s].depth <= reports + 1 /\ corpus'[f][s].depth <= reports + 1
  BY <1>2, <1>6, <1>11 DEF DepthOf
<1>13. parent <= reports + 1 BY <1>3, <1>4, <1>5, <1>6, <1>12
<1>14. /\ maxDepth[f] = IF Reports(f) = {} THEN 0 ELSE reports + 1
       /\ Reports(f) = {} => reports = 0
  <2>1. Reports(f) = {} => reports = 0 BY FS_EmptySet
  <2> QED BY <1>2, <1>6, <2>1 DEF DepthOf
<1>15. ASSUME NEW n \in Reports(f)
       PROVE  /\ said'[f][n].depth = Cardinality({m \in Reports(f) : m < n}) + 2
              /\ \E s \in DOMAIN corpus'[f] : corpus'[f][s].depth = said'[f][n].depth
  <2>1. /\ said[f][n].depth = Cardinality({m \in Reports(f) : m < n}) + 2
        /\ said'[f][n] = said[f][n]
    BY <1>6, <1>7 DEF DepthOf
  <2>2. PICK s \in DOMAIN corpus[f] : corpus[f][s].depth = said[f][n].depth
    BY <1>6 DEF DepthOf
  <2>3. IsFiniteSet({m \in Reports(f) : m < n})
    <3>1. {m \in Reports(f) : m < n} \in SUBSET Reports(f) OBVIOUS
    <3> QED BY <3>1, ReportsFinite, FS_Subset
  <2>4. Cardinality({m \in Reports(f) : m < n}) \in Nat BY <2>3, FS_CardinalityType
  <2>5. corpus'[f][s].depth = corpus[f][s].depth BY <1>11, <2>1, <2>2, <2>4
  <2> QED BY <1>11, <2>1, <2>2, <2>5
<1>16. CASE IsCorpus(f, i) /\ Deeper(f, parent + 1)
  <2>1. pc'[f] = "report" /\ maxDepth'[f] = parent + 1
    BY <1>1, <1>16 DEF BaseInv, TypeOK
  <2>2. maxDepth[f] < parent + 1 BY <1>16 DEF Deeper
  <2>3. parent + 1 = reports + 2 BY <1>4, <1>6, <1>13, <1>14, <2>2
  <2>4. \A s \in DOMAIN corpus'[f] :
          corpus'[f][s].depth <= reports + 1 \/ corpus'[f][s].depth = parent + 1
    BY <1>11, <1>12
  <2>5. DepthOf(f)'
    BY <1>7, <1>11, <1>15, <1>16, <2>1, <2>3, <2>4 DEF DepthOf
  <2> QED BY <1>10, <2>5 DEF DepthInv
<1>17. CASE ~(IsCorpus(f, i) /\ Deeper(f, parent + 1))
  <2>1. pc'[f] = "stage" /\ maxDepth'[f] = maxDepth[f]
    BY <1>1, <1>17 DEF BaseInv, TypeOK
  <2>2. IsCorpus(f, i) => parent + 1 <= reports + 1
    <3> SUFFICES ASSUME IsCorpus(f, i) PROVE parent + 1 <= reports + 1
      OBVIOUS
    <3>1. ~(maxDepth[f] < parent + 1) BY <1>17 DEF Deeper
    <3> QED BY <1>4, <1>6, <1>14, <3>1
  <2>3. \A s \in DOMAIN corpus'[f] : corpus'[f][s].depth <= reports + 1
    BY <1>11, <1>12, <2>2
  <2>4. DepthOf(f)' BY <1>7, <1>14, <1>15, <2>1, <2>3 DEF DepthOf
  <2> QED BY <1>10, <2>4 DEF DepthInv
<1> QED BY <1>16, <1>17

LEMMA ReportDepth ==
  ASSUME BaseInv, DepthInv, NEW f \in Fuzzers, Report(f)
  PROVE  DepthInv'
<1>1. PICK e \in Event : /\ e = [kind |-> "UpdateUserStats", depth |-> maxDepth[f]]
                         /\ said' = [said EXCEPT ![f] = Append(@, e)]
  BY ReportBase
<1>2. /\ pc[f] = "report" /\ pc' = [pc EXCEPT ![f] = "stage"]
      /\ UNCHANGED <<corpus, maxDepth>>
  BY DEF Report, Goto, stateVars
<1>3. /\ pc'[f] = "stage" /\ \A g \in Fuzzers : g # f => pc'[g] = pc[g]
      /\ f \in Clients /\ Len(said[f]) \in Nat
      /\ DOMAIN said[f] = 1..Len(said[f])
  <2>1. said[f] \in Seq(Event) /\ f \in Clients BY DEF BaseInv, TypeOK, Clients
  <2> QED BY <1>2, <2>1 DEF BaseInv, TypeOK
<1>4. PICK new \in Nat : new = Len(said[f]) + 1 BY <1>3
<1>5. /\ DOMAIN said'[f] = DOMAIN said[f] \cup {new} /\ said'[f][new] = e
      /\ \A n \in DOMAIN said[f] : said'[f][n] = said[f][n]
      /\ \A g \in Fuzzers : g # f => said'[g] = said[g]
  BY <1>1, <1>3, <1>4, FireGrows DEF BaseInv, Clients, SaidGrows
<1>6. \A g \in Fuzzers : g # f => DepthOf(g)'
  <2> SUFFICES ASSUME NEW g \in Fuzzers, g # f PROVE DepthOf(g)'
    OBVIOUS
  <2>1. said'[g] = said[g] /\ Reports(g)' = Reports(g) BY <1>5 DEF Reports
  <2> QED BY <1>2, <1>3, <2>1, DepthKept DEF DepthInv
<1>7. e.kind = "UpdateUserStats" /\ e.depth = maxDepth[f] BY <1>1
<1>8. Reports(f)' = Reports(f) \cup {new} /\ new \notin Reports(f)
      /\ \A m \in Reports(f) : m < new /\ m \in Nat
  BY <1>3, <1>4, <1>5, <1>7 DEF Reports
<1>9. Cardinality(Reports(f)') = Cardinality(Reports(f)) + 1
  BY <1>8, ReportsFinite, FS_AddElement
<1>10. /\ DepthOf(f) /\ Cardinality(Reports(f)) \in Nat
       /\ maxDepth[f] = Cardinality(Reports(f)) + 2
  BY <1>2, ReportsFinite DEF DepthInv, DepthOf
<1>11. ASSUME NEW n \in Reports(f)'
       PROVE  /\ said'[f][n].depth = Cardinality({m \in Reports(f)' : m < n}) + 2
              /\ \E s \in DOMAIN corpus[f] : corpus[f][s].depth = said'[f][n].depth
  <2>1. CASE n = new
    <3>1. {m \in Reports(f)' : m < n} = Reports(f) BY <1>8, <2>1
    <3> QED BY <1>2, <1>5, <1>7, <1>10, <2>1, <3>1 DEF DepthOf
  <2>2. CASE n # new
    <3>1. n \in Reports(f) /\ said'[f][n] = said[f][n] BY <1>5, <1>8, <2>2 DEF Reports
    <3>2. {m \in Reports(f)' : m < n} = {m \in Reports(f) : m < n}
      BY <1>8, <3>1
    <3> QED BY <1>10, <3>1, <3>2 DEF DepthOf
  <2> QED BY <2>1, <2>2
<1>12. DepthOf(f)'
  <2>1. Reports(f)' # {} /\ maxDepth[f] = Cardinality(Reports(f)') + 1
    BY <1>8, <1>9, <1>10
  <2>2. \A s \in DOMAIN corpus[f] : corpus[f][s].depth <= Cardinality(Reports(f)') + 1
    <3> SUFFICES ASSUME NEW s \in DOMAIN corpus[f]
                 PROVE  corpus[f][s].depth <= Cardinality(Reports(f)) + 2
      BY <1>9, <1>10
    <3>1. corpus[f][s].depth \in Nat
      <4>1. corpus[f] \in Seq(Test) BY DEF BaseInv, TypeOK, Test
      <4>2. corpus[f][s] \in Test BY <4>1
      <4> QED BY <4>2 DEF Test
    <3> QED BY <1>10, <3>1 DEF DepthOf
  <2> QED BY <1>2, <1>3, <1>11, <2>1, <2>2 DEF DepthOf
<1> QED BY <1>6, <1>12 DEF DepthInv

LEMMA NextDepth ==
  ASSUME BaseInv, DepthInv, [Next]_vars
  PROVE  DepthInv'
<1>1. ASSUME NEW f \in Fuzzers, LoadSeed(f) PROVE DepthInv'
  <2>1. PICK i : Evaluates(f, i, corpus[f], 0, TRUE)
    BY <1>1, LoadEvaluates DEF BaseInv
  <2>2. pc[f] = "load" /\ pc' = [pc EXCEPT ![f] = "load"] /\ maxDepth' = maxDepth
    BY <1>1, LoadEvaluates DEF BaseInv
  <2>3. pc'[f] = "load" /\ \A g \in Fuzzers : g # f => pc'[g] = pc[g]
    BY <2>2 DEF BaseInv, TypeOK
  <2> QED BY <2>1, <2>2, <2>3, FlatDepth
<1>2. ASSUME NEW f \in Fuzzers, Mutate(f) PROVE DepthInv'
  BY <1>2, MutateDepth
<1>3. ASSUME NEW f \in Fuzzers, Import(f) PROVE DepthInv'
  <2>1. PICK i : Evaluates(f, i, corpus[f], 0, FALSE) BY <1>3, ImportEvaluates
  <2>2. pc[f] = "process" /\ pc' = pc /\ maxDepth' = maxDepth
    BY <1>3, ImportEvaluates DEF loopVars
  <2> QED BY <2>1, <2>2, FlatDepth
<1>4. ASSUME \A f \in Fuzzers : said'[f] = said[f], UNCHANGED <<corpus, maxDepth>>,
             \A f \in Fuzzers : pc'[f] = "report" <=> pc[f] = "report"
      PROVE  DepthInv'
  <2>1. \A f \in Fuzzers : Reports(f)' = Reports(f) BY <1>4 DEF Reports
  <2> QED BY <1>4, <2>1, DepthKept DEF DepthInv
<1>5. ASSUME NEW f \in Fuzzers, LoadDone(f) \/ FuzzOne(f) \/ StageDone(f) \/ ProcessDone(f)
      PROVE  DepthInv'
  <2>1. /\ UNCHANGED <<said, corpus, maxDepth>>
        /\ pc[f] # "report"
        /\ \E place \in {"ended", "loop", "stage", "process"} : pc' = [pc EXCEPT ![f] = place]
    BY <1>5 DEF LoadDone, FuzzOne, StageDone, ProcessDone, stateVars, Goto
  <2>2. \A g \in Fuzzers : pc'[g] = "report" <=> pc[g] = "report"
    BY <2>1 DEF BaseInv, TypeOK
  <2> QED BY <1>4, <2>1, <2>2
<1>6. ASSUME NEW f \in Fuzzers, Report(f) PROVE DepthInv'
  BY <1>6, ReportDepth
<1>7. ASSUME NEW c \in Clients, BrokerMsg(c) PROVE DepthInv'
  BY <1>4, <1>7, BrokerStep DEF stateVars, loopVars
<1>8. ASSUME NEW k \in Peers, PeerSend(k) PROVE DepthInv'
  <2>1. \A f \in Fuzzers : said'[f] = said[f]
    BY <1>8, PeerBase, ClientsDisjoint DEF Clients
  <2> QED BY <1>4, <1>8, <2>1 DEF PeerSend, stateVars, loopVars
<1>9. ASSUME UNCHANGED vars PROVE DepthInv'
  BY <1>4, <1>9 DEF vars, stateVars, loopVars
<1> QED BY <1>1, <1>2, <1>3, <1>5, <1>6, <1>7, <1>8, <1>9 DEF Next, Fuzz

\* A fuzzer's reports are 2, 3, 4 and so on, up to its longest chain of mutations.
THEOREM DepthsReportedAlways == Spec => []DepthsReported
<1>1. Init => DepthInv
  <2> SUFFICES ASSUME Init, NEW f \in Fuzzers PROVE DepthOf(f)
    BY DEF DepthInv
  <2>1. said[f] = <<>> /\ corpus[f] = <<>> /\ maxDepth[f] = 0 /\ pc[f] = "load"
    BY DEF Init, Clients
  <2>2. Reports(f) = {} BY <2>1 DEF Reports
  <2> QED BY <2>1, <2>2 DEF DepthOf
<1>2. BaseInv /\ DepthInv /\ [Next]_vars => DepthInv' BY NextDepth
<1>3. DepthInv => DepthsReported BY DepthImplies
<1> QED BY <1>1, <1>2, <1>3, BaseInvariant, PTL DEF Spec

=============================================================================
