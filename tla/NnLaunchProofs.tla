--------------------------- MODULE NnLaunchProofs ---------------------------
(***************************************************************************)
(* Theorems about NnLaunch, for any cores, command lines and widths.       *)
(***************************************************************************)
EXTENDS NnLaunch, FiniteSetTheorems, TLAPS

(***************************************************************************)
(* The properties relate the end of the launcher, and what clients run     *)
(* into, to what was forked; so the invariant says which clients those are *)
(* and what the launcher had checked by then.                              *)
(***************************************************************************)

\* Exactly the places the fork loop has passed and found chosen have a client.
ForkInv ==
  /\ launcher \in {"bind", "serve", "wait"} => next = Len(mask)
  /\ \A i \in 1..next : Chosen(i) => client[mask[i]] # "none"
  /\ \A c \in Cores : client[c] # "none" => \E i \in 1..next : Chosen(i) /\ mask[i] = c

\* A launcher that goes on has a handle for each client.
HandleInv ==
  launcher # "ended" =>
    \A c \in Cores : client[c] # "none" => \E k \in DOMAIN handles : handles[k] = c

\* Who waits has no broker, and what it has waited for is gone.
WaitInv ==
  /\ launcher \notin {"wait", "ended"} => reaped = 0
  /\ launcher \in {"bind", "serve"} => ~opts.noBroker
  /\ launcher = "wait" =>
       opts.noBroker /\ \A k \in 1..reaped : client[handles[k]] \in Gone
  /\ launcher # "ended" => result = "none"

\* No client is forked before the options are checked.
SeedInv ==
  /\ launcher \notin {"check", "ended"} => ~TooFewSeeds
  /\ \A c \in Cores : client[c] # "none" => ~TooFewSeeds
  /\ \A c \in Cores : client[c] = "noseed" => SeedLost(c)

\* A client that fuzzes does so with what was meant for its core.
SetUpInv ==
  \A c \in Cores : Running(c) => args[c] = HarnessArgs(c) /\ ~BadArgs /\ seed[c] \in SeedOf(c)

LaunchInv == TypeOK /\ ForkInv /\ HandleInv /\ WaitInv /\ GoodByeMeans /\ SeedInv /\ SetUpInv

-----------------------------------------------------------------------------
(* Lists without repetitions *)

\* Counting the members up to each of them tells the members of a finite set of
\* numbers apart, and every count up to the size of the set occurs.
LEMMA PlacesAreRanks ==
  ASSUME NEW S \in SUBSET Nat, IsFiniteSet(S)
  PROVE  /\ \A i \in S : Place(i, S) \in 1..Cardinality(S)
         /\ \A k \in 1..Cardinality(S) : \E i \in S : Place(i, S) = k
<1> DEFINE Upto(i) == {j \in S : j <= i}
           n == Cardinality(S)
           place == [i \in S |-> Place(i, S)]
<1>1. n \in Nat BY FS_CardinalityType
<1>2. \A i \in S : /\ IsFiniteSet(Upto(i)) /\ Cardinality(Upto(i)) \in Nat
                   /\ Cardinality(Upto(i)) <= n
  BY <1>1, FS_Subset, FS_CardinalityType
<1>3. \A i \in S : Place(i, S) \in 1..n
  <2> SUFFICES ASSUME NEW i \in S PROVE Place(i, S) \in 1..n
    OBVIOUS
  <2>1. i \in Upto(i) OBVIOUS
  <2>2. Cardinality(Upto(i)) # 0 BY <1>2, <2>1, FS_EmptySet
  <2> QED BY <1>1, <1>2, <2>2 DEF Place
<1>4. \A i, k \in S : i < k => Place(i, S) < Place(k, S)
  <2> SUFFICES ASSUME NEW i \in S, NEW k \in S, i < k PROVE Place(i, S) < Place(k, S)
    OBVIOUS
  <2>1. k \notin Upto(i) /\ Upto(i) \cup {k} \subseteq Upto(k)
    <3>1. \A j \in S : j <= i => j <= k OBVIOUS
    <3>2. ~(k <= i) /\ k <= k OBVIOUS
    <3> QED BY <3>1, <3>2
  <2>2. Cardinality(Upto(i) \cup {k}) = Cardinality(Upto(i)) + 1
    BY <1>2, <2>1, FS_AddElement
  <2>3. Cardinality(Upto(i) \cup {k}) <= Cardinality(Upto(k)) BY <1>2, <2>1, FS_Subset
  <2> QED BY <1>2, <2>2, <2>3 DEF Place
<1>5. place \in Injection(S, 1..n)
  <2>1. place \in [S -> 1..n] BY <1>3
  <2>2. \A i, k \in S : place[i] = place[k] => i = k
    <3> SUFFICES ASSUME NEW i \in S, NEW k \in S, Place(i, S) = Place(k, S) PROVE i = k
      OBVIOUS
    <3>1. Place(i, S) \in Nat /\ Place(k, S) \in Nat BY <1>1, <1>3
    <3>2. ~(i < k) /\ ~(k < i) BY <1>4, <3>1
    <3> QED BY <3>2
  <2> QED BY <2>1, <2>2 DEF Injection, IsInjective
<1>6. IsFiniteSet(1..n) /\ Cardinality(1..n) = n
  <2>1. 1 \in Int /\ n \in Int BY <1>1
  <2> QED BY <1>1, <2>1, FS_Interval
<1>7. place \in Surjection(S, 1..n) BY <1>5, <1>6, FS_Injection
<1>8. \A k \in 1..n : \E i \in S : Place(i, S) = k BY <1>7 DEF Surjection
<1> QED BY <1>3, <1>8

\* Without repetitions a list is still one of the same numbers, each of which it
\* now has once.
LEMMA UniqueList ==
  ASSUME NEW s \in Seq(Nat)
  PROVE  /\ Unique(s) \in Seq(Nat)
         /\ \A k, l \in DOMAIN Unique(s) : Unique(s)[k] = Unique(s)[l] => k = l
<1> DEFINE F == Firsts(s)
           n == Cardinality(F)
           At(k) == CHOOSE i \in F : Place(i, F) = k
<1>1. F \subseteq DOMAIN s /\ DOMAIN s = 1..Len(s) /\ Len(s) \in Nat BY DEF Firsts
<1>2. IsFiniteSet(F) /\ F \in SUBSET Nat /\ n \in Nat
  <2>1. IsFiniteSet(1..Len(s)) BY <1>1, FS_Interval
  <2>2. IsFiniteSet(F) BY <1>1, <2>1, FS_Subset
  <2> QED BY <1>1, <2>2, FS_CardinalityType
<1>3. \A i, j \in F : s[i] = s[j] => i = j BY <1>1 DEF Firsts
<1> HIDE DEF F
<1>4. \A k \in 1..n : \E i \in F : Place(i, F) = k BY <1>2, PlacesAreRanks
<1>5. \A k \in 1..n : At(k) \in F /\ Place(At(k), F) = k BY <1>4
<1>6. Unique(s) = [k \in 1..n |-> s[At(k)]] BY DEF Unique, F
<1> HIDE DEF n, At
<1>7. \A k \in 1..n : s[At(k)] \in Nat BY <1>1, <1>5
<1>8. Unique(s) \in Seq(Nat) /\ DOMAIN Unique(s) = 1..n BY <1>2, <1>6, <1>7
<1>9. ASSUME NEW k \in 1..n, NEW l \in 1..n, s[At(k)] = s[At(l)] PROVE k = l
  BY <1>3, <1>5, <1>9
<1> QED BY <1>6, <1>8, <1>9

-----------------------------------------------------------------------------
(* Facts about the options *)

LEMMA OptsTyped ==
  ASSUME opts \in Options
  PROVE  /\ opts.cores \in Seq(Nat) /\ opts.vals \in Seq(Nat)
         /\ opts.args \in Seq(Words \cup Numbers)
         /\ opts.noBroker \in BOOLEAN /\ opts.spawnClient \in BOOLEAN
         /\ \A k, l \in DOMAIN opts.vals : opts.vals[k] = opts.vals[l] => k = l
<1>1. PICK cmd \in Commands : opts = Parsed(cmd) BY DEF Options
<1>2. CASE cmd.seed = AutoSeed
  <2>1. opts.vals = <<>> BY <1>1, <1>2 DEF Parsed, FromCmdline
  <2>2. opts.vals \in Seq(Nat) /\ DOMAIN opts.vals = {} BY <2>1
  <2> QED BY <1>1, <2>2, CommandsTyped DEF Parsed
<1>3. CASE cmd.seed # AutoSeed
  <2>1. Listed(cmd.seed) \in Seq(Nat) BY <1>3, SeedsAreNumbers
  <2>2. opts.vals = Unique(Listed(cmd.seed)) BY <1>1, <1>3 DEF Parsed, FromCmdline
  <2>3. /\ opts.vals \in Seq(Nat)
        /\ \A k, l \in DOMAIN opts.vals : opts.vals[k] = opts.vals[l] => k = l
    BY <2>1, <2>2, UniqueList
  <2> QED BY <1>1, <2>3, CommandsTyped DEF Parsed
<1> QED BY <1>2, <1>3

LEMMA MaskTyped ==
  ASSUME mask \in Masks
  PROVE  /\ mask \in Seq(Nat) /\ Len(mask) \in Nat
         /\ \A i \in 1..Len(mask) : mask[i] \in Cores
         /\ \A i, j \in 1..Len(mask) : mask[i] = mask[j] => i = j
<1>1. mask \in Seq(Nat) /\ \A i, j \in DOMAIN mask : mask[i] = mask[j] => i = j
  BY MasksListCores
<1>2. \A i \in DOMAIN mask : mask[i] \in ToSet(mask) BY DEF ToSet
<1>3. ToSet(mask) \subseteq Cores BY DEF Cores
<1> QED BY <1>1, <1>2, <1>3

\* A number stays one, however large it gets.
LEMMA IncrementedIsNumber ==
  ASSUME NEW v \in Numbers, NEW c \in Cores
  PROVE  Incremented(v, c) \in Numbers
<1>1. UsizeMax \in Nat /\ c \in Nat /\ v \in Nat BY CoresFitUsize DEF Numbers
<1>2. (v + c) % (UsizeMax + 1) \in 0..UsizeMax BY <1>1
<1> QED BY <1>2 DEF Incremented, Numbers

\* On either side of the bound, remainders are those of the sum or of one turn less.
LEMMA OneTurn ==
  ASSUME NEW m \in Nat \ {0}, NEW x \in 0..(2 * m - 1)
  PROVE  x % m = IF x < m THEN x ELSE x - m
OBVIOUS

-----------------------------------------------------------------------------
(* The launcher's steps *)

LEMMA InitInv == Init => LaunchInv
<1> SUFFICES ASSUME Init PROVE LaunchInv
  OBVIOUS
<1>1. TypeOK
  <2>1. mask \in Masks /\ opts \in Options BY DEF Init
  <2>2. Len(mask) \in Nat BY <2>1, MaskTyped
  <2>3. handles \in Seq(Cores) /\ Len(handles) = 0 BY DEF Init
  <2>4. /\ client \in [Cores -> {"none"}] /\ seed \in [Cores -> {NoSeed}]
        /\ args \in [Cores -> Seq(Words \cup Numbers)]
    BY DEF Init
  <2> QED BY <2>1, <2>2, <2>3, <2>4 DEF Init, TypeOK
<1>2. ForkInv /\ HandleInv /\ WaitInv /\ GoodByeMeans
  BY DEF Init, ForkInv, HandleInv, WaitInv, GoodByeMeans
<1>3. SeedInv /\ SetUpInv BY DEF Init, SeedInv, SetUpInv, Running
<1> QED BY <1>1, <1>2, <1>3 DEF LaunchInv

\* What is meant for a client follows from the options alone.
LEMMA SameOptions ==
  ASSUME UNCHANGED opts
  PROVE  /\ BadArgs' <=> BadArgs
         /\ \A c \in Cores : HarnessArgs(c)' = HarnessArgs(c) /\ SeedOf(c)' = SeedOf(c)
<1>1. BadArgs' <=> BadArgs BY DEF BadArgs, ToAdapt
<1>2. \A c \in Cores : HarnessArgs(c)' = HarnessArgs(c) BY DEF HarnessArgs, ToAdapt
<1>3. \A c \in Cores : SeedOf(c)' = SeedOf(c) BY DEF SeedOf, SeedPlaces, HasSeeds
<1> QED BY <1>1, <1>2, <1>3

\* What does not touch the clients, the forks or the options keeps all that was
\* said about them.
LEMMA Unforked ==
  ASSUME LaunchInv, UNCHANGED <<hostVars, next, handles, clientVars>>
  PROVE  /\ (launcher' \in {"bind", "serve", "wait"} => next = Len(mask)) => ForkInv'
         /\ (launcher' # "ended" => launcher # "ended") => HandleInv'
         /\ (launcher' \notin {"check", "ended"} => ~TooFewSeeds) => SeedInv'
         /\ SetUpInv'
<1> USE DEF hostVars, clientVars
<1>1. ~TooFewSeeds' <=> ~TooFewSeeds BY DEF TooFewSeeds, HasSeeds
<1>2. \A c \in Cores : SeedLost(c)' <=> SeedLost(c) BY DEF SeedLost, HasSeeds, SeedPlaces
<1>3. (launcher' \in {"bind", "serve", "wait"} => next = Len(mask)) => ForkInv'
  BY DEF LaunchInv, ForkInv, Chosen
<1>4. (launcher' # "ended" => launcher # "ended") => HandleInv' BY DEF LaunchInv, HandleInv
<1>5. (launcher' \notin {"check", "ended"} => ~TooFewSeeds) => SeedInv'
  BY <1>1, <1>2 DEF LaunchInv, SeedInv
<1>6. SetUpInv' BY SameOptions DEF LaunchInv, SetUpInv, Running
<1> QED BY <1>3, <1>4, <1>5, <1>6

LEMMA CheckStep ==
  ASSUME LaunchInv, CheckOptions
  PROVE  LaunchInv'
<1>1. /\ UNCHANGED <<hostVars, next, handles, reaped, signalled, broker, service, clientVars>>
      /\ launcher = "check"
      /\ \/ TooFewSeeds /\ launcher' = "ended" /\ result' = "IllegalArgument"
         \/ ~TooFewSeeds /\ launcher' = "fork" /\ result' = result
  BY DEF CheckOptions, Return
<1>2. TypeOK' BY <1>1 DEF LaunchInv, TypeOK, hostVars, clientVars
<1>3. ForkInv' /\ HandleInv' /\ SeedInv' /\ SetUpInv' BY <1>1, Unforked
<1>4. WaitInv' /\ GoodByeMeans'
  BY <1>1 DEF LaunchInv, WaitInv, GoodByeMeans, hostVars, clientVars
<1> QED BY <1>2, <1>3, <1>4 DEF LaunchInv

\* A fork adds a client on the core at its place, whatever becomes of the launcher.
LEMMA Forked ==
  ASSUME LaunchInv, launcher = "fork", next < Len(mask), Chosen(next + 1),
         launcher' \in {"fork", "ended"}, next' = next + 1,
         client' = [client EXCEPT ![mask[next + 1]] = "connecting"],
         UNCHANGED <<hostVars, seed, args>>
  PROVE  /\ mask[next + 1] \in Cores /\ next' \in 0..Len(mask')
         /\ client' \in [Cores -> {"none", "connecting", "setup", "running"} \cup Gone]
         /\ \A c \in Cores : c # mask[next + 1] => client'[c] = client[c]
         /\ ForkInv' /\ SeedInv' /\ SetUpInv'
<1> DEFINE core == mask[next + 1]
<1>1. /\ mask \in Masks /\ next \in 0..Len(mask)
      /\ client \in [Cores -> {"none", "connecting", "setup", "running"} \cup Gone]
  BY DEF LaunchInv, TypeOK
<1>2. Len(mask) \in Nat /\ core \in Cores /\ next \in Nat /\ next + 1 \in 1..Len(mask)
  BY <1>1, MaskTyped
<1>3. client' = [client EXCEPT ![core] = "connecting"] OBVIOUS
<1>4. next' \in 0..Len(mask') BY <1>2 DEF hostVars
<1> HIDE DEF core
<1>5. client' \in [Cores -> {"none", "connecting", "setup", "running"} \cup Gone]
  BY <1>1, <1>2, <1>3
<1>6. client'[core] = "connecting" /\ \A c \in Cores : c # core => client'[c] = client[c]
  BY <1>1, <1>2, <1>3
<1>7. ForkInv'
  <2>1. \A i : Chosen(i)' <=> Chosen(i) BY DEF Chosen, hostVars
  <2>2. \A i \in 1..next' : Chosen(i)' => client'[mask'[i]] # "none"
    <3> SUFFICES ASSUME NEW i \in 1..(next + 1), Chosen(i) PROVE client'[mask[i]] # "none"
      BY <2>1 DEF hostVars
    <3>1. CASE i = next + 1 BY <1>6, <3>1 DEF core
    <3>2. CASE i \in 1..next
      <4>1. client[mask[i]] # "none" BY <3>2 DEF LaunchInv, ForkInv
      <4>2. mask[i] \in Cores BY <1>1, <1>2, <3>2, MaskTyped
      <4> QED BY <1>6, <4>1, <4>2
    <3> QED BY <1>2, <3>1, <3>2
  <2>3. \A c \in Cores : client'[c] # "none" => \E i \in 1..next' : Chosen(i)' /\ mask'[i] = c
    <3> SUFFICES ASSUME NEW c \in Cores, client'[c] # "none"
                 PROVE  \E i \in 1..(next + 1) : Chosen(i) /\ mask[i] = c
      BY <2>1 DEF hostVars
    <3>1. CASE c = core BY <1>2, <3>1 DEF core
    <3>2. CASE c # core
      <4>1. client[c] # "none" BY <1>6, <3>2
      <4>2. \E i \in 1..next : Chosen(i) /\ mask[i] = c BY <4>1 DEF LaunchInv, ForkInv
      <4> QED BY <1>2, <4>2
    <3> QED BY <3>1, <3>2
  <2> QED BY <2>2, <2>3 DEF ForkInv
<1>8. SeedInv'
  <2>1. ~TooFewSeeds' BY DEF LaunchInv, SeedInv, TooFewSeeds, HasSeeds, hostVars
  <2>2. \A c \in Cores : client'[c] = "noseed" => SeedLost(c)'
    BY <1>6 DEF LaunchInv, SeedInv, SeedLost, HasSeeds, SeedPlaces, hostVars
  <2> QED BY <2>1, <2>2 DEF SeedInv
<1>9. SetUpInv'
  BY <1>6, SameOptions DEF LaunchInv, SetUpInv, Running, hostVars
<1> QED BY <1>2, <1>4, <1>5, <1>6, <1>7, <1>8, <1>9 DEF core

LEMMA ForkStep ==
  ASSUME LaunchInv, ForkClient
  PROVE  LaunchInv'
<1> DEFINE core == mask[next + 1]
<1>1. /\ UNCHANGED <<hostVars, launcher, result, reaped, signalled, broker, service, seed, args>>
      /\ launcher = "fork" /\ next < Len(mask) /\ Chosen(next + 1)
      /\ next' = next + 1
      /\ handles' = Append(handles, core)
      /\ client' = [client EXCEPT ![mask[next + 1]] = "connecting"]
  BY DEF ForkClient, Forking
<1>2. /\ core \in Cores /\ next' \in 0..Len(mask')
      /\ client' \in [Cores -> {"none", "connecting", "setup", "running"} \cup Gone]
      /\ \A c \in Cores : c # core => client'[c] = client[c]
      /\ ForkInv' /\ SeedInv' /\ SetUpInv'
  BY <1>1, Forked
<1>3. handles \in Seq(Cores) /\ reaped \in 0..Len(handles) BY DEF LaunchInv, TypeOK
<1> HIDE DEF core
<1>4. /\ handles' \in Seq(Cores) /\ Len(handles') = Len(handles) + 1
      /\ DOMAIN handles' = 1..(Len(handles) + 1) /\ Len(handles) \in Nat
      /\ DOMAIN handles = 1..Len(handles)
      /\ \A k \in DOMAIN handles : handles'[k] = handles[k]
      /\ handles'[Len(handles) + 1] = core
  BY <1>1, <1>2, <1>3
<1>5. TypeOK'
  <2>1. reaped' \in 0..Len(handles') BY <1>1, <1>3, <1>4
  <2> QED BY <1>1, <1>2, <1>4, <2>1 DEF LaunchInv, TypeOK, hostVars
<1>6. HandleInv'
  <2> SUFFICES ASSUME NEW c \in Cores, client'[c] # "none"
               PROVE  \E k \in DOMAIN handles' : handles'[k] = c
    BY DEF HandleInv
  <2>1. CASE c = core
    <3>1. Len(handles) + 1 \in DOMAIN handles' BY <1>4
    <3> QED BY <1>4, <2>1, <3>1
  <2>2. CASE c # core
    <3>1. \E k \in DOMAIN handles : handles[k] = c BY <1>1, <1>2, <2>2 DEF LaunchInv, HandleInv
    <3> QED BY <1>4, <3>1
  <2> QED BY <2>1, <2>2
<1>7. WaitInv' /\ GoodByeMeans' BY <1>1 DEF LaunchInv, WaitInv, GoodByeMeans, hostVars
<1> QED BY <1>2, <1>5, <1>6, <1>7 DEF LaunchInv

\* A place that was not chosen adds nothing.
LEMMA SkipStep ==
  ASSUME LaunchInv, SkipCore
  PROVE  LaunchInv'
<1>1. /\ UNCHANGED <<hostVars, launcher, result, handles, reaped, signalled, broker, service, clientVars>>
      /\ launcher = "fork" /\ next < Len(mask) /\ ~Chosen(next + 1)
      /\ next' = next + 1
  BY DEF SkipCore, Forking
<1>2. next \in Nat /\ Len(mask) \in Nat BY MaskTyped DEF LaunchInv, TypeOK
<1>3. TypeOK' BY <1>1, <1>2 DEF LaunchInv, TypeOK, hostVars, clientVars
<1>4. ForkInv'
  <2>1. \A i : Chosen(i)' <=> Chosen(i) BY <1>1 DEF Chosen, hostVars
  <2>2. \A i \in 1..(next + 1) : Chosen(i) => i \in 1..next BY <1>1, <1>2
  <2>3. \A i \in 1..next : i \in 1..(next + 1) BY <1>2
  <2> QED BY <1>1, <2>1, <2>2, <2>3 DEF LaunchInv, ForkInv, hostVars, clientVars
<1>5. HandleInv' /\ WaitInv' /\ GoodByeMeans'
  BY <1>1 DEF LaunchInv, HandleInv, WaitInv, GoodByeMeans, hostVars, clientVars
<1>6. SeedInv'
  BY <1>1
  DEF LaunchInv, SeedInv, TooFewSeeds, HasSeeds, SeedLost, SeedPlaces, hostVars, clientVars
<1>7. SetUpInv' BY <1>1, SameOptions DEF LaunchInv, SetUpInv, Running, hostVars, clientVars
<1> QED BY <1>3, <1>4, <1>5, <1>6, <1>7 DEF LaunchInv

\* The fork loop does not come to its end.
LEMMA ForksFailStep ==
  ASSUME LaunchInv, ForkFails \/ LaunchPanics
  PROVE  LaunchInv'
<1>1. /\ UNCHANGED <<hostVars, handles, reaped, signalled, broker, service, seed, args>>
      /\ launcher = "fork" /\ launcher' = "ended" /\ result' \in {"Panicked", "ForkFailed"}
      /\ \/ UNCHANGED <<next, client>>
         \/ /\ next < Len(mask) /\ Chosen(next + 1) /\ next' = next + 1
            /\ client' = [client EXCEPT ![mask[next + 1]] = "connecting"]
  BY DEF ForkFails, LaunchPanics, Forking, Return, clientVars
<1>2. /\ next' \in 0..Len(mask')
      /\ client' \in [Cores -> {"none", "connecting", "setup", "running"} \cup Gone]
      /\ ForkInv' /\ SeedInv' /\ SetUpInv'
  <2>1. CASE UNCHANGED <<next, client>>
    <3>1. UNCHANGED <<hostVars, next, handles, clientVars>> BY <1>1, <2>1 DEF clientVars
    <3>2. ForkInv' /\ SeedInv' /\ SetUpInv' BY <1>1, <3>1, Unforked
    <3> QED BY <1>1, <2>1, <3>2 DEF LaunchInv, TypeOK, hostVars
  <2>2. CASE ~ UNCHANGED <<next, client>> BY <1>1, <2>2, Forked
  <2> QED BY <2>1, <2>2
<1>3. TypeOK' BY <1>1, <1>2 DEF LaunchInv, TypeOK, hostVars
<1>4. HandleInv' /\ GoodByeMeans' BY <1>1 DEF HandleInv, GoodByeMeans
<1>5. WaitInv' BY <1>1 DEF WaitInv
<1> QED BY <1>2, <1>3, <1>4, <1>5 DEF LaunchInv

LEMMA ForksDoneStep ==
  ASSUME LaunchInv, ForksDone
  PROVE  LaunchInv'
<1>1. /\ UNCHANGED <<hostVars, result, next, handles, reaped, signalled, broker, service, clientVars>>
      /\ launcher = "fork" /\ next = Len(mask)
      /\ launcher' = IF opts.noBroker THEN "wait" ELSE "bind"
  BY DEF ForksDone, AfterForks
<1>2. opts.noBroker \in BOOLEAN BY OptsTyped DEF LaunchInv, TypeOK
<1>3. TypeOK' BY <1>1 DEF LaunchInv, TypeOK, hostVars, clientVars
<1>4. ~TooFewSeeds BY <1>1 DEF LaunchInv, SeedInv
<1>5. ForkInv' /\ HandleInv' /\ SeedInv' /\ SetUpInv' BY <1>1, <1>4, Unforked
<1>6. WaitInv'
  <2>1. reaped' = 0 /\ result = "none" BY <1>1 DEF LaunchInv, WaitInv
  <2>2. \A k \in 1..reaped' : client'[handles'[k]] \in Gone BY <2>1
  <2> QED BY <1>1, <1>2, <2>1, <2>2 DEF WaitInv, hostVars
<1>7. GoodByeMeans' BY <1>1 DEF LaunchInv, WaitInv, GoodByeMeans, hostVars, clientVars
<1> QED BY <1>3, <1>5, <1>6, <1>7 DEF LaunchInv

LEMMA BrokerStep ==
  ASSUME LaunchInv, BindBroker \/ BindFails \/ BrokerExits
  PROVE  LaunchInv'
<1>1. /\ UNCHANGED <<hostVars, next, handles, reaped, clientVars>>
      /\ launcher \in {"bind", "serve"} /\ launcher' \in {"serve", "ended"}
      /\ broker' \in {"off", "up", "exited", "other"}
      /\ service' \in {"off", "starting", "up", "panicked"}
      /\ signalled' \in {signalled, ToSet(handles)}
      /\ \/ launcher' = "serve" /\ result' = result
         \/ launcher' = "ended" /\ result' = "PortInUse"
         \/ launcher' = "ended" /\ result' \in MgrResults /\ broker' = "exited"
  BY DEF BindBroker, BindFails, BrokerExits, Return, LaunchInv, TypeOK
<1>2. ToSet(handles) \subseteq Cores BY DEF LaunchInv, TypeOK, ToSet
<1>3. TypeOK' BY <1>1, <1>2 DEF LaunchInv, TypeOK, hostVars, clientVars
<1>4. next = Len(mask) /\ ~TooFewSeeds BY <1>1 DEF LaunchInv, ForkInv, SeedInv
<1>5. ForkInv' /\ HandleInv' /\ SeedInv' /\ SetUpInv' BY <1>1, <1>4, Unforked
<1>6. ~opts.noBroker BY <1>1 DEF LaunchInv, WaitInv
<1>7. WaitInv' /\ GoodByeMeans'
  BY <1>1, <1>6 DEF LaunchInv, WaitInv, GoodByeMeans, MgrResults, hostVars, clientVars
<1> QED BY <1>3, <1>5, <1>7 DEF LaunchInv

LEMMA WaitStep ==
  ASSUME LaunchInv, WaitClient \/ WaitDone
  PROVE  LaunchInv'
<1>1. /\ UNCHANGED <<hostVars, next, handles, signalled, broker, service, clientVars>>
      /\ launcher = "wait"
      /\ \/ /\ launcher' = launcher /\ result' = result
            /\ reaped < Len(handles) /\ reaped' = reaped + 1
            /\ client[handles[reaped + 1]] \in Gone
         \/ /\ launcher' = "ended" /\ result' = "Ok"
            /\ reaped' = reaped /\ reaped = Len(handles)
  BY DEF WaitClient, WaitDone, Return, AllReaped
<1>2. /\ reaped \in Nat /\ Len(handles) \in Nat /\ DOMAIN handles = 1..Len(handles)
      /\ reaped <= Len(handles)
  BY DEF LaunchInv, TypeOK
<1>3. TypeOK'
  <2>1. reaped' \in 0..Len(handles)
    <3>1. reaped' = reaped \/ (reaped < Len(handles) /\ reaped' = reaped + 1) BY <1>1
    <3> QED BY <1>2, <3>1
  <2>2. result' \in {"none", "Ok", "IllegalArgument", "Panicked", "ForkFailed", "PortInUse"} \cup MgrResults
    BY <1>1 DEF LaunchInv, TypeOK
  <2> QED BY <1>1, <2>1, <2>2 DEF LaunchInv, TypeOK, hostVars, clientVars
<1>4. next = Len(mask) /\ ~TooFewSeeds BY <1>1 DEF LaunchInv, ForkInv, SeedInv
<1>5. ForkInv' /\ HandleInv' /\ SeedInv' /\ SetUpInv' BY <1>1, <1>4, Unforked
<1>6. opts.noBroker /\ \A k \in 1..reaped : client[handles[k]] \in Gone
  BY <1>1 DEF LaunchInv, WaitInv
<1>7. WaitInv'
  <2>1. CASE launcher' = "ended" BY <1>1, <2>1 DEF WaitInv
  <2>2. CASE launcher' = launcher
    <3>1. \A k \in 1..reaped' : client[handles[k]] \in Gone
      BY <1>1, <1>2, <1>6, <2>2
    <3>2. result' = "none" BY <1>1, <2>2 DEF LaunchInv, WaitInv
    <3> QED BY <1>1, <1>6, <2>2, <3>1, <3>2 DEF WaitInv, hostVars, clientVars
  <2> QED BY <1>1, <2>1, <2>2
<1>8. GoodByeMeans'
  <2>1. CASE result' = result BY <1>1, <2>1 DEF LaunchInv, WaitInv, GoodByeMeans
  <2>2. CASE reaped = Len(handles)
    <3>1. \A c \in Cores : client[c] # "none" => client[c] \in Gone
      BY <1>1, <1>2, <1>6, <2>2 DEF LaunchInv, HandleInv
    <3> QED BY <1>1, <1>6, <3>1 DEF GoodByeMeans, hostVars, clientVars
  <2> QED BY <1>1, <2>1, <2>2
<1> QED BY <1>3, <1>5, <1>7, <1>8 DEF LaunchInv

\* The service and the other launcher touch neither clients nor a broker's end.
LEMMA AroundStep ==
  ASSUME LaunchInv, ServiceStarts \/ OtherBroker
  PROVE  LaunchInv'
<1>1. /\ UNCHANGED <<hostVars, launcherVars, clientVars>>
      /\ broker' \in {"off", "up", "exited", "other"}
      /\ service' \in {"off", "starting", "up", "panicked"}
      /\ broker = "exited" => broker' = "exited"
  BY DEF ServiceStarts, OtherBroker, LaunchInv, TypeOK
<1>2. TypeOK' BY <1>1 DEF LaunchInv, TypeOK, hostVars, launcherVars, clientVars
<1>3. ForkInv' /\ HandleInv' /\ SeedInv' /\ SetUpInv'
  <2>1. /\ launcher' \in {"bind", "serve", "wait"} => next = Len(mask)
        /\ launcher' \notin {"check", "ended"} => ~TooFewSeeds
        /\ launcher' # "ended" => launcher # "ended"
        /\ UNCHANGED <<hostVars, next, handles, clientVars>>
    BY <1>1 DEF LaunchInv, ForkInv, SeedInv, launcherVars
  <2> QED BY <2>1, Unforked
<1>4. WaitInv' /\ GoodByeMeans'
  BY <1>1 DEF LaunchInv, WaitInv, GoodByeMeans, hostVars, launcherVars, clientVars
<1> QED BY <1>2, <1>3, <1>4 DEF LaunchInv

-----------------------------------------------------------------------------
(* A client's steps *)

LEMMA ClientStep ==
  ASSUME LaunchInv, NEW c \in Cores, Connect(c) \/ SetUp(c) \/ ClientEnds(c)
  PROVE  LaunchInv'
<1> DEFINE After == {"setup", "running"} \cup Gone
<1>1. PICK state \in After :
        /\ UNCHANGED <<hostVars, launcherVars, broker, service>>
        /\ client[c] \in {"connecting", "setup", "running"}
        /\ client' = [client EXCEPT ![c] = state]
        /\ state = "noseed" => SeedLost(c)
        /\ \/ state # "running" /\ seed' = seed /\ args' = args
           \/ /\ state = "running" /\ ~SeedLost(c) /\ ~BadArgs
              /\ \E s \in SeedOf(c) : seed' = [seed EXCEPT ![c] = s]
              /\ args' = [args EXCEPT ![c] = HarnessArgs(c)]
  <2>1. CASE Connect(c)
    <3>1. /\ UNCHANGED <<hostVars, launcherVars, broker, service, seed, args>>
          /\ client[c] = "connecting" /\ client' = [client EXCEPT ![c] = "setup"]
      BY <2>1 DEF Connect, Become
    <3>2. "setup" \in After OBVIOUS
    <3> QED BY <3>1, <3>2
  <2>2. CASE LosesSeed(c) BY <2>2 DEF LosesSeed, Become, Gone
  <2>3. CASE FailsOnArgs(c) BY <2>3 DEF FailsOnArgs, Become, Gone
  <2>4. CASE StartsFuzzing(c) BY <2>4 DEF StartsFuzzing, Become
  <2>5. CASE ClientEnds(c) BY <2>5 DEF ClientEnds, Become, Gone
  <2> QED BY <2>1, <2>2, <2>3, <2>4, <2>5 DEF SetUp
<1>2. /\ client \in [Cores -> {"none", "connecting", "setup", "running"} \cup Gone]
      /\ seed \in [Cores -> Nat \cup {AutoSeed, NoSeed}]
      /\ args \in [Cores -> Seq(Words \cup Numbers)]
      /\ opts \in Options /\ mask \in Masks /\ handles \in Seq(Cores)
      /\ next \in 0..Len(mask) /\ reaped \in 0..Len(handles)
  BY DEF LaunchInv, TypeOK
<1>3. /\ client'[c] = state /\ state # "none"
      /\ client[c] # "none" /\ client[c] \notin Gone
      /\ \A d \in Cores : d # c => client'[d] = client[d]
  BY <1>1, <1>2 DEF Gone
<1>4. TypeOK'
  <2>1. client' \in [Cores -> {"none", "connecting", "setup", "running"} \cup Gone]
    BY <1>1, <1>2
  <2>2. seed' \in [Cores -> Nat \cup {AutoSeed, NoSeed}]
    <3>1. SeedOf(c) \subseteq Nat \cup {AutoSeed} BY <1>2, OptsTyped DEF SeedOf, SeedPlaces
    <3> QED BY <1>1, <1>2, <3>1
  <2>3. args' \in [Cores -> Seq(Words \cup Numbers)]
    <3>1. ~BadArgs => HarnessArgs(c) \in Seq(Words \cup Numbers)
      <4>1. opts.args \in Seq(Words \cup Numbers) BY <1>2, OptsTyped
      <4>2. \A j \in DOMAIN opts.args :
              opts.args[j] \in Numbers => Incremented(opts.args[j], c) \in Numbers
        BY IncrementedIsNumber
      <4> QED BY <4>1, <4>2 DEF HarnessArgs, BadArgs
    <3> QED BY <1>1, <1>2, <3>1
  <2> QED BY <1>1, <2>1, <2>2, <2>3 DEF LaunchInv, TypeOK, hostVars, launcherVars
<1>5. ForkInv'
  <2>1. \A i : Chosen(i)' <=> Chosen(i) BY <1>1 DEF Chosen, hostVars
  <2>2. \A d \in Cores : client'[d] # "none" <=> client[d] # "none" BY <1>3
  <2>3. \A i \in 1..next : mask[i] \in Cores BY <1>2, MaskTyped
  <2> QED BY <1>1, <2>1, <2>2, <2>3 DEF LaunchInv, ForkInv, hostVars, launcherVars
<1>6. WaitInv'
  <2>1. \A d \in Cores : client[d] \in Gone => client'[d] \in Gone BY <1>3
  <2>2. \A k \in 1..reaped : handles[k] \in Cores BY <1>2
  <2> QED BY <1>1, <2>1, <2>2 DEF LaunchInv, WaitInv, hostVars, launcherVars
<1>7. GoodByeMeans' BY <1>1, <1>3 DEF LaunchInv, GoodByeMeans, hostVars, launcherVars
<1>8. SeedInv'
  <2>1. ~TooFewSeeds' BY <1>1, <1>3 DEF LaunchInv, SeedInv, TooFewSeeds, HasSeeds, hostVars
  <2>2. \A d \in Cores : SeedLost(d)' <=> SeedLost(d)
    BY <1>1 DEF SeedLost, HasSeeds, SeedPlaces, hostVars
  <2>3. \A d \in Cores : client'[d] = "noseed" => SeedLost(d)
    BY <1>1, <1>3 DEF LaunchInv, SeedInv
  <2> QED BY <2>1, <2>2, <2>3 DEF SeedInv
<1>9. SetUpInv'
  <2>1. UNCHANGED opts BY <1>1 DEF hostVars
  <2> SUFFICES ASSUME NEW d \in Cores, client'[d] = "running"
               PROVE  args'[d] = HarnessArgs(d) /\ ~BadArgs /\ seed'[d] \in SeedOf(d)
    BY <2>1, SameOptions DEF SetUpInv, Running
  <2>2. CASE d = c BY <1>1, <1>2, <1>3, <2>2
  <2>3. CASE d # c BY <1>1, <1>2, <1>3, <2>3 DEF LaunchInv, SetUpInv, Running
  <2> QED BY <2>2, <2>3
<1>10. HandleInv' BY <1>1, <1>3 DEF LaunchInv, HandleInv, launcherVars
<1> QED BY <1>4, <1>5, <1>6, <1>7, <1>8, <1>9, <1>10 DEF LaunchInv

-----------------------------------------------------------------------------
(* The invariant *)

\* No step of any process breaks it.
LEMMA NextInv == LaunchInv /\ [Next]_vars => LaunchInv'
<1> SUFFICES ASSUME LaunchInv, [Next]_vars PROVE LaunchInv'
  OBVIOUS
<1>1. CASE Launch
  BY <1>1, CheckStep, ForkStep, SkipStep, ForksFailStep, ForksDoneStep, BrokerStep, WaitStep DEF Launch
<1>2. CASE BrokerExits BY <1>2, BrokerStep
<1>3. CASE ServiceStarts \/ OtherBroker BY <1>3, AroundStep
<1>4. CASE \E c \in Cores : Connect(c) \/ SetUp(c) \/ ClientEnds(c) BY <1>4, ClientStep
<1>5. CASE UNCHANGED vars
  <2>1. UNCHANGED <<hostVars, launcherVars, broker, service, clientVars>> BY <1>5 DEF vars
  <2> QED BY <2>1
    DEF LaunchInv, TypeOK, ForkInv, HandleInv, WaitInv, GoodByeMeans, SeedInv, SetUpInv, Running, Chosen,
        TooFewSeeds, HasSeeds, SeedLost, SeedPlaces, SeedOf, HarnessArgs, BadArgs, ToAdapt,
        hostVars, launcherVars, clientVars
<1> QED BY <1>1, <1>2, <1>3, <1>4, <1>5 DEF Next

THEOREM LaunchInvariant == Spec => []LaunchInv
<1> QED BY InitInv, NextInv, PTL DEF Spec

\* Every variable keeps its type; in particular an argument that was incremented
\* is again a number of the target's width.
THEOREM TypeCorrect == Spec => []TypeOK
<1>1. LaunchInv => TypeOK BY DEF LaunchInv
<1> QED BY <1>1, LaunchInvariant, PTL

\* However many cores and seeds are given, a client that finds no seed runs on a
\* core that nobody asked for.
THEOREM SeedsSufficeAlways == Spec => []SeedsSuffice
<1>1. LaunchInv => SeedsSuffice
  <2> SUFFICES ASSUME LaunchInv, NEW c \in Cores, client[c] = "noseed", c \in ToSet(opts.cores)
               PROVE  FALSE
    BY DEF SeedsSuffice
  <2>1. ~TooFewSeeds /\ SeedLost(c) BY DEF LaunchInv, SeedInv
  <2>2. opts.cores \in Seq(Nat) /\ opts.vals \in Seq(Nat) BY OptsTyped DEF LaunchInv, TypeOK
  <2>3. Len(opts.cores) <= Len(opts.vals) BY <2>1, <2>2 DEF TooFewSeeds, SeedLost
  <2>4. PICK i \in DOMAIN opts.cores : opts.cores[i] = c BY DEF ToSet
  <2>5. i \in DOMAIN opts.vals BY <2>2, <2>3, <2>4
  <2> QED BY <2>1, <2>4, <2>5 DEF SeedLost, SeedPlaces
<1> QED BY <1>1, LaunchInvariant, PTL

\* Repetitions in the lists of cores or seeds never lead two clients to one seed:
\* what is left of the seeds has each once, and clients of different cores look at
\* different places of the list of cores.
THEOREM SeedsApartAlways == Spec => []SeedsApart
<1>1. LaunchInv => SeedsApart
  <2> SUFFICES ASSUME LaunchInv, HasSeeds, NEW c \in Cores, NEW d \in Cores,
                      Running(c), Running(d), c # d
               PROVE  seed[c] # seed[d]
    BY DEF SeedsApart
  <2>1. seed[c] \in SeedOf(c) /\ seed[d] \in SeedOf(d) BY DEF LaunchInv, SetUpInv
  <2>2. PICK i \in SeedPlaces(c) : seed[c] = opts.vals[i] BY <2>1 DEF SeedOf
  <2>3. PICK j \in SeedPlaces(d) : seed[d] = opts.vals[j] BY <2>1 DEF SeedOf
  <2>4. /\ i \in DOMAIN opts.vals /\ j \in DOMAIN opts.vals
        /\ opts.cores[i] = c /\ opts.cores[j] = d
    BY DEF SeedPlaces
  <2>5. \A k, l \in DOMAIN opts.vals : opts.vals[k] = opts.vals[l] => k = l
    BY OptsTyped DEF LaunchInv, TypeOK
  <2> QED BY <2>2, <2>3, <2>4, <2>5
<1> QED BY <1>1, LaunchInvariant, PTL

\* A launcher without a broker that says good bye has outlived all its clients,
\* one with a broker has seen it end.
THEOREM GoodByeMeansAlways == Spec => []GoodByeMeans
<1>1. LaunchInv => GoodByeMeans BY DEF LaunchInv
<1> QED BY <1>1, LaunchInvariant, PTL

\* Where the usable cores are numbered from zero, comparing places instead of
\* ids does no harm.
THEOREM ProvidedCoresUsedAlways == Spec => []ProvidedCoresUsed
<1>1. LaunchInv => ProvidedCoresUsed
  <2> SUFFICES ASSUME LaunchInv, AllUsable PROVE ProvidedCores
    BY DEF ProvidedCoresUsed
  <2>1. /\ mask \in Seq(Nat) /\ Len(mask) \in Nat /\ next \in 0..Len(mask)
        /\ \A i \in 1..Len(mask) : mask[i] \in Cores
    BY MaskTyped DEF LaunchInv, TypeOK
  <2>2. \A i \in 1..Len(mask) : mask[i] = i - 1 BY <2>1 DEF AllUsable
  <2>3. \A i \in 1..Len(mask) : Chosen(i) <=> mask[i] \in ToSet(opts.cores)
    BY <2>2 DEF Chosen, ToSet
  <2>4. \A i \in 1..next : i \in 1..Len(mask) BY <2>1
  <2>5. \A c \in Cores : client[c] # "none" => c \in ToSet(opts.cores)
    BY <2>3, <2>4 DEF LaunchInv, ForkInv
  <2>6. launcher \in {"bind", "serve", "wait"} =>
          \A c \in ToSet(opts.cores) \cap ToSet(mask) : client[c] # "none"
    <3> SUFFICES ASSUME launcher \in {"bind", "serve", "wait"},
                        NEW c \in ToSet(opts.cores) \cap ToSet(mask)
                 PROVE  client[c] # "none"
      OBVIOUS
    <3>1. PICK i \in 1..Len(mask) : mask[i] = c BY <2>1 DEF ToSet
    <3>2. Chosen(i) /\ i \in 1..next BY <2>3, <3>1 DEF LaunchInv, ForkInv
    <3> QED BY <3>1, <3>2 DEF LaunchInv, ForkInv
  <2> QED BY <2>5, <2>6 DEF ProvidedCores
<1> QED BY <1>1, LaunchInvariant, PTL

\* An increment by the core's id tells clients apart at any width, also past the
\* largest number: two ids that fit are less than one turn from each other.
THEOREM ArgsApartAlways == Spec => []ArgsApart
<1>1. LaunchInv => ArgsApart
  <2> SUFFICES ASSUME LaunchInv, NEW c \in Cores, NEW d \in Cores,
                      Running(c), Running(d), c # d,
                      NEW j \in DOMAIN opts.args, ToAdapt(j)
               PROVE  args[c][j] # args[d][j]
    BY DEF ArgsApart
  <2> DEFINE v == opts.args[j]
             m == UsizeMax + 1
  <2>1. v \in Numbers BY DEF LaunchInv, SetUpInv, BadArgs
  <2>2. args[c][j] = Incremented(v, c) /\ args[d][j] = Incremented(v, d)
    BY DEF LaunchInv, SetUpInv, HarnessArgs
  <2>3. m \in Nat \ {0} /\ v \in 0..(m - 1) /\ c \in 0..(m - 1) /\ d \in 0..(m - 1)
    BY <2>1, CoresFitUsize DEF Numbers
  <2> HIDE DEF v, m
  <2> DEFINE x == v + c
             y == v + d
  <2>4. x \in 0..(2 * m - 1) /\ y \in 0..(2 * m - 1) /\ x # y /\ x < y + m /\ y < x + m
    BY <2>3
  <2>5. Incremented(v, c) = x % m /\ Incremented(v, d) = y % m BY DEF Incremented, m
  <2> HIDE DEF x, y
  <2>6. /\ x % m = IF x < m THEN x ELSE x - m
        /\ y % m = IF y < m THEN y ELSE y - m
    BY <2>3, <2>4, OneTurn
  <2>7. x % m # y % m BY <2>3, <2>4, <2>6
  <2> QED BY <2>2, <2>5, <2>7
<1> QED BY <1>1, LaunchInvariant, PTL
=============================================================================
