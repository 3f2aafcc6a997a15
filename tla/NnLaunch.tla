------------------------------ MODULE NnLaunch ------------------------------
(***************************************************************************)
(* How a session starts and ends.  The launcher checks its options, forks  *)
(* one client per chosen core, and only then becomes the broker or, with   *)
(* no_broker, waits for its children.  Each client retries until there is  *)
(* a broker on the port, looks up its seed, adapts the target's arguments  *)
(* and fuzzes.  Another launcher on the machine may own the port.          *)
(*                                                                         *)
(* A client is named by the id of the core it is bound to, which is also   *)
(* what run_client is called with.                                         *)
(***************************************************************************)
EXTENDS Naturals, FiniteSets, Sequences, SequencesExt

CONSTANTS
  Masks,     \* what get_core_ids may return: the ids of the usable cores
  Commands,  \* command lines: [cores, seed, args, noBroker, spawnClient]
  AutoSeed,  \* the word "auto" for seeds
  Words,     \* arguments that do not parse as a number
  Works,     \* those after which the core_args_config file wants an increment
  UsizeMax,
  NoSeed

Cores == UNION {ToSet(ids) : ids \in Masks}
Numbers == 0..UsizeMax

ASSUME MasksListCores ==
  /\ Masks \subseteq Seq(Nat)
  /\ \A ids \in Masks : \A i, j \in DOMAIN ids : ids[i] = ids[j] => i = j
ASSUME CoresFitUsize == UsizeMax \in Nat /\ Cores \subseteq Numbers
ASSUME CommandsTyped ==
  \A cmd \in Commands :
    /\ cmd.cores \in Seq(Nat)
    /\ cmd.args \in Seq(Words \cup Numbers)
    /\ cmd.noBroker \in BOOLEAN /\ cmd.spawnClient \in BOOLEAN
ASSUME WordsAreNotNumbers == Words \cap Nat = {} /\ {AutoSeed, NoSeed} \cap Nat = {}
\* The keys of the file are options like -p; what was incremented is none.
ASSUME WorksAreWords == Works \subseteq Words

VARIABLES
  mask,      \* the core ids of this machine, in the order of get_core_ids
  opts,      \* the parsed options
  launcher,  \* check, fork, bind, serve, wait, ended
  result,    \* of fuzz in the launcher's process: none, Ok or the error
  next,      \* how many core ids the fork loop has seen
  handles,   \* the children, in the order forked
  reaped,    \* how many of them waitpid has returned for
  signalled, \* children that were sent SIGINT
  broker,    \* on the broker port: off, up, exited, or another launcher's
  service,   \* run_service: off, starting, up, panicked
  client,    \* [Cores -> ...]  none, connecting, setup, running, or how it ended
  seed,      \* [Cores -> ...]  what the random generator of a client started from
  args       \* [Cores -> ...]  the arguments a client gives to the target

hostVars == <<mask, opts>>
launcherVars == <<launcher, result, next, handles, reaped, signalled>>
clientVars == <<client, seed, args>>
vars == <<hostVars, launcherVars, broker, service, clientVars>>

Gone == {"noseed", "badargs", "ended"}

-----------------------------------------------------------------------------
(* Options *)

\* "703", "0-10", and anything with more dashes, which is passed over.
Expanded(item) ==
  CASE Len(item) = 1 -> item
    [] Len(item) = 2 -> [i \in 1..(item[2] + 1 - item[1]) |-> item[1] + i - 1]
    [] OTHER -> <<>>

UniqueNot(s) == s  \* mutant: repetitions are kept
\* The first of equals stays, and these keep their order.
Firsts(s) == {i \in DOMAIN s : \A j \in DOMAIN s : s[j] = s[i] => i <= j}
Place(i, S) == Cardinality({j \in S : j <= i})
Unique(s) ==
  [k \in 1..Cardinality(Firsts(s)) |-> s[CHOOSE i \in Firsts(s) : Place(i, Firsts(s)) = k]]

\* Seeds::from_cmdline.  An empty list is an error of the command line, so that
\* no seeds stand for "auto".
Listed(text) == FlattenSeq([i \in DOMAIN text |-> Expanded(text[i])])
FromCmdline(text) == IF text = AutoSeed THEN <<>> ELSE Unique(Listed(text))
Accepted(text) == text = AutoSeed \/ FromCmdline(text) # <<>>

Parsed(cmd) ==
  [cores |-> cmd.cores, vals |-> FromCmdline(cmd.seed), args |-> cmd.args,
   noBroker |-> cmd.noBroker, spawnClient |-> cmd.spawnClient]

Options == {Parsed(cmd) : cmd \in {c \in Commands : Accepted(c.seed)}}
\* A list of numbers and ranges comes to a list of numbers.
ASSUME SeedsAreNumbers ==
  \A cmd \in Commands : cmd.seed # AutoSeed => Listed(cmd.seed) \in Seq(Nat)

HasSeeds == opts.vals # <<>>

TooFewSeedsNever == FALSE  \* mutant: the options are not checked
TooFewSeeds == HasSeeds /\ Len(opts.cores) > Len(opts.vals)

Init ==
  /\ mask \in Masks
  /\ opts \in Options
  /\ launcher = "check"
  /\ result = "none"
  /\ next = 0
  /\ handles = <<>>
  /\ reaped = 0
  /\ signalled = {}
  /\ broker \in {"off", "other"}
  /\ service = "off"
  /\ client = [c \in Cores |-> "none"]
  /\ seed = [c \in Cores |-> NoSeed]
  /\ args = [c \in Cores |-> <<>>]

-----------------------------------------------------------------------------
(* The launcher *)

Return(value) ==
  /\ launcher' = "ended"
  /\ result' = value

CheckOptions ==
  /\ launcher = "check"
  /\ IF TooFewSeeds THEN Return("IllegalArgument")
                    ELSE launcher' = "fork" /\ UNCHANGED result
  /\ UNCHANGED <<hostVars, next, handles, reaped, signalled, broker, service, clientVars>>

\* The fork loop compares the place of a core in the list of usable cores with
\* the chosen ids, and binds the client to the core that has that place.
ChosenFromOne(place) == \E i \in DOMAIN opts.cores : opts.cores[i] = place  \* mutant
Chosen(place) == \E i \in DOMAIN opts.cores : opts.cores[i] = place - 1
Forking == launcher = "fork" /\ next < Len(mask)

ForkClient ==
  /\ Forking
  /\ Chosen(next + 1)
  /\ next' = next + 1
  /\ handles' = Append(handles, mask[next + 1])
  /\ client' = [client EXCEPT ![mask[next + 1]] = "connecting"]
  /\ UNCHANGED <<hostVars, launcher, result, reaped, signalled, broker, service, seed, args>>

SkipCore ==
  /\ Forking
  /\ ~Chosen(next + 1)
  /\ next' = next + 1
  /\ UNCHANGED <<hostVars, launcher, result, handles, reaped, signalled, broker, service, clientVars>>

\* No shared memory, no list of cores, no file for the output.
LaunchPanics ==
  /\ launcher = "fork"
  /\ next = 0
  /\ Return("Panicked")
  /\ UNCHANGED <<hostVars, next, handles, reaped, signalled, broker, service, clientVars>>

\* pre_fork or fork fails, or post_fork when there is a child already, whose
\* handle is lost: the launcher is gone, the children so far are not.
ForkFails ==
  /\ Forking
  /\ Chosen(next + 1)
  /\ Return("ForkFailed")
  /\ \/ next' = next + 1 /\ client' = [client EXCEPT ![mask[next + 1]] = "connecting"]
     \/ UNCHANGED <<next, client>>
  /\ UNCHANGED <<hostVars, handles, reaped, signalled, broker, service, seed, args>>

AfterForksWait == "wait"  \* mutant: children are waited for in any case
AfterForks == IF opts.noBroker THEN "wait" ELSE "bind"
ForksDone ==
  /\ launcher = "fork"
  /\ next = Len(mask)
  /\ launcher' = AfterForks
  /\ UNCHANGED <<hostVars, result, next, handles, reaped, signalled, broker, service, clientVars>>

\* NnRestartingMgr::launch, in the launcher's own process.
BindBroker ==
  /\ launcher = "bind"
  /\ broker = "off"
  /\ broker' = "up"
  /\ launcher' = "serve"
  /\ service' = IF opts.spawnClient THEN "starting" ELSE "off"
  /\ UNCHANGED <<hostVars, result, next, handles, reaped, signalled, clientVars>>

BindFails ==
  /\ launcher = "bind"
  /\ broker # "off"
  /\ Return("PortInUse")
  /\ UNCHANGED <<hostVars, next, handles, reaped, signalled, broker, service, clientVars>>

\* broker_loop comes back, by a shutdown or an error; launch itself then
\* returns an error in any case, which leaves the launcher before it gets to
\* the kills.
MgrResults == {"ShuttingDown", "BrokerError"}
BrokerExits ==
  /\ launcher = "serve"
  /\ broker' = "exited"
  /\ service' = IF service = "off" THEN "off" ELSE "panicked"
  /\ \E value \in MgrResults :
       /\ Return(value)
       /\ signalled' = IF value = "Ok" THEN ToSet(handles) ELSE signalled
  /\ UNCHANGED <<hostVars, next, handles, reaped, clientVars>>

\* Without a broker of its own: waitpid for one child after the other.
WaitClient ==
  /\ launcher = "wait"
  /\ reaped < Len(handles)
  /\ client[handles[reaped + 1]] \in Gone
  /\ reaped' = reaped + 1
  /\ UNCHANGED <<hostVars, launcher, result, next, handles, signalled, broker, service, clientVars>>

AllReapedOne == handles = <<>> \/ reaped > 0  \* mutant: the first child only
AllReaped == reaped = Len(handles)
WaitDone ==
  /\ launcher = "wait"
  /\ AllReaped
  /\ Return("Ok")
  /\ UNCHANGED <<hostVars, next, handles, reaped, signalled, broker, service, clientVars>>

-----------------------------------------------------------------------------
(* Around the launcher *)

\* The service's thread binds its port, or panics without anybody noticing.
ServiceStarts ==
  /\ service = "starting"
  /\ service' \in {"up", "panicked"}
  /\ UNCHANGED <<hostVars, launcherVars, broker, clientVars>>

\* Another launcher's broker comes and goes.
OtherBroker ==
  /\ \/ broker = "off" /\ broker' = "other"
     \/ broker = "other" /\ broker' = "off"
  /\ UNCHANGED <<hostVars, launcherVars, service, clientVars>>

-----------------------------------------------------------------------------
(* A client *)

Become(c, state) == client' = [client EXCEPT ![c] = state]

\* LibAFL's manager retries until it reaches a broker, whosever it is.
Connect(c) ==
  /\ client[c] = "connecting"
  /\ broker \in {"up", "other"}
  /\ Become(c, "setup")
  /\ UNCHANGED <<hostVars, launcherVars, broker, service, seed, args>>

\* The first chosen core with this id that has a seed at its place.
SeedPlaces(c) == {i \in DOMAIN opts.cores \cap DOMAIN opts.vals : opts.cores[i] = c}
SeedLost(c) == HasSeeds /\ SeedPlaces(c) = {}
SeedOf(c) ==
  IF HasSeeds
  THEN {opts.vals[i] : i \in {j \in SeedPlaces(c) : \A k \in SeedPlaces(c) : j <= k}}
  ELSE {AutoSeed}

LosesSeed(c) ==
  /\ client[c] = "setup"
  /\ SeedLost(c)
  /\ Become(c, "noseed")
  /\ UNCHANGED <<hostVars, launcherVars, broker, service, seed, args>>

\* mutate_args: the argument after a word of the file is incremented.  A sum
\* beyond usize wraps (or panics, in a debug build, like any other failure of
\* the set-up).
ToAdapt(j) == j > 1 /\ opts.args[j - 1] \in Works
IncrementedWide(v, c) == v + c  \* mutant: no bound
IncrementedSaturating(v, c) == IF v + c > UsizeMax THEN UsizeMax ELSE v + c  \* mutant
Incremented(v, c) == (v + c) % (UsizeMax + 1)
HarnessArgs(c) ==
  [j \in DOMAIN opts.args |->
     IF ToAdapt(j) THEN Incremented(opts.args[j], c) ELSE opts.args[j]]
BadArgs == \E j \in DOMAIN opts.args : ToAdapt(j) /\ opts.args[j] \notin Numbers

FailsOnArgs(c) ==
  /\ client[c] = "setup"
  /\ ~SeedLost(c)
  /\ BadArgs
  /\ Become(c, "badargs")
  /\ UNCHANGED <<hostVars, launcherVars, broker, service, seed, args>>

StartsFuzzing(c) ==
  /\ client[c] = "setup"
  /\ ~SeedLost(c)
  /\ ~BadArgs
  /\ Become(c, "running")
  /\ \E s \in SeedOf(c) : seed' = [seed EXCEPT ![c] = s]
  /\ args' = [args EXCEPT ![c] = HarnessArgs(c)]
  /\ UNCHANGED <<hostVars, launcherVars, broker, service>>

\* Output that cannot be redirected ends a client before it connects, a missing
\* target, token file or corpus its set-up, an error of the executor or the event
\* manager its fuzz loop.
ClientEnds(c) ==
  /\ client[c] \in {"connecting", "setup", "running"}
  /\ Become(c, "ended")
  /\ UNCHANGED <<hostVars, launcherVars, broker, service, seed, args>>

-----------------------------------------------------------------------------
Launch ==
  \/ CheckOptions \/ LaunchPanics \/ ForkClient \/ SkipCore \/ ForkFails \/ ForksDone
  \/ BindBroker \/ BindFails \/ WaitClient \/ WaitDone

SetUp(c) == LosesSeed(c) \/ FailsOnArgs(c) \/ StartsFuzzing(c)

Next ==
  \/ Launch \/ BrokerExits \/ ServiceStarts \/ OtherBroker
  \/ \E c \in Cores : Connect(c) \/ SetUp(c) \/ ClientEnds(c)

Spec == Init /\ [][Next]_vars

\* The launcher's steps are those of a sequential program, and a client that
\* retries gets through to a broker that stays.
FairSpec ==
  /\ Spec
  /\ WF_vars(Launch)
  /\ \A c \in Cores : WF_vars(Connect(c)) /\ WF_vars(SetUp(c))

-----------------------------------------------------------------------------
TypeOK ==
  /\ mask \in Masks
  /\ opts \in Options
  /\ launcher \in {"check", "fork", "bind", "serve", "wait", "ended"}
  /\ result \in {"none", "Ok", "IllegalArgument", "Panicked", "ForkFailed", "PortInUse"} \cup MgrResults
  /\ next \in 0..Len(mask)
  /\ handles \in Seq(Cores)
  /\ reaped \in 0..Len(handles)
  /\ signalled \subseteq Cores
  /\ broker \in {"off", "up", "exited", "other"}
  /\ service \in {"off", "starting", "up", "panicked"}
  /\ client \in [Cores -> {"none", "connecting", "setup", "running"} \cup Gone]
  /\ seed \in [Cores -> Nat \cup {AutoSeed, NoSeed}]
  /\ args \in [Cores -> Seq(Words \cup Numbers)]

Running(c) == client[c] = "running"

\* Two clients that fuzz never draw the same random numbers, if seeds are given,
\* whatever repetitions the lists of cores and seeds contain.
SeedsApart ==
  \A c, d \in Cores : (Running(c) /\ Running(d) /\ c # d /\ HasSeeds) => seed[c] # seed[d]

\* Nor do their targets get the same value where one was to be told apart, a port
\* for instance, be it by way of an overflow.
ArgsApart ==
  \A c, d \in Cores : (Running(c) /\ Running(d) /\ c # d) =>
    \A j \in DOMAIN opts.args : ToAdapt(j) => args[c][j] # args[d][j]

\* The check of the options is the only thing between a short list of seeds and
\* the panic in the seed lookup: with it, only a client on a core that was not
\* asked for finds no seed.
SeedsSuffice ==
  \A c \in Cores : client[c] = "noseed" => c \notin ToSet(opts.cores)

\* A launcher that ends with "Congrat! Good bye" leaves no client behind that
\* it has started, or was the broker until its end.
GoodByeMeans ==
  result \in {"Ok", "ShuttingDown"} =>
    IF opts.noBroker THEN \A c \in Cores : client[c] \in Gone \cup {"none"}
                     ELSE broker = "exited"

\* "Spawn a client in each of the provided cores": clients run on cores that
\* were asked for, and once the fork loop is through on all of these that the
\* machine has.
ProvidedCores ==
  /\ \A c \in Cores : client[c] # "none" => c \in ToSet(opts.cores)
  /\ launcher \in {"bind", "serve", "wait"} =>
       \A c \in ToSet(opts.cores) \cap ToSet(mask) : client[c] # "none"

\* They do so where the usable cores are 0, 1, 2 and so on.
AllUsable == \A i \in DOMAIN mask : mask[i] = i - 1
ProvidedCoresUsed == AllUsable => ProvidedCores

\* Clients are forked before the broker listens.  Each reaches a broker all the
\* same, unless the launcher ends early; the launcher waits for no client that
\* waits for the launcher, and a service that panics stops neither.
ClientsAttach ==
  \A c \in Cores :
    (client[c] = "connecting" /\ ~opts.noBroker) ~> (client[c] # "connecting" \/ launcher = "ended")

(* What the comments say *)

\* "Broker exited. kill all clients."
BrokerExitKills ==
  (launcher = "ended" /\ broker = "exited") => ToSet(handles) \subseteq signalled
=============================================================================
