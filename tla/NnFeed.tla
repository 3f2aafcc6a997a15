------------------------------- MODULE NnFeed -------------------------------
(***************************************************************************)
(* What nn_fuzz promises to the programs attached to one broker, fuzzer    *)
(* instances and neural-network peers alike, with every process, page,     *)
(* socket and buffer taken away: one log of published messages.            *)
(*                                                                         *)
(* A client submits messages.  The broker settles them one at a time, in   *)
(* the order of each client: it publishes the message in the log or, for a *)
(* client that is not Remote, keeps it to itself (a statistic).  A client  *)
(* that joined at some point of the log is handed every later message of   *)
(* the other clients, in log order, each once, and none of its own.        *)
(*                                                                         *)
(* NnBridge implements this specification; NnFuzzers builds on its actions.*)
(***************************************************************************)
EXTENDS Naturals, Sequences

CONSTANTS
  Clients,   \* everything that holds an LLMP client id
  Remote     \* the clients whose messages are always published

VARIABLES
  submitted, \* [Clients -> Nat]  messages each client has handed over
  settled,   \* [Clients -> Nat]  how many of them the broker has settled
  log,       \* the published messages, as [client, n] pairs
  joined,    \* the clients that have joined
  start,     \* [Clients -> Nat]  the log's length when the feed of a client began
  inbox      \* [Clients -> Seq(Nat)]  log positions handed to each client

vars == <<submitted, settled, log, joined, start, inbox>>

Init ==
  /\ submitted = [c \in Clients |-> 0]
  /\ settled = [c \in Clients |-> 0]
  /\ log = <<>>
  /\ joined = Clients \ Remote
  /\ start = [c \in Clients |-> 0]
  /\ inbox = [c \in Clients |-> <<>>]

\* A remote client attaches; its feed begins somewhere in the log so far.
Join(c) ==
  /\ c \notin joined
  /\ joined' = joined \cup {c}
  /\ \E p \in 0..Len(log) : start' = [start EXCEPT ![c] = p]
  /\ UNCHANGED <<submitted, settled, log, inbox>>

Submit(c) ==
  /\ c \in joined
  /\ submitted' = [submitted EXCEPT ![c] = @ + 1]
  /\ UNCHANGED <<settled, log, joined, start, inbox>>

Publish(c) ==
  /\ settled[c] < submitted[c]
  /\ settled' = [settled EXCEPT ![c] = @ + 1]
  /\ log' = Append(log, [client |-> c, n |-> settled[c] + 1])
  /\ UNCHANGED <<submitted, joined, start, inbox>>

Keep(c) ==
  /\ c \notin Remote
  /\ settled[c] < submitted[c]
  /\ settled' = [settled EXCEPT ![c] = @ + 1]
  /\ UNCHANGED <<submitted, log, joined, start, inbox>>

\* How far into the log the feed of c has come.
Reached(c) == IF inbox[c] = <<>> THEN start[c] ELSE inbox[c][Len(inbox[c])]

\* c is handed the next message of another client: nothing of another client
\* lies between it and the one before.
Deliver(c) ==
  /\ c \in joined
  /\ \E p \in (Reached(c) + 1)..Len(log) :
       /\ log[p].client # c
       /\ \A q \in (Reached(c) + 1)..(p - 1) : log[q].client = c
       /\ inbox' = [inbox EXCEPT ![c] = Append(@, p)]
  /\ UNCHANGED <<submitted, settled, log, joined, start>>

Next == \E c \in Clients :
          Join(c) \/ Submit(c) \/ Publish(c) \/ Keep(c) \/ Deliver(c)

Spec == Init /\ [][Next]_vars

-----------------------------------------------------------------------------
(* What follows for a client *)

\* A client has been handed exactly what the others published from where its feed
\* began to where it has come, in log order, each once.
HandedExactly ==
  \A c \in Clients :
    /\ \A i, j \in DOMAIN inbox[c] : i < j => inbox[c][i] < inbox[c][j]
    /\ {inbox[c][i] : i \in DOMAIN inbox[c]}
         = {p \in (start[c] + 1)..Reached(c) : log[p].client # c}

\* Whoever is handed a message of a remote client has been handed the one that
\* client sent before it, unless that was published before its feed began, and
\* is not handed it again.
InputsInOrder ==
  \A c \in Clients : \A i \in DOMAIN inbox[c] :
    LET message == log[inbox[c][i]]
        before == [message EXCEPT !.n = @ - 1]
    IN  message.client \in Remote =>
          /\ \/ message.n = 1
             \/ \E p \in 1..start[c] : log[p] = before
             \/ \E j \in 1..(i - 1) : log[inbox[c][j]] = before
          /\ \A j \in DOMAIN inbox[c] \ {i} : log[inbox[c][j]] # message
=============================================================================
