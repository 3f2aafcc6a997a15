---------------------------- MODULE NnFeedProofs ----------------------------
(***************************************************************************)
(* Theorems about NnFeed, for any clients.  What implements the feed has    *)
(* them by its refinement: NnBridgeRefinement and NnFuzzersProofs take them *)
(* over by instantiating this module.                                       *)
(***************************************************************************)
EXTENDS NnFeed, TLAPS

(***************************************************************************)
(* Both properties are about the log as well as an inbox, so the invariant *)
(* says what is in the log: the messages of a client in its order, each at *)
(* most once and, if it is remote, all that were settled.                  *)
(***************************************************************************)

Entry == [client: Clients, n: Nat]

FeedTypes ==
  /\ submitted \in [Clients -> Nat]
  /\ settled \in [Clients -> Nat]
  /\ log \in Seq(Entry)
  /\ joined \subseteq Clients
  /\ start \in [Clients -> Nat]
  /\ inbox \in [Clients -> Seq(Nat)]

LogInv ==
  /\ \A p \in DOMAIN log : log[p].n \in 1..settled[log[p].client]
  /\ \A p, q \in DOMAIN log :
       (log[p].client = log[q].client /\ p < q) => log[p].n < log[q].n
  /\ \A c \in Remote \cap Clients : \A n \in 1..settled[c] :
       \E p \in DOMAIN log : log[p] = [client |-> c, n |-> n]

\* A feed has come no further than the log, and before a client joins nowhere.
InboxInv ==
  \A c \in Clients :
    /\ start[c] <= Len(log)
    /\ \A i \in DOMAIN inbox[c] : inbox[c][i] \in (start[c] + 1)..Len(log)
    /\ c \notin joined => inbox[c] = <<>>

FeedInv == FeedTypes /\ LogInv /\ InboxInv /\ HandedExactly

-----------------------------------------------------------------------------
(* Where a feed has come to *)

\* The types in the form the steps need.
LEMMA TypesOf ==
  ASSUME FeedTypes, NEW c \in Clients
  PROVE  /\ submitted[c] \in Nat /\ settled[c] \in Nat /\ start[c] \in Nat
         /\ inbox[c] \in Seq(Nat) /\ Len(inbox[c]) \in Nat /\ DOMAIN inbox[c] = 1..Len(inbox[c])
         /\ Len(log) \in Nat /\ DOMAIN log = 1..Len(log)
         /\ \A p \in DOMAIN log : log[p] \in Entry /\ log[p].client \in Clients /\ log[p].n \in Nat
<1>1. \A p \in DOMAIN log : log[p] \in Entry BY DEF FeedTypes
<1>2. \A e \in Entry : e.client \in Clients /\ e.n \in Nat BY DEF Entry
<1> QED BY <1>1, <1>2 DEF FeedTypes

\* A feed is between its start and the end of the log, its last message being
\* where it has come to.
LEMMA ReachedInLog ==
  ASSUME FeedTypes, InboxInv, NEW c \in Clients
  PROVE  Reached(c) \in start[c]..Len(log)
<1>1. CASE inbox[c] = <<>> BY <1>1, TypesOf DEF InboxInv, Reached
<1>2. CASE inbox[c] # <<>>
  <2>1. Len(inbox[c]) \in DOMAIN inbox[c] BY <1>2, TypesOf
  <2>2. inbox[c][Len(inbox[c])] \in (start[c] + 1)..Len(log) BY <2>1 DEF InboxInv
  <2> QED BY <1>2, <2>2, TypesOf DEF Reached
<1> QED BY <1>1, <1>2

\* Whose inbox and start stay has the same feed in a log that only grew.
SameFeed(c) == inbox'[c] = inbox[c] /\ start'[c] = start[c]
LogGrows ==
  /\ Len(log) <= Len(log')
  /\ \A p \in DOMAIN log : log'[p] = log[p]

ExactFor(c) ==
  /\ \A i, j \in DOMAIN inbox[c] : i < j => inbox[c][i] < inbox[c][j]
  /\ {inbox[c][i] : i \in DOMAIN inbox[c]}
       = {p \in (start[c] + 1)..Reached(c) : log[p].client # c}

LEMMA ExactIsForAll == HandedExactly <=> \A c \in Clients : ExactFor(c)
BY DEF HandedExactly, ExactFor

LEMMA SameFeedExact ==
  ASSUME FeedTypes, InboxInv, NEW c \in Clients, SameFeed(c), LogGrows, ExactFor(c)
  PROVE  ExactFor(c)'
<1>1. Reached(c)' = Reached(c) BY DEF SameFeed, Reached
<1>2. \A p \in (start[c] + 1)..Reached(c) : p \in DOMAIN log
  BY ReachedInLog, TypesOf
<1>3. \A p \in (start[c] + 1)..Reached(c) : log'[p] = log[p] BY <1>2 DEF LogGrows
<1>4. {p \in (start[c] + 1)..Reached(c) : log'[p].client # c}
        = {p \in (start[c] + 1)..Reached(c) : log[p].client # c}
  BY <1>3
<1> QED BY <1>1, <1>4 DEF SameFeed, ExactFor

-----------------------------------------------------------------------------
(* The steps *)

LEMMA InitFeed == Init => FeedInv
<1> SUFFICES ASSUME Init PROVE FeedInv
  OBVIOUS
<1>1. FeedTypes BY DEF Init, FeedTypes
<1>2. /\ Len(log) = 0 /\ DOMAIN log = {} /\ Clients \cap joined = Clients \ Remote
      /\ \A c \in Clients : /\ inbox[c] = <<>> /\ DOMAIN inbox[c] = {}
                            /\ start[c] = 0 /\ settled[c] = 0 /\ (start[c] + 1)..start[c] = {}
  BY DEF Init
<1>3. LogInv BY <1>2 DEF LogInv
<1>4. InboxInv
  <2>1. \A c \in Clients : start[c] = 0 /\ Len(log) = 0 BY <1>2
  <2>2. \A c \in Clients : start[c] <= Len(log) BY <2>1, 0 <= 0
  <2> QED BY <1>2, <2>2 DEF InboxInv
<1>5. HandedExactly BY <1>2 DEF HandedExactly, Reached
<1> QED BY <1>1, <1>3, <1>4, <1>5 DEF FeedInv

\* A client joins: its feed begins where it is.
LEMMA JoinStep ==
  ASSUME FeedInv, NEW c \in Clients, Join(c)
  PROVE  FeedInv'
<1> USE DEF FeedInv
<1>1. PICK s \in 0..Len(log) : start' = [start EXCEPT ![c] = s] BY DEF Join
<1>2. /\ c \notin joined /\ joined' = joined \cup {c}
      /\ UNCHANGED <<submitted, settled, log, inbox>>
  BY DEF Join
<1>3. s \in Nat BY <1>1, TypesOf
<1>4. FeedTypes' BY <1>1, <1>2, <1>3 DEF FeedTypes
<1>5. LogInv' BY <1>2 DEF LogInv
<1>6. inbox[c] = <<>> /\ start'[c] = s BY <1>1, <1>2 DEF InboxInv, FeedTypes
<1>7. \A d \in Clients : d # c => start'[d] = start[d] BY <1>1 DEF FeedTypes
<1>8. InboxInv'
  <2>1. s <= Len(log) BY <1>1, TypesOf
  <2> QED BY <1>2, <1>6, <1>7, <2>1 DEF InboxInv
<1>9. HandedExactly'
  <2> SUFFICES ASSUME NEW d \in Clients PROVE ExactFor(d)'
    BY <1>2, ExactIsForAll DEF HandedExactly, ExactFor
  <2>1. CASE d = c
    <3>1. Reached(d)' = s /\ (start'[d] + 1)..Reached(d)' = {}
      BY <1>2, <1>3, <1>6, <2>1 DEF Reached
    <3> QED BY <1>2, <1>6, <2>1, <3>1 DEF ExactFor
  <2>2. CASE d # c
    <3>1. SameFeed(d) /\ LogGrows BY <1>2, <1>7, <2>2, TypesOf DEF SameFeed, LogGrows
    <3> QED BY <3>1, SameFeedExact, ExactIsForAll
  <2> QED BY <2>1, <2>2
<1> QED BY <1>4, <1>5, <1>8, <1>9

LEMMA SubmitStep ==
  ASSUME FeedInv, NEW c \in Clients, Submit(c)
  PROVE  FeedInv'
<1>1. /\ submitted' = [submitted EXCEPT ![c] = @ + 1]
      /\ UNCHANGED <<settled, log, joined, start, inbox>>
  BY DEF Submit
<1>2. FeedTypes' BY <1>1 DEF FeedInv, FeedTypes
<1>3. LogInv' /\ InboxInv' /\ HandedExactly'
  BY <1>1 DEF FeedInv, LogInv, InboxInv, HandedExactly, Reached
<1> QED BY <1>2, <1>3 DEF FeedInv

\* The broker settles a message: what is in the log is less than what is settled.
LEMMA KeepStep ==
  ASSUME FeedInv, NEW c \in Clients, Keep(c)
  PROVE  FeedInv'
<1> USE DEF FeedInv
<1>1. /\ c \notin Remote
      /\ settled' = [settled EXCEPT ![c] = @ + 1]
      /\ UNCHANGED <<submitted, log, joined, start, inbox>>
  BY DEF Keep
<1>2. FeedTypes' BY <1>1 DEF FeedTypes
<1>3. LogInv'
  <2>1. \A d \in Clients : /\ settled[d] \in Nat /\ settled'[d] \in Nat
                           /\ settled[d] <= settled'[d]
                           /\ d \in Remote => settled'[d] = settled[d]
    BY <1>1 DEF FeedTypes
  <2>2. \A p \in DOMAIN log : log[p].client \in Clients /\ log[p].n \in Nat
    BY TypesOf
  <2>3. \A p \in DOMAIN log : log[p].n \in 1..settled'[log[p].client]
    BY <2>1, <2>2 DEF LogInv
  <2> QED BY <1>1, <2>1, <2>3 DEF LogInv
<1>4. InboxInv' /\ HandedExactly' BY <1>1 DEF InboxInv, HandedExactly, Reached
<1> QED BY <1>2, <1>3, <1>4

LEMMA PublishStep ==
  ASSUME FeedInv, NEW c \in Clients, Publish(c)
  PROVE  FeedInv'
<1> USE DEF FeedInv
<1> DEFINE n == settled[c] + 1
           message == [client |-> c, n |-> n]
<1>1. /\ settled' = [settled EXCEPT ![c] = n]
      /\ log' = Append(log, message)
      /\ UNCHANGED <<submitted, joined, start, inbox>>
  BY DEF Publish
<1>2. n \in Nat /\ n \in 1..n /\ settled[c] \in Nat /\ message \in Entry BY TypesOf DEF Entry
<1>3. /\ log \in Seq(Entry) /\ log' \in Seq(Entry)
      /\ Len(log) \in Nat /\ Len(log') = Len(log) + 1
      /\ DOMAIN log = 1..Len(log) /\ DOMAIN log' = 1..(Len(log) + 1)
      /\ log'[Len(log) + 1] = message
      /\ \A p \in DOMAIN log : log'[p] = log[p]
  BY <1>1, <1>2 DEF FeedTypes
<1>4. /\ settled' \in [Clients -> Nat] /\ settled'[c] = n
      /\ \A d \in Clients : d # c => settled'[d] = settled[d]
      /\ \A d \in Clients : settled[d] \in Nat /\ settled'[d] \in Nat /\ settled[d] <= settled'[d]
  BY <1>1, <1>2 DEF FeedTypes
<1>5. message.client = c /\ message.n = n OBVIOUS
<1>6. \A p \in DOMAIN log :
        log[p].client \in Clients /\ log[p].n \in Nat /\ log[p].n \in 1..settled[log[p].client]
  BY TypesOf DEF LogInv
<1> HIDE DEF message
<1>7. \A p \in DOMAIN log' : p \in DOMAIN log \/ p = Len(log) + 1 BY <1>3
<1>8. FeedTypes' BY <1>1, <1>3, <1>4 DEF FeedTypes
<1>9. LogInv'
  <2>1. \A p \in DOMAIN log' : log'[p].n \in 1..settled'[log'[p].client]
    <3> SUFFICES ASSUME NEW p \in DOMAIN log' PROVE log'[p].n \in 1..settled'[log'[p].client]
      OBVIOUS
    <3>1. CASE p \in DOMAIN log BY <1>3, <1>4, <1>6, <3>1
    <3>2. CASE p = Len(log) + 1 BY <1>2, <1>3, <1>4, <1>5, <3>2
    <3> QED BY <1>7, <3>1, <3>2
  <2>2. \A p, q \in DOMAIN log' :
          (log'[p].client = log'[q].client /\ p < q) => log'[p].n < log'[q].n
    <3> SUFFICES ASSUME NEW p \in DOMAIN log', NEW q \in DOMAIN log',
                        log'[p].client = log'[q].client, p < q
                 PROVE  log'[p].n < log'[q].n
      OBVIOUS
    <3>1. p \in DOMAIN log BY <1>3
    <3>2. CASE q \in DOMAIN log BY <1>3, <3>1, <3>2 DEF LogInv
    <3>3. CASE q = Len(log) + 1
      <4>1. log[p].client = c /\ log'[q].n = n BY <1>3, <1>5, <3>1, <3>3
      <4>2. log[p].n \in 1..settled[c] BY <1>6, <3>1, <4>1
      <4> QED BY <1>2, <1>3, <3>1, <4>1, <4>2
    <3> QED BY <1>7, <3>2, <3>3
  <2>3. \A d \in Remote \cap Clients : \A m \in 1..settled'[d] :
          \E p \in DOMAIN log' : log'[p] = [client |-> d, n |-> m]
    <3> SUFFICES ASSUME NEW d \in Remote \cap Clients, NEW m \in 1..settled'[d]
                 PROVE  \E p \in DOMAIN log' : log'[p] = [client |-> d, n |-> m]
      OBVIOUS
    <3>1. CASE m \in 1..settled[d]
      <4>1. PICK p \in DOMAIN log : log[p] = [client |-> d, n |-> m] BY <3>1 DEF LogInv
      <4> QED BY <1>3, <4>1
    <3>2. CASE m \notin 1..settled[d]
      <4>1. d = c /\ m = n BY <1>2, <1>4, <3>2
      <4>2. Len(log) + 1 \in DOMAIN log' BY <1>3
      <4> QED BY <1>3, <4>1, <4>2 DEF message
    <3> QED BY <3>1, <3>2
  <2> QED BY <2>1, <2>2, <2>3 DEF LogInv
<1>10. InboxInv'
  <2> SUFFICES ASSUME NEW d \in Clients
               PROVE  /\ start[d] <= Len(log')
                      /\ \A i \in DOMAIN inbox[d] : inbox[d][i] \in (start[d] + 1)..Len(log')
                      /\ d \notin joined => inbox[d] = <<>>
    BY <1>1 DEF InboxInv
  <2>1. start[d] \in Nat BY TypesOf
  <2> QED BY <1>3, <2>1 DEF InboxInv
<1>11. HandedExactly'
  <2>1. \A d \in Clients : ExactFor(d)'
    <3>1. LogGrows BY <1>3 DEF LogGrows
    <3>2. \A d \in Clients : SameFeed(d) BY <1>1 DEF SameFeed
    <3> QED BY <3>1, <3>2, SameFeedExact, ExactIsForAll
  <2> QED BY <2>1 DEF HandedExactly, ExactFor
<1> QED BY <1>8, <1>9, <1>10, <1>11

\* A client is handed the next message of another one.
LEMMA DeliverStep ==
  ASSUME FeedInv, NEW c \in Clients, Deliver(c)
  PROVE  FeedInv'
<1> USE DEF FeedInv
<1> DEFINE reached == Reached(c)
           last == Len(inbox[c])
<1>1. PICK p \in (reached + 1)..Len(log) :
        /\ log[p].client # c
        /\ \A q \in (reached + 1)..(p - 1) : log[q].client = c
        /\ inbox' = [inbox EXCEPT ![c] = Append(@, p)]
  BY DEF Deliver
<1>2. c \in joined /\ UNCHANGED <<submitted, settled, log, joined, start>> BY DEF Deliver
<1>3. reached \in start[c]..Len(log) BY ReachedInLog
<1>4. /\ start[c] \in Nat /\ Len(log) \in Nat /\ reached \in Nat
      /\ last \in Nat /\ inbox[c] \in Seq(Nat) /\ DOMAIN inbox[c] = 1..last
  BY <1>3, TypesOf
<1>5. p \in Nat /\ p \in (start[c] + 1)..Len(log) /\ reached < p BY <1>3, <1>4
<1>6. /\ inbox' \in [Clients -> Seq(Nat)] /\ inbox'[c] = Append(inbox[c], p)
      /\ \A d \in Clients : d # c => inbox'[d] = inbox[d]
  BY <1>1, <1>4, <1>5 DEF FeedTypes
<1>7. /\ DOMAIN inbox'[c] = 1..(last + 1) /\ inbox'[c][last + 1] = p
      /\ Len(inbox'[c]) = last + 1 /\ inbox'[c] # <<>>
      /\ \A i \in 1..last : inbox'[c][i] = inbox[c][i]
  BY <1>4, <1>5, <1>6
<1> HIDE DEF reached, last
<1>8. FeedTypes' /\ LogInv' BY <1>2, <1>6 DEF FeedTypes, LogInv
<1>9. InboxInv'
  <2> SUFFICES ASSUME NEW d \in Clients
               PROVE  /\ start[d] <= Len(log)
                      /\ \A i \in DOMAIN inbox'[d] : inbox'[d][i] \in (start[d] + 1)..Len(log)
                      /\ d \notin joined => inbox'[d] = <<>>
    BY <1>2 DEF InboxInv
  <2>1. CASE d = c
    <3>1. \A i \in 1..last : inbox[c][i] \in (start[c] + 1)..Len(log) BY <1>4 DEF InboxInv
    <3>2. \A i \in 1..(last + 1) : i \in 1..last \/ i = last + 1 BY <1>4
    <3> QED BY <1>2, <1>5, <1>7, <2>1, <3>1, <3>2 DEF InboxInv
  <2>2. CASE d # c BY <1>6, <2>2 DEF InboxInv
  <2> QED BY <2>1, <2>2
<1>10. ExactFor(c)'
  <2>1. Reached(c)' = p BY <1>7 DEF Reached
  <2>2. {inbox[c][i] : i \in 1..last} = {q \in (start[c] + 1)..reached : log[q].client # c}
    BY <1>4, ExactIsForAll DEF ExactFor, reached
  <2>3. \A i, j \in 1..last : i < j => inbox[c][i] < inbox[c][j]
    BY <1>4, ExactIsForAll DEF ExactFor
  <2>4. \A i \in 1..last : inbox[c][i] \in Nat /\ inbox[c][i] <= reached
    <3> SUFFICES ASSUME NEW i \in 1..last
                 PROVE  inbox[c][i] \in Nat /\ inbox[c][i] <= reached
      OBVIOUS
    <3>1. inbox[c][i] \in (start[c] + 1)..reached BY <2>2
    <3> QED BY <1>4, <3>1
  <2>5. \A i, j \in DOMAIN inbox'[c] : i < j => inbox'[c][i] < inbox'[c][j]
    <3> SUFFICES ASSUME NEW i \in 1..(last + 1), NEW j \in 1..(last + 1), i < j
                 PROVE  inbox'[c][i] < inbox'[c][j]
      BY <1>7
    <3>1. i \in 1..last BY <1>4
    <3>2. CASE j \in 1..last BY <1>7, <2>3, <3>1, <3>2
    <3>3. CASE j = last + 1
      <4>1. inbox'[c][j] = p /\ inbox'[c][i] = inbox[c][i] BY <1>7, <3>1, <3>3
      <4>2. inbox[c][i] \in Nat /\ inbox[c][i] <= reached BY <2>4, <3>1
      <4> QED BY <1>4, <1>5, <4>1, <4>2
    <3> QED BY <1>4, <3>2, <3>3
  <2>6. {inbox'[c][i] : i \in DOMAIN inbox'[c]} = {inbox[c][i] : i \in 1..last} \cup {p}
    <3>1. \A i \in 1..(last + 1) : i \in 1..last \/ i = last + 1 BY <1>4
    <3>2. last + 1 \in 1..(last + 1) /\ \A i \in 1..last : i \in 1..(last + 1) BY <1>4
    <3> QED BY <1>7, <3>1, <3>2
  <2>7. {q \in (start[c] + 1)..p : log[q].client # c}
          = {q \in (start[c] + 1)..reached : log[q].client # c} \cup {p}
    <3>1. ASSUME NEW q \in (start[c] + 1)..p, log[q].client # c
          PROVE  q \in (start[c] + 1)..reached \/ q = p
      <4>1. q \in (start[c] + 1)..reached \/ q \in (reached + 1)..(p - 1) \/ q = p
        BY <1>3, <1>4, <1>5
      <4> QED BY <1>1, <3>1, <4>1 DEF reached
    <3>2. \A q \in (start[c] + 1)..reached : q \in (start[c] + 1)..p BY <1>3, <1>4, <1>5
    <3>3. p \in (start[c] + 1)..p BY <1>4, <1>5
    <3> QED BY <1>1, <3>1, <3>2, <3>3
  <2> QED BY <1>2, <2>1, <2>2, <2>5, <2>6, <2>7 DEF ExactFor
<1>11. HandedExactly'
  <2>1. \A d \in Clients : d # c => ExactFor(d)'
    <3>1. LogGrows BY <1>2, <1>4 DEF LogGrows
    <3>2. \A d \in Clients : d # c => SameFeed(d) BY <1>2, <1>6 DEF SameFeed
    <3> QED BY <3>1, <3>2, SameFeedExact, ExactIsForAll
  <2> QED BY <1>10, <2>1 DEF HandedExactly, ExactFor
<1> QED BY <1>8, <1>9, <1>11

LEMMA NextFeed == FeedInv /\ [Next]_vars => FeedInv'
<1> SUFFICES ASSUME FeedInv, [Next]_vars PROVE FeedInv'
  OBVIOUS
<1>1. CASE Next BY <1>1, JoinStep, SubmitStep, PublishStep, KeepStep, DeliverStep DEF Next
<1>2. CASE UNCHANGED vars
  BY <1>2 DEF vars, FeedInv, FeedTypes, LogInv, InboxInv, HandedExactly, Reached
<1> QED BY <1>1, <1>2

-----------------------------------------------------------------------------
(* The theorems *)

THEOREM FeedInvariant == Spec => []FeedInv
<1> QED BY InitFeed, NextFeed, PTL DEF Spec

\* A client is handed all messages of others from its start on, in log order.
THEOREM HandedExactlyAlways == Spec => []HandedExactly
<1>1. FeedInv => HandedExactly BY DEF FeedInv
<1> QED BY <1>1, FeedInvariant, PTL

\* The messages of a remote client reach each other one in the order they were
\* submitted, none left out and none twice.
THEOREM InputsInOrderAlways == Spec => []InputsInOrder
<1>1. FeedInv => InputsInOrder
  <2> SUFFICES ASSUME FeedInv, NEW c \in Clients, NEW i \in DOMAIN inbox[c],
                      log[inbox[c][i]].client \in Remote
               PROVE  LET message == log[inbox[c][i]]
                          before == [message EXCEPT !.n = @ - 1]
                      IN  /\ \/ message.n = 1
                             \/ \E p \in 1..start[c] : log[p] = before
                             \/ \E j \in 1..(i - 1) : log[inbox[c][j]] = before
                          /\ \A j \in DOMAIN inbox[c] \ {i} : log[inbox[c][j]] # message
    BY DEF InputsInOrder
  <2> DEFINE p == inbox[c][i]
             r == log[p].client
             n == log[p].n
             before == [log[p] EXCEPT !.n = @ - 1]
  <2>1. /\ inbox[c] \in Seq(Nat) /\ DOMAIN inbox[c] = 1..Len(inbox[c]) /\ Len(inbox[c]) \in Nat
        /\ start[c] \in Nat /\ DOMAIN log = 1..Len(log) /\ Len(log) \in Nat
    BY TypesOf DEF FeedInv
  <2>2. \A j \in DOMAIN inbox[c] : inbox[c][j] \in DOMAIN log /\ inbox[c][j] \in Nat
    BY <2>1 DEF FeedInv, InboxInv
  <2>3. ExactFor(c) BY ExactIsForAll DEF FeedInv
  <2>4. p \in DOMAIN log /\ log[p] \in Entry /\ log[p] = [client |-> r, n |-> n]
        /\ r \in Remote \cap Clients /\ n \in 1..settled[r] /\ settled[r] \in Nat
    <3>1. p \in DOMAIN log BY <2>2
    <3>2. log[p] \in Entry BY <3>1 DEF FeedInv, FeedTypes
    <3>3. r \in Clients /\ log[p] = [client |-> r, n |-> n] BY <3>2 DEF Entry
    <3> QED BY <3>1, <3>2, <3>3 DEF FeedInv, LogInv, FeedTypes
  <2>5. before = [client |-> r, n |-> n - 1] BY <2>4
  <2> HIDE DEF r, n, before
  <2>6. ASSUME n # 1
        PROVE  \/ \E q \in 1..start[c] : log[q] = before
               \/ \E j \in 1..(i - 1) : log[inbox[c][j]] = before
    <3>1. n - 1 \in 1..settled[r] BY <2>4, <2>6
    <3>2. PICK q \in DOMAIN log : log[q] = before BY <2>4, <2>5, <3>1 DEF FeedInv, LogInv
    <3>3. log[q].client = r /\ log[q].n = n - 1 /\ log[p].client = r /\ log[p].n = n
      BY <2>5, <3>2 DEF r, n
    <3>4. q < p
      <4>1. q \in Nat /\ p \in Nat /\ n \in Nat BY <2>1, <2>4
      <4>2. ~(p < q) BY <2>4, <3>3, <4>1 DEF FeedInv, LogInv
      <4>3. p # q BY <3>3, <4>1
      <4> QED BY <4>1, <4>2, <4>3
    <3>5. CASE q <= start[c] BY <2>1, <3>2, <3>5
    <3>6. CASE ~(q <= start[c])
      <4>1. p \in (start[c] + 1)..Reached(c) /\ log[p].client # c BY <2>3 DEF ExactFor
      <4>2. q \in (start[c] + 1)..Reached(c)
        <5>1. Reached(c) \in start[c]..Len(log) BY ReachedInLog DEF FeedInv
        <5> QED BY <2>1, <3>4, <3>6, <4>1, <5>1
      <4>3. log[q].client # c BY <3>3, <4>1
      <4>4. PICK j \in DOMAIN inbox[c] : inbox[c][j] = q BY <2>3, <4>2, <4>3 DEF ExactFor
      <4>5. j < i
        <5>1. ~(i < j) BY <2>2, <2>3, <3>4, <4>4 DEF ExactFor
        <5>2. i # j BY <2>2, <3>4, <4>4
        <5> QED BY <2>1, <5>1, <5>2
      <4> QED BY <2>1, <3>2, <4>4, <4>5
    <3> QED BY <3>5, <3>6
  <2>7. ASSUME NEW j \in DOMAIN inbox[c] \ {i} PROVE log[inbox[c][j]] # log[p]
    <3>1. inbox[c][j] # p
      <4>1. i < j \/ j < i BY <2>1
      <4> QED BY <2>2, <2>3, <4>1 DEF ExactFor
    <3>2. inbox[c][j] < p \/ p < inbox[c][j] BY <2>2, <3>1
    <3>3. inbox[c][j] \in DOMAIN log BY <2>2
    <3>4. SUFFICES ASSUME log[inbox[c][j]] = log[p] PROVE FALSE
      OBVIOUS
    <3>5. ~(log[p].n < log[p].n) BY <2>4, TypesOf DEF FeedInv
    <3> QED BY <2>4, <3>2, <3>3, <3>4, <3>5 DEF FeedInv, LogInv
  <2> QED BY <2>6, <2>7 DEF n, before
<1> QED BY <1>1, FeedInvariant, PTL
=============================================================================
