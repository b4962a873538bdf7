------------------------------ MODULE TxRelay ------------------------------
(* How loose transactions reach the node: peers announce them, AskFor queues *)
(* a request per peer, spaced over all peers by mapAlreadyAskedFor, and      *)
(* SendMessages sends the requests that are due; the "tx" handler puts a     *)
(* transaction into the pool, or among the orphans until its inputs exist.   *)
(*                                                                           *)
(* A transaction has one output.  Times are relative to now, in units of     *)
(* Tick; what lies further back than Retry makes no difference.  Blocks are  *)
(* announced and requested by BlockDownload; a block that confirms a         *)
(* transaction is an action here, and the chain only grows.                  *)
EXTENDS Integers, Sequences, FiniteSets, Functions

CONSTANTS
    Peer, Tx,
    Inputs,             \* the transactions whose outputs a transaction spends
    InitialChain,       \* transactions of the chain at the start
    Unfit,              \* refused once its inputs are found (fees, scripts)
    Big,                \* too big to be kept as an orphan
    Honest,             \* peers that answer a getdata with the transaction
    Announced,          \* the transactions of inv messages
    Pushers,            \* peers that send transactions nobody asked for
    Retry,              \* "Each retry is 2 minutes after the last"
    MaxAskFor,          \* MAPASKFOR_MAX_SZ
    MaxAlreadyAsked,    \* size of the limitedmap mapAlreadyAskedFor
    MaxOrphans,         \* MAX_ORPHAN_TRANSACTIONS
    MaxWait             \* bound: how far ahead a request may be scheduled

ASSUME TxRelayAssumption ==
    /\ Inputs \in [Tx -> SUBSET Tx]
    /\ InitialChain \subseteq Tx
    /\ \A t \in InitialChain : Inputs[t] \subseteq InitialChain
    /\ Unfit \subseteq Tx /\ Big \subseteq Tx /\ Announced \subseteq Tx /\ Honest \subseteq Peer
    /\ Pushers \subseteq Peer
    /\ {MaxAskFor, MaxOrphans, MaxWait} \subseteq Nat
    /\ Retry \in Nat \ {0} /\ MaxAlreadyAsked \in Nat \ {0, 1}

VARIABLES
    pool,               \* mempool.mapTx
    chain,              \* transactions in the transaction index
    mapOrphanTransactions,
    mapOrphanTransactionsByPrev,    \* transaction -> orphans that spend it
    setAskFor,          \* peer -> transactions asked or to be asked
    mapAskFor,          \* peer -> requests by time
    mapAlreadyAskedFor, \* transaction -> time of the last request scheduled
    asked               \* peer -> getdata it has not answered: at the peer

txVars == <<pool, chain, mapOrphanTransactions, mapOrphanTransactionsByPrev>>
askVars == <<setAskFor, mapAskFor, mapAlreadyAskedFor, asked>>
vars == <<txVars, askVars>>

Request == [inv : Tx, wait : 0..MaxWait]

TypeOK ==
    /\ pool \subseteq Tx /\ chain \subseteq Tx
    /\ mapOrphanTransactions \subseteq Tx
    /\ DOMAIN mapOrphanTransactionsByPrev \subseteq Tx
    /\ \A h \in DOMAIN mapOrphanTransactionsByPrev :
           mapOrphanTransactionsByPrev[h] \subseteq Tx
    /\ setAskFor \in [Peer -> SUBSET Tx]
    /\ mapAskFor \in [Peer -> Seq(Request)]
    /\ \A p \in Peer : Len(mapAskFor[p]) <= MaxAskFor + 1
    /\ DOMAIN mapAlreadyAskedFor \subseteq Tx
    /\ Cardinality(DOMAIN mapAlreadyAskedFor) < MaxAlreadyAsked
    /\ \A t \in DOMAIN mapAlreadyAskedFor : mapAlreadyAskedFor[t] \in -Retry..MaxWait
    /\ asked \in [Peer -> SUBSET Tx]

Init ==
    /\ pool = {} /\ chain = InitialChain
    /\ mapOrphanTransactions = {}
    /\ mapOrphanTransactionsByPrev = <<>>
    /\ setAskFor = [p \in Peer |-> {}] /\ mapAskFor = [p \in Peer |-> <<>>]
    /\ mapAlreadyAskedFor = <<>>
    /\ asked = [p \in Peer |-> {}]

AlreadyHave(t) == t \in pool \cup mapOrphanTransactions \cup chain
Without(f, x) == Restrict(f, DOMAIN f \ {x})
With(f, x, v) == [y \in DOMAIN f \cup {x} |-> IF y = x THEN v ELSE f[y]]
Larger(x, y) == IF x > y THEN x ELSE y

-----------------------------------------------------------------------------
(* Announcements and requests                                                *)

Lowest(f) == {x \in DOMAIN f : \A y \in DOMAIN f : f[x] <= f[y]}

\* Mutant: the map is full one entry later.
Inserted_Late(f, t, time) ==
    IF Cardinality(DOMAIN f) = MaxAlreadyAsked
    THEN {With(Without(f, x), t, time) : x \in DOMAIN f}
    ELSE {With(f, t, time)}

\* limitedmap::insert: a full map first loses the entry of the lowest value.
Inserted(f, t, time) ==
    IF Cardinality(DOMAIN f) + 1 = MaxAlreadyAsked
    THEN {With(Without(f, x), t, time) : x \in Lowest(f)}
    ELSE {With(f, t, time)}

\* nRequestTime for the next request of t: now, or Retry after the last.  What
\* Tick keeps of the last is never further back than Retry, hence the maximum.
RequestTime(t) ==
    IF t \in DOMAIN mapAlreadyAskedFor THEN mapAlreadyAskedFor[t] + Retry ELSE 0

\* How many requests of a queue, which is ordered by time, are due by then.
UpTo(queue, time) ==
    CHOOSE n \in 0..Len(queue) :
        \A i \in 1..Len(queue) : i <= n <=> queue[i].wait <= time

\* mapAskFor.insert: after the requests of the same time.
Scheduled(queue, t, time) ==
    LET n == UpTo(queue, time)
    IN  SubSeq(queue, 1, n) \o <<[inv |-> t, wait |-> time]>>
            \o SubSeq(queue, n + 1, Len(queue))

\* Mutant: a transaction another peer was asked for is not asked again.
AskFor_Once(p, t) ==
    /\ Len(mapAskFor[p]) <= MaxAskFor
    /\ t \notin setAskFor[p]
    /\ setAskFor' = [setAskFor EXCEPT ![p] = @ \cup {t}]
    /\ IF t \in DOMAIN mapAlreadyAskedFor
       THEN UNCHANGED <<mapAskFor, mapAlreadyAskedFor>>
       ELSE /\ mapAskFor' = [mapAskFor EXCEPT ![p] = Scheduled(@, t, 0)]
            /\ mapAlreadyAskedFor' \in Inserted(mapAlreadyAskedFor, t, 0)

\* Mutant: setAskFor is filled before the queue is found full.
AskFor_Order(p, t) ==
    /\ t \notin setAskFor[p]
    /\ RequestTime(t) <= MaxWait
    /\ setAskFor' = [setAskFor EXCEPT ![p] = @ \cup {t}]
    /\ IF Len(mapAskFor[p]) > MaxAskFor
       THEN UNCHANGED <<mapAskFor, mapAlreadyAskedFor>>
       ELSE /\ mapAskFor' = [mapAskFor EXCEPT ![p] = Scheduled(@, t, RequestTime(t))]
            /\ mapAlreadyAskedFor' \in Inserted(mapAlreadyAskedFor, t, RequestTime(t))

\* AskFor, where it does not return early.
AskFor(p, t) ==
    /\ Len(mapAskFor[p]) <= MaxAskFor
    /\ t \notin setAskFor[p]
    /\ RequestTime(t) <= MaxWait
    /\ setAskFor' = [setAskFor EXCEPT ![p] = @ \cup {t}]
    /\ mapAskFor' = [mapAskFor EXCEPT ![p] = Scheduled(@, t, RequestTime(t))]
    /\ IF t \in DOMAIN mapAlreadyAskedFor
       THEN mapAlreadyAskedFor' = [mapAlreadyAskedFor EXCEPT ![t] = RequestTime(t)]
       ELSE mapAlreadyAskedFor' \in Inserted(mapAlreadyAskedFor, t, RequestTime(t))

\* The "inv" handler for a transaction.
HandleInv(p, t) ==
    /\ t \in Announced /\ ~ AlreadyHave(t)
    /\ AskFor(p, t)
    /\ UNCHANGED <<txVars, asked>>

Due(p) == {r.inv : r \in {q \in Range(mapAskFor[p]) : q.wait = 0}}

\* SendMessages, getdata of non-blocks: the requests that are due.
SendGetData(p) ==
    /\ Due(p) # {}
    /\ asked' = [asked EXCEPT ![p] = @ \cup {t \in Due(p) : ~ AlreadyHave(t)}]
    /\ setAskFor' = [setAskFor EXCEPT ![p] = @ \ {t \in Due(p) : AlreadyHave(t)}]
    /\ mapAskFor' = [mapAskFor EXCEPT ![p] =
                        SubSeq(@, UpTo(@, 0) + 1, Len(@))]
    /\ UNCHANGED <<txVars, mapAlreadyAskedFor>>

\* Time passes.
Tick ==
    /\ mapAskFor' = [p \in Peer |-> [i \in 1..Len(mapAskFor[p]) |->
           [mapAskFor[p][i] EXCEPT !.wait = Larger(@ - 1, 0)]]]
    /\ mapAlreadyAskedFor' = [t \in DOMAIN mapAlreadyAskedFor |->
           Larger(mapAlreadyAskedFor[t] - 1, -Retry)]
    /\ UNCHANGED <<txVars, setAskFor, asked>>

-----------------------------------------------------------------------------
(* The "tx" handler                                                          *)

\* An input that no transaction of the transaction index has; the pool is not
\* looked at.
MissingInputs(t) == ~ Inputs[t] \subseteq chain

Conflicts(t, txs) == \E u \in txs \ {t} : Inputs[u] \cap Inputs[t] # {}

\* AcceptToMemoryPool: what it returns, and *pfMissingInputs.
Verdict(t, txs) ==
    IF t \in txs \cup chain \/ Conflicts(t, txs) THEN "refused"
    ELSE IF MissingInputs(t) THEN "missing"
    ELSE IF t \in Unfit \/ Conflicts(t, chain) THEN "refused"
    ELSE "accepted"

-----------------------------------------------------------------------------
(* The orphans                                                               *)

AddOrphanTx(byPrev, t) ==
    [h \in DOMAIN byPrev \cup Inputs[t] |->
        (IF h \in DOMAIN byPrev THEN byPrev[h] ELSE {}) \cup
        (IF h \in Inputs[t] THEN {t} ELSE {})]

\* Mutant: an orphan stays listed under all its inputs but one.
EraseOrphanTx_First(byPrev, gone) ==
    LET first == {CHOOSE i \in Inputs[o] : TRUE : o \in gone} IN
    [h \in {g \in DOMAIN byPrev : g \notin first \/ byPrev[g] \ gone # {}} |->
        IF h \in first THEN byPrev[h] \ gone ELSE byPrev[h]]

\* EraseOrphanTx of a set of orphans: no set of the table stays empty.
EraseOrphanTx(byPrev, gone) ==
    [h \in {g \in DOMAIN byPrev : byPrev[g] \ gone # {}} |-> byPrev[h] \ gone]

Dependents(S) == UNION {mapOrphanTransactionsByPrev[h] :
                            h \in S \cap DOMAIN mapOrphanTransactionsByPrev}

\* The walk over the orphans that depend on t: W is what it accepts, directly
\* or through each other, and it leaves nothing that could be accepted.
IsWalk(W, t) ==
    LET now == pool \cup {t} \cup W IN
    /\ W \subseteq Dependents({t} \cup W)
    /\ \A o \in W : Verdict(o, now \ {o}) = "accepted"
    /\ \A o \in Dependents({t} \cup W) \ W : Verdict(o, now) # "accepted"

\* Those the walk accepts, or refuses although no input is missing, are erased.
Processed(W, t) ==
    {o \in Dependents({t} \cup W) : Verdict(o, pool \cup {t} \cup W) # "missing"}

Accept(t) ==
    \E W \in SUBSET mapOrphanTransactions :
        /\ IsWalk(W, t)
        /\ pool' = pool \cup {t} \cup W
        /\ mapOrphanTransactions' = mapOrphanTransactions \ Processed(W, t)
        /\ mapOrphanTransactionsByPrev' =
               EraseOrphanTx(mapOrphanTransactionsByPrev, Processed(W, t))
        /\ UNCHANGED chain

\* LimitOrphanTxSize: random orphans go, the new one among them perhaps.
Evicted(orphans) ==
    {S \in SUBSET orphans :
        Cardinality(S) = Larger(Cardinality(orphans) - MaxOrphans, 0)}

\* AddOrphanTx, which ignores a big transaction, and LimitOrphanTxSize.
Hold(t) ==
    LET new == IF t \in Big THEN {} ELSE {t}
        held == mapOrphanTransactions \cup new
        byPrev == IF t \in Big THEN mapOrphanTransactionsByPrev
                  ELSE AddOrphanTx(mapOrphanTransactionsByPrev, t)
    IN \E gone \in Evicted(held) :
        /\ mapOrphanTransactions' = held \ gone
        /\ mapOrphanTransactionsByPrev' = EraseOrphanTx(byPrev, gone)
        /\ UNCHANGED <<pool, chain>>

\* The "tx" handler.  One the node has is dropped before anything is noted.
ReceiveKnown(p, t) ==
    /\ t \in asked[p] /\ AlreadyHave(t)
    /\ asked' = [asked EXCEPT ![p] = @ \ {t}]
    /\ UNCHANGED <<txVars, setAskFor, mapAskFor, mapAlreadyAskedFor>>

ReceiveTx(p, t) ==
    /\ ~ AlreadyHave(t)
    /\ asked' = [asked EXCEPT ![p] = @ \ {t}]
    /\ setAskFor' = [setAskFor EXCEPT ![p] = @ \ {t}]
    /\ mapAlreadyAskedFor' = Without(mapAlreadyAskedFor, t)
    /\ UNCHANGED mapAskFor
    /\ \/ Verdict(t, pool) = "accepted" /\ Accept(t)
       \/ Verdict(t, pool) = "missing" /\ Hold(t)
       \/ Verdict(t, pool) = "refused" /\ UNCHANGED txVars

\* A peer answers a getdata, or sends a transaction nobody asked for.
Answer(p, t) == t \in asked[p] /\ (ReceiveKnown(p, t) \/ ReceiveTx(p, t))
Unasked(p, t) == p \in Pushers /\ t \notin asked[p] /\ ReceiveTx(p, t)

\* A block that confirms t joins the best chain (SetBestChainInner).
Confirm(t) ==
    /\ t \notin chain /\ Inputs[t] \subseteq chain /\ ~ Conflicts(t, chain)
    /\ chain' = chain \cup {t} /\ pool' = pool \ {t}
    /\ UNCHANGED <<mapOrphanTransactions, mapOrphanTransactionsByPrev, askVars>>

\* The node of a peer is deleted; the peer may connect again.
Disconnect(p) ==
    /\ setAskFor' = [setAskFor EXCEPT ![p] = {}]
    /\ mapAskFor' = [mapAskFor EXCEPT ![p] = <<>>]
    /\ asked' = [asked EXCEPT ![p] = {}]
    /\ UNCHANGED <<txVars, mapAlreadyAskedFor>>

Next ==
    \/ \E p \in Peer, t \in Tx :
        HandleInv(p, t) \/ Answer(p, t) \/ Unasked(p, t)
    \/ \E p \in Peer : SendGetData(p) \/ Disconnect(p)
    \/ \E t \in Tx : Confirm(t)
    \/ Tick

Spec == Init /\ [][Next]_vars

\* The message thread serves every peer again and again, time passes, and
\* honest peers answer.  Nothing makes a peer announce, or a block come.
FairSpec ==
    /\ Spec
    /\ WF_vars(Tick)
    /\ \A p \in Peer : WF_vars(SendGetData(p))
    /\ \A p \in Honest, t \in Announced : WF_vars(Answer(p, t))

-----------------------------------------------------------------------------
\* mapOrphanTransactionsByPrev lists every orphan under each transaction it
\* spends and nothing else, after walks, evictions and erasures of orphans with
\* several inputs; no set of it is left empty.
OrphanMapsAgree ==
    mapOrphanTransactionsByPrev =
        [h \in UNION {Inputs[o] : o \in mapOrphanTransactions} |->
            {o \in mapOrphanTransactions : h \in Inputs[o]}]

\* "do not allow mapOrphanTransactions to grow unbounded" (main.cpp:3798).
OrphansBounded == Cardinality(mapOrphanTransactions) <= MaxOrphans

\* A transaction whose inputs are confirmed from the start, so that it never
\* was an orphan, and that nothing conflicts with.
Settled(t) ==
    /\ Inputs[t] \subseteq InitialChain /\ t \notin Unfit
    /\ ~ Conflicts(t, pool \cup chain)

Wanted(p, t) == t \in setAskFor[p] /\ Settled(t) /\ ~ AlreadyHave(t)

\* setAskFor keeps AskFor from queueing a second request, so what it holds and
\* the node lacks must be on its way: queued at the peer, or asked of it.
WantedIsPending ==
    \A p \in Peer, t \in Tx : Wanted(p, t) =>
        t \in asked[p] \/ \E r \in Range(mapAskFor[p]) : r.inv = t

\* A transaction announced by an honest peer is obtained in the end, also when
\* another peer was asked first and never answers, unless the peer leaves or a
\* conflicting transaction comes first.
AnnouncedIsObtained ==
    \A p \in Honest, t \in Announced : Wanted(p, t) ~> ~ Wanted(p, t)
=============================================================================
