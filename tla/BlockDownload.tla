--------------------------- MODULE BlockDownload ---------------------------
(* The block download scheduler of main.cpp: which peer each announced block *)
(* is queued at, which peer it is in flight from, and how a peer that        *)
(* misbehaves or stalls is dropped.                                          *)
(*                                                                           *)
(* Threads: the message handler (ReceiveMessage, then one Handle action per  *)
(* message, and SendMessages), the socket handler (SocketClosed,             *)
(* InactivityTimeout, FinalizeNode), the threads that open connections       *)
(* (InitializeNode) and the miner (LocalAccept).  Every handler runs under   *)
(* cs_main, but cs_main is released between the prologue of ProcessMessage   *)
(* and the branch for the command, so these are two actions.                 *)
(*                                                                           *)
(* Time.  GetTimeMicros() is the integer 0 at every moment and Tick makes    *)
(* every stored time stamp one unit (BLOCK_DOWNLOAD_TIMEOUT / Timeout) older.*)
(* A stamp older than Horizon is remembered as Horizon old.                  *)
EXTENDS Integers, Sequences, SequencesExt

CONSTANTS
    Peer,               \* node ids; nLastNodeId never hands one out twice
    LocalPeer,          \* peers whose address IsLocal()
    Kept,               \* nodes never deleted: addnode onetry (rpcnet.cpp:130),
                        \* or removed before fNetworkNode is set (net.cpp:1721)
    Shared,             \* nodes that ConnectNode handed out a second time: the
                        \* count of their references may be too low (net.cpp:404)
    Block,              \* block hashes
    NoPeer,             \* "no entry" in a map keyed by block hash
    MaxInTransit,       \* MAX_BLOCKS_IN_TRANSIT_PER_PEER
    QueueLimit,         \* 5000, the length from which queueing is misbehaviour
    QueuePenalty,       \* 10, what each further announcement costs
    BanScore,           \* -banscore
    DoS,                \* the values CheckBlock/AcceptBlock may give nDoS
    Timeout,            \* BLOCK_DOWNLOAD_TIMEOUT
    Horizon,            \* bound: age at which a stamp stops ageing
    MaxMisbehavior      \* bound: a score above it is remembered as it

ASSUME DownloadAssumption ==
    /\ LocalPeer \subseteq Peer
    /\ Kept \subseteq Peer
    /\ Shared \subseteq Peer
    /\ NoPeer \notin Peer
    /\ MaxInTransit \in Nat \ {0}
    /\ QueueLimit \in Nat
    /\ QueuePenalty \in Nat
    /\ BanScore \in Nat \ {0}
    /\ DoS \subseteq Nat
    /\ Timeout \in Nat \ {0}
    /\ Horizon \in Nat
    /\ Horizon > 2 * Timeout
    /\ MaxMisbehavior \in Nat
    /\ MaxMisbehavior >= BanScore

VARIABLES
    conn,               \* life of each CNode: "new", "up", "closing", "deleted"
    fVersion,           \* peers whose version message was handled
    turn,               \* where the message handler's loop over vNodes is
    banned,             \* peers whose address is in setBanned
    vBlocksToDownload, nBlocksToDownload,
    vBlocksInFlight, nBlocksInFlight,
    mapBlocksToDownload, mapBlocksInFlight,
    nTime,              \* QueuedBlock::nTime of the block's in-flight entry
    nLastBlockReceive, nLastBlockProcess,
    nMisbehavior, fShouldBan,
    have                \* blocks AlreadyHave() finds: block index and orphans

nodeVars  == <<conn, fVersion, turn, banned>>
queueVars == <<vBlocksToDownload, nBlocksToDownload, mapBlocksToDownload>>
inFlightVars == <<vBlocksInFlight, nBlocksInFlight, mapBlocksInFlight, nTime>>
stampVars == <<nLastBlockReceive, nLastBlockProcess>>
scoreVars == <<nMisbehavior, fShouldBan>>
vars == <<nodeVars, queueVars, inFlightVars, stampVars, scoreVars, have>>

Now == 0
Stamp == -Horizon .. Now
Idle == << >>
Turn == {Idle} \cup (Peer \X {"message", "send"})
Live(p) == conn[p] \in {"up", "closing"}       \* mapNodeState has an entry
fDisconnect(p) == conn[p] = "closing"
Position(s, b) == CHOOSE i \in DOMAIN s : s[i] = b

TypeOK ==
    /\ conn \in [Peer -> {"new", "up", "closing", "deleted"}]
    /\ fVersion \in [Peer -> BOOLEAN]
    /\ turn \in Turn
    /\ banned \subseteq Peer
    /\ vBlocksToDownload \in [Peer -> Seq(Block)]
    /\ vBlocksInFlight \in [Peer -> Seq(Block)]
    /\ nBlocksToDownload \in [Peer -> Int]
    /\ nBlocksInFlight \in [Peer -> Int]
    /\ mapBlocksToDownload \in [Block -> Peer \cup {NoPeer}]
    /\ mapBlocksInFlight \in [Block -> Peer \cup {NoPeer}]
    /\ nTime \in [Block -> Stamp]
    /\ nLastBlockReceive \in [Peer -> Stamp]
    /\ nLastBlockProcess \in [Peer -> Stamp]
    /\ nMisbehavior \in [Peer -> Nat]
    /\ fShouldBan \in [Peer -> BOOLEAN]
    /\ have \subseteq Block

Init ==
    /\ conn = [p \in Peer |-> "new"]
    /\ fVersion = [p \in Peer |-> FALSE]
    /\ turn = Idle
    /\ banned = {}
    /\ vBlocksToDownload = [p \in Peer |-> << >>]
    /\ vBlocksInFlight = [p \in Peer |-> << >>]
    /\ nBlocksToDownload = [p \in Peer |-> 0]
    /\ nBlocksInFlight = [p \in Peer |-> 0]
    /\ mapBlocksToDownload = [b \in Block |-> NoPeer]
    /\ mapBlocksInFlight = [b \in Block |-> NoPeer]
    /\ nTime = [b \in Block |-> -Horizon]
    /\ nLastBlockReceive = [p \in Peer |-> -Horizon]
    /\ nLastBlockProcess = [p \in Peer |-> -Horizon]
    /\ nMisbehavior = [p \in Peer |-> 0]
    /\ fShouldBan = [p \in Peer |-> FALSE]
    /\ have = {}

-----------------------------------------------------------------------------
(* Helpers of the handlers.                                                  *)

\* One list element leaves the list its map entry points into.
Erase_Hole(s, b) == [s EXCEPT ![Position(s, b)] = NoPeer]
Erase_Front(s, b) == Tail(s)
Erase(s, b) == RemoveAt(s, Position(s, b))

\* FinalizeNode's loops: the map entries of a dropped list are erased.
Released_Kept(map, s) == map
Released(map, s) ==
    [b \in Block |-> IF b \in ToSet(s) THEN NoPeer ELSE map[b]]

\* MarkBlockAsInFlight's insertion, for all the blocks of one request loop.
InFlightAfter_Front(s, asked) == asked \o s
InFlightAfter(s, asked) == s \o asked

MarkBlockAsReceived(b, from) ==
    /\ IF mapBlocksToDownload[b] = NoPeer
       THEN UNCHANGED queueVars
       ELSE LET p == mapBlocksToDownload[b] IN
            /\ vBlocksToDownload' =
                   [vBlocksToDownload EXCEPT ![p] = Erase(@, b)]
            /\ nBlocksToDownload' = [nBlocksToDownload EXCEPT ![p] = @ - 1]
            /\ mapBlocksToDownload' = [mapBlocksToDownload EXCEPT ![b] = NoPeer]
    /\ IF mapBlocksInFlight[b] = NoPeer
       THEN UNCHANGED <<inFlightVars, nLastBlockReceive>>
       ELSE LET p == mapBlocksInFlight[b] IN
            /\ vBlocksInFlight' = [vBlocksInFlight EXCEPT ![p] = Erase(@, b)]
            /\ nBlocksInFlight' = [nBlocksInFlight EXCEPT ![p] = @ - 1]
            /\ mapBlocksInFlight' = [mapBlocksInFlight EXCEPT ![b] = NoPeer]
            /\ nTime' = [nTime EXCEPT ![b] = -Horizon]
            /\ nLastBlockReceive' = IF p = from
                                    THEN [nLastBlockReceive EXCEPT ![p] = Now]
                                    ELSE nLastBlockReceive

Misbehaving_Above(p, howmuch) ==
    /\ nMisbehavior' = [nMisbehavior EXCEPT
                           ![p] = IF @ + howmuch > MaxMisbehavior
                                  THEN MaxMisbehavior ELSE @ + howmuch]
    /\ fShouldBan' = [fShouldBan EXCEPT
                         ![p] = @ \/ nMisbehavior[p] + howmuch > BanScore]
Misbehaving(p, howmuch) ==
    /\ nMisbehavior' = [nMisbehavior EXCEPT
                           ![p] = IF @ + howmuch > MaxMisbehavior
                                  THEN MaxMisbehavior ELSE @ + howmuch]
    /\ fShouldBan' = [fShouldBan EXCEPT
                         ![p] = @ \/ (howmuch > 0
                                      /\ nMisbehavior[p] + howmuch >= BanScore)]

Queue(p, b) ==
    /\ vBlocksToDownload' = [vBlocksToDownload EXCEPT ![p] = Append(@, b)]
    /\ nBlocksToDownload' = [nBlocksToDownload EXCEPT ![p] = @ + 1]
    /\ mapBlocksToDownload' = [mapBlocksToDownload EXCEPT ![b] = p]
    /\ Misbehaving(p, IF nBlocksToDownload[p] + 1 > QueueLimit
                      THEN QueuePenalty ELSE 0)

AddBlockToQueue(p, b) ==
    IF mapBlocksToDownload[b] # NoPeer \/ mapBlocksInFlight[b] # NoPeer
    THEN UNCHANGED <<queueVars, scoreVars>>
    ELSE Queue(p, b)

Stalls_Swapped(p) ==
    /\ nBlocksInFlight[p] > 0
    /\ nLastBlockProcess[p] < nLastBlockReceive[p] - Timeout
    /\ nTime[Head(vBlocksInFlight[p])] < nLastBlockProcess[p] - 2 * Timeout
Stalls(p) ==
    /\ nBlocksInFlight[p] > 0
    /\ nLastBlockReceive[p] < nLastBlockProcess[p] - Timeout
    /\ nTime[Head(vBlocksInFlight[p])] < nLastBlockProcess[p] - 2 * Timeout

\* The blocks the request loop takes from the front of the queue.
Requests_Full(p) ==
    LET n == IF nBlocksToDownload[p] < MaxInTransit
             THEN nBlocksToDownload[p] ELSE MaxInTransit
    IN  SubSeq(vBlocksToDownload[p], 1, n)
Requests(p) ==
    LET room == MaxInTransit - nBlocksInFlight[p]
        n == IF nBlocksToDownload[p] < room THEN nBlocksToDownload[p] ELSE room
    IN  SubSeq(vBlocksToDownload[p], 1, n)

-----------------------------------------------------------------------------
(* Connections.                                                              *)

InitializeNode(p) ==
    /\ conn[p] = "new"
    /\ conn' = [conn EXCEPT ![p] = "up"]
    /\ UNCHANGED <<fVersion, turn, banned, queueVars, inFlightVars, stampVars,
                   scoreVars, have>>

\* The peer, a socket error or another part of the node closes the connection.
SocketClosed(p) ==
    /\ conn[p] = "up"
    /\ conn' = [conn EXCEPT ![p] = "closing"]
    /\ UNCHANGED <<fVersion, turn, banned, queueVars, inFlightVars, stampVars,
                   scoreVars, have>>

\* The inactivity checks: nothing heard from the peer for too long.
InactivityTimeout(p) ==
    /\ nLastBlockProcess[p] = -Horizon
    /\ SocketClosed(p)

\* The message handler holds a reference to the node it is serving.
Referenced(p) == turn \in {<<p, "message">>, <<p, "send">>}

\* ~CNode, once the socket thread reads a count of zero: the node's state is
\* dropped.  The count of a node in Shared may be zero under the message
\* handler's feet, and the locks the socket thread tries are released again
\* before the delete (net.cpp:1005-1027).
FinalizeNode(p) ==
    /\ conn[p] = "closing"
    /\ p \notin Kept
    /\ ~Referenced(p) \/ p \in Shared
    /\ conn' = [conn EXCEPT ![p] = "deleted"]
    /\ mapBlocksInFlight' = Released(mapBlocksInFlight, vBlocksInFlight[p])
    /\ nTime' = [b \in Block |-> IF b \in ToSet(vBlocksInFlight[p])
                                 THEN -Horizon ELSE nTime[b]]
    /\ mapBlocksToDownload' =
           Released(mapBlocksToDownload, vBlocksToDownload[p])
    /\ vBlocksToDownload' = [vBlocksToDownload EXCEPT ![p] = << >>]
    /\ nBlocksToDownload' = [nBlocksToDownload EXCEPT ![p] = 0]
    /\ vBlocksInFlight' = [vBlocksInFlight EXCEPT ![p] = << >>]
    /\ nBlocksInFlight' = [nBlocksInFlight EXCEPT ![p] = 0]
    /\ nLastBlockReceive' = [nLastBlockReceive EXCEPT ![p] = -Horizon]
    /\ nLastBlockProcess' = [nLastBlockProcess EXCEPT ![p] = -Horizon]
    /\ nMisbehavior' = [nMisbehavior EXCEPT ![p] = 0]
    /\ fShouldBan' = [fShouldBan EXCEPT ![p] = FALSE]
    /\ UNCHANGED <<fVersion, turn, banned, have>>

-----------------------------------------------------------------------------
(* The message handler.                                                      *)

ReceiveMessage(p) ==
    /\ turn = Idle
    /\ conn[p] = "up"
    /\ turn' = <<p, "message">>
    /\ nLastBlockProcess' = [nLastBlockProcess EXCEPT ![p] = Now]
    /\ UNCHANGED <<conn, fVersion, banned, queueVars, inFlightVars,
                   nLastBlockReceive, scoreVars, have>>

\* A handler whose node was deleted under it uses freed memory: nothing more
\* is modelled of it.
HandlerLost == turn # Idle /\ ~Live(turn[1])

Handle(p) ==
    /\ turn = <<p, "message">>
    /\ Live(p)
    /\ turn' = <<p, "send">>

HandleVersion(p) ==
    /\ Handle(p)
    /\ ~fVersion[p]
    /\ fVersion' = [fVersion EXCEPT ![p] = TRUE]
    /\ UNCHANGED <<conn, banned, queueVars, inFlightVars, stampVars, scoreVars,
                   have>>

\* Every other command, malformed ones included: at most a penalty.
HandleOther(p, howmuch) ==
    /\ Handle(p)
    /\ Misbehaving(p, howmuch)
    /\ UNCHANGED <<conn, fVersion, banned, queueVars, inFlightVars, stampVars,
                   have>>

\* One entry of an inv; the entries of one message are handled in turn.
HandleInv(p, b) ==
    /\ Handle(p)
    /\ fVersion[p]
    /\ IF b \in have THEN UNCHANGED <<queueVars, scoreVars>>
       ELSE AddBlockToQueue(p, b)
    /\ UNCHANGED <<conn, fVersion, banned, inFlightVars, stampVars, have>>

\* ProcessBlock keeps the block (in the index or as an orphan) or refuses it,
\* and may drop orphans kept before: any block stands for an orphan here.
HandleBlock(p, b, kept, evicted, howmuch) ==
    /\ Handle(p)
    /\ fVersion[p]
    /\ MarkBlockAsReceived(b, p)
    /\ have' = (have \ evicted) \cup (IF kept THEN {b} ELSE {})
    /\ Misbehaving(p, howmuch)
    /\ UNCHANGED <<conn, fVersion, banned, nLastBlockProcess>>

SendMessages(p) ==
    LET ban == fShouldBan[p] /\ p \notin LocalPeer
        open == conn[p] = "up" /\ ~ban
        stalled == open /\ Stalls(p)
        asked == IF open /\ ~stalled THEN Requests(p) ELSE << >>
    IN
    /\ (turn = <<p, "send">> /\ Live(p)) \/ (turn = Idle /\ conn[p] = "up")
    /\ turn' = Idle
    /\ IF ~fVersion[p]
       THEN UNCHANGED <<conn, banned, queueVars, inFlightVars,
                        nLastBlockReceive, fShouldBan>>
       ELSE /\ fShouldBan' = [fShouldBan EXCEPT ![p] = FALSE]
            /\ banned' = IF ban THEN banned \cup {p} ELSE banned
            /\ conn' = IF ban \/ stalled THEN [conn EXCEPT ![p] = "closing"]
                       ELSE conn
            /\ vBlocksToDownload' = [vBlocksToDownload EXCEPT
                   ![p] = SubSeq(@, Len(asked) + 1, Len(@))]
            /\ nBlocksToDownload' =
                   [nBlocksToDownload EXCEPT ![p] = @ - Len(asked)]
            /\ mapBlocksToDownload' = Released(mapBlocksToDownload, asked)
            /\ vBlocksInFlight' =
                   [vBlocksInFlight EXCEPT ![p] = InFlightAfter(@, asked)]
            /\ nBlocksInFlight' = [nBlocksInFlight EXCEPT ![p] = @ + Len(asked)]
            /\ mapBlocksInFlight' = [b \in Block |->
                   IF b \in ToSet(asked) THEN p ELSE mapBlocksInFlight[b]]
            /\ nTime' = [b \in Block |->
                   IF b \in ToSet(asked) THEN Now ELSE nTime[b]]
            /\ nLastBlockReceive' =
                   IF asked # << >> /\ nBlocksInFlight[p] = 0
                   THEN [nLastBlockReceive EXCEPT ![p] = Now]
                   ELSE nLastBlockReceive
    /\ UNCHANGED <<fVersion, nLastBlockProcess, nMisbehavior, have>>

\* The handler does not wait for cs_vSend or cs_main: the turn passes.
SkipSendMessages(p) ==
    /\ turn = <<p, "send">>
    /\ Live(p)
    /\ turn' = Idle
    /\ UNCHANGED <<conn, fVersion, banned, queueVars, inFlightVars, stampVars,
                   scoreVars, have>>

-----------------------------------------------------------------------------
(* The rest of the node.                                                     *)

\* A mined block, or an orphan whose parent arrived: ProcessBlock runs without
\* MarkBlockAsReceived.
LocalAccept(b) ==
    /\ b \notin have
    /\ have' = have \cup {b}
    /\ UNCHANGED <<nodeVars, queueVars, inFlightVars, stampVars, scoreVars>>

Older(t) == IF t > -Horizon THEN t - 1 ELSE t

\* The message handler polls every peer each 100 ms and the socket handler each
\* 50 ms: a time unit does not pass over a stall or a silence they would act on.
Tick ==
    /\ \A p \in Peer : conn[p] = "up" /\ fVersion[p] => ~Stalls(p)
    /\ \A p \in Peer : conn[p] = "up" /\ nBlocksInFlight[p] > 0
                          => nLastBlockProcess[p] # -Horizon
    /\ nTime' = [b \in Block |-> Older(nTime[b])]
    /\ nLastBlockReceive' = [p \in Peer |-> Older(nLastBlockReceive[p])]
    /\ nLastBlockProcess' = [p \in Peer |-> Older(nLastBlockProcess[p])]
    /\ UNCHANGED <<nodeVars, queueVars, vBlocksInFlight, nBlocksInFlight,
                   mapBlocksInFlight, scoreVars, have>>

HandleMessage(p) ==
    \/ HandleVersion(p)
    \/ \E howmuch \in DoS : HandleOther(p, howmuch)
    \/ \E b \in Block : HandleInv(p, b)
    \/ \E b \in Block, kept \in BOOLEAN, evicted \in SUBSET have,
          howmuch \in DoS : HandleBlock(p, b, kept, evicted, howmuch)

Next ==
    \/ \E p \in Peer : \/ InitializeNode(p)
                       \/ SocketClosed(p)
                       \/ InactivityTimeout(p)
                       \/ FinalizeNode(p)
                       \/ ReceiveMessage(p)
                       \/ HandleMessage(p)
                       \/ SendMessages(p)
                       \/ SkipSendMessages(p)
    \/ \E b \in Block : LocalAccept(b)
    \/ Tick

Spec == Init /\ [][Next]_vars

-----------------------------------------------------------------------------
(* Safety.                                                                   *)

Occurs(s, b) == \E i \in DOMAIN s : s[i] = b
NoRepeat(s) == \A i, j \in DOMAIN s : s[i] = s[j] => i = j
ListsAgree(list, count, map) ==
    /\ \A p \in Peer : NoRepeat(list[p]) /\ count[p] = Len(list[p])
    /\ \A p \in Peer, b \in Block : Occurs(list[p], b) <=> map[b] = p

\* A block waits in one queue or is in flight once, never both
\* (AddBlockToQueue's test and MarkBlockAsInFlight's removal together).
OneAssignment ==
    \A b \in Block :
        mapBlocksToDownload[b] = NoPeer \/ mapBlocksInFlight[b] = NoPeer

\* The maps, the per-peer lists and the counters describe the same assignment:
\* every map entry points into a list of a peer that still exists, every list
\* element has its map entry, no block is held twice, and the counters that the
\* request loop and the stall test trust are the lengths of the lists.  A
\* broken entry is an iterator into a freed list (main.cpp:248-268).
QueuesAgree ==
    /\ ListsAgree(vBlocksToDownload, nBlocksToDownload, mapBlocksToDownload)
    /\ ListsAgree(vBlocksInFlight, nBlocksInFlight, mapBlocksInFlight)
    /\ OneAssignment

\* A map entry names a peer that FinalizeNode has not dropped yet.
NoDanglingPeer ==
    \A b \in Block :
        /\ mapBlocksToDownload[b] # NoPeer => Live(mapBlocksToDownload[b])
        /\ mapBlocksInFlight[b] # NoPeer => Live(mapBlocksInFlight[b])

\* No peer has more than MAX_BLOCKS_IN_TRANSIT_PER_PEER requests open, whatever
\* arrives, unsolicited or from another peer, in between.
TransitBound ==
    \A p \in Peer : Len(vBlocksInFlight[p]) <= MaxInTransit

\* The list is in request order, so its front, the only element the stall test
\* of SendMessages reads, is the oldest request.
FrontIsOldest ==
    \A p \in Peer : \A i, j \in DOMAIN vBlocksInFlight[p] :
        i < j => nTime[vBlocksInFlight[p][i]] <= nTime[vBlocksInFlight[p][j]]

-----------------------------------------------------------------------------
(* Liveness.                                                                 *)

\* ThreadMessageHandler visits every peer in turn and does not fail for ever to
\* lock cs_main, the socket handler frees disconnected peers (those it frees at
\* all: FinalizeNode is never enabled for Kept), and time passes.
Fairness ==
    /\ \A p \in Peer : /\ SF_vars(SendMessages(p))
                       /\ WF_vars(HandleMessage(p))
                       /\ WF_vars(FinalizeNode(p))
                       /\ WF_vars(InactivityTimeout(p))
    /\ WF_vars(Tick)

FairSpec == Spec /\ Fairness

InFlightFrom(p, b) == mapBlocksInFlight[b] = p
DeliversRequested(p) ==
    \E b \in Block : mapBlocksInFlight[b] = p /\ mapBlocksInFlight'[b] = NoPeer
                    /\ conn'[p] # "deleted"

\* A peer that stops delivering what it was asked for does not keep a block to
\* itself for ever, even if it keeps sending other messages: it is dropped, and
\* its blocks can be announced by another peer (main.cpp:4374-4381 and 235-246).
\* This is so for nodes that are deleted at all, and unless the message handler
\* loses the node it works on: what a node in Kept was asked for is released by
\* nobody.
StallResolved ==
    \A p \in Peer \ Kept, b \in Block :
        \/ <>HandlerLost
        \/ []<><<DeliversRequested(p)>>_vars
        \/ InFlightFrom(p, b) ~> ~InFlightFrom(p, b)

\* A remote peer whose score reaches the threshold is disconnected, also when
\* the turns of the loop that could act on it are skipped for want of a lock.
BanEnforced ==
    \A p \in Peer \ LocalPeer :
        \/ <>HandlerLost
        \/ nMisbehavior[p] >= BanScore /\ fVersion[p] ~> conn[p] # "up"
=============================================================================
