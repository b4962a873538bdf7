------------------------------ MODULE NetNode ------------------------------
(* The life of a CNode in net.cpp: the threads that open connections, the    *)
(* socket thread that accepts, serves, removes and deletes nodes, and the    *)
(* message thread that polls them and picks the node to sync from.  They     *)
(* share vNodes, the reference counts, the outbound semaphore and pnodeSync. *)
(*                                                                           *)
(* A node is the memory its CNode lives in, so a deleted one may be          *)
(* allocated again for another peer; until then freed memory holds what was  *)
(* written to it.  A step is what one critical section of cs_vNodes does, or *)
(* one unlocked access.  nRefCount is a plain int and ConnectNode increments *)
(* an existing node's count outside of cs_vNodes: the read and the write of  *)
(* that increment are two steps.  So are the test of a grant, the post, the  *)
(* reset and the assignment in MoveTo and Release, which nothing locks: the  *)
(* socket thread's Release meets the openers' MoveTo under cs_vNodes only.   *)
(*                                                                           *)
(* Left out: -connect's connections without a grant and ProcessOneShot,      *)
(* which both name their destination, and bans.                              *)
EXTENDS Integers, FiniteSets

CONSTANTS
    Nodes,              \* places a CNode may be allocated at
    NoNode,             \* the null pointer
    Addrs,              \* hosts, each with one service that accepts
    Openers,            \* threads that call OpenNetworkConnection
    OneTry,             \* whether the RPC thread may run addnode onetry
    MaxOutbound,        \* the semaphore's initial value
    MaxInbound,         \* nMaxConnections - MAX_OUTBOUND_CONNECTIONS
    MaxHanded           \* bound: ConnectNode hands out no more nodes it finds
                        \* than these, and no call is begun after the last

ASSUME NetAssumption ==
    /\ NoNode \notin Nodes
    /\ Addrs # {}
    /\ OneTry \in BOOLEAN
    /\ MaxOutbound \in Nat
    /\ MaxInbound \in Nat
    /\ MaxHanded \in Nat

VARIABLES
    vNodes, vNodesDisconnected,
    alive,              \* the nodes that are allocated
    node,               \* what the memory of each node holds; hSocket is
                        \* whether its socket is open
    semOutbound,        \* the semaphore's value
    opener,             \* each opener's place, address, node and count read
    handed,             \* history: how often ConnectNode has found a node
                        \* that was connected already, and handed it out
    socket,             \* the socket thread: its place, vNodesCopy, what is
                        \* left of it to test, and the node being removed
    poll,               \* the message thread: its place, vNodesCopy, what is
                        \* left to poll, and StartSync's choice
    pnodeSync

threads == <<opener, socket, poll>>
vars == <<vNodes, vNodesDisconnected, alive, node, semOutbound, handed, threads, pnodeSync>>

NodeType ==
    [addr : Addrs, nRefCount : Int, fInbound : BOOLEAN, fNetworkNode : BOOLEAN,
     hSocket : BOOLEAN, fDisconnect : BOOLEAN, grantOutbound : BOOLEAN,
     fSuccessfullyConnected : BOOLEAN, fStartSync : BOOLEAN]

OpenerType ==
    [at : {"idle", "checked", "found", "adding", "connecting", "connected",
           "posting", "clearing", "moving", "granted"},
     addr : Addrs, node : Nodes \union {NoNode}, read : Int, grant : BOOLEAN]

SocketType ==
    [at : {"disconnect", "scan", "posting", "clearing", "closing",
           "delete", "accept", "copy", "serve"},
     copy : SUBSET Nodes, left : SUBSET Nodes, node : Nodes \union {NoNode}]

PollType ==
    [at : {"idle", "sync", "chosen", "poll"}, copy : SUBSET Nodes,
     left : SUBSET Nodes, sync : Nodes \union {NoNode}]

\* The socket thread's places inside its first critical section of cs_vNodes,
\* and those at which it has a node in hand that is in neither list.
Locked == socket.at \in {"scan", "posting", "clearing", "closing"}
Removing == socket.at \in {"posting", "clearing", "closing"}

TypeOK ==
    /\ vNodes \subseteq alive
    /\ vNodesDisconnected \subseteq alive \ vNodes
    /\ alive \subseteq Nodes
    /\ node \in [Nodes -> NodeType]
    /\ semOutbound \in Nat /\ handed \in Nat
    /\ opener \in [Openers -> OpenerType]
    /\ socket \in SocketType
    /\ socket.left \subseteq vNodes
    /\ Removing => socket.node \in alive \ (vNodes \union vNodesDisconnected)
    /\ poll \in PollType
    /\ pnodeSync \in Nodes \union {NoNode}

-----------------------------------------------------------------------------
\* CNode's constructor, followed by AddRef.
NewNode(a, inbound) ==
    [addr |-> a, nRefCount |-> 1, fInbound |-> inbound, fNetworkNode |-> FALSE,
     hSocket |-> TRUE, fDisconnect |-> FALSE, grantOutbound |-> FALSE,
     fSuccessfullyConnected |-> FALSE, fStartSync |-> FALSE]

Unallocated == NewNode(CHOOSE a \in Addrs : TRUE, FALSE)

Idle == [at |-> "idle", addr |-> CHOOSE a \in Addrs : TRUE, node |-> NoNode,
         read |-> 0, grant |-> FALSE]

Init ==
    /\ vNodes = {} /\ vNodesDisconnected = {} /\ alive = {}
    /\ node = [n \in Nodes |-> Unallocated]
    /\ semOutbound = MaxOutbound
    /\ handed = 0
    /\ opener = [o \in Openers |-> Idle]
    /\ socket = [at |-> "disconnect", copy |-> {}, left |-> {}, node |-> NoNode]
    /\ poll = [at |-> "idle", copy |-> {}, left |-> {}, sync |-> NoNode]
    /\ pnodeSync = NoNode

\* A new CNode, pushed to vNodes under cs_vNodes.
Push(n, a, inbound) ==
    /\ ~Locked
    /\ n \notin alive
    /\ alive' = alive \union {n}
    /\ node' = [node EXCEPT ![n] = NewNode(a, inbound)]
    /\ vNodes' = vNodes \union {n}

AddRefs(ns) == [n \in Nodes |->
    IF n \in ns THEN [node[n] EXCEPT !.nRefCount = @ + 1] ELSE node[n]]
ReleaseRefs(ns) == [n \in Nodes |->
    IF n \in ns THEN [node[n] EXCEPT !.nRefCount = @ - 1] ELSE node[n]]

\* The nodes FindNode returns for a host; for a service, those this program
\* connected to, as a peer that connects does so from another port.
FindHost(a) == {n \in vNodes : node[n].addr = a}
FindService(a) == {n \in FindHost(a) : ~node[n].fInbound}

\* CloseSocketDisconnect
CloseSocketDisconnect(n) ==
    /\ node' = [node EXCEPT ![n].fDisconnect = TRUE, ![n].hSocket = FALSE]
    /\ pnodeSync' = IF pnodeSync = n THEN NoNode ELSE pnodeSync

-----------------------------------------------------------------------------
(* OpenNetworkConnection, called with a grant the caller waited for; when it *)
(* fails the grant's destructor returns the permit.                          *)

OpenNetworkConnection(o, a) ==
    /\ opener[o].at = "idle" /\ ~Locked
    /\ handed = 0 \/ handed < MaxHanded
    /\ semOutbound > 0
    /\ FindHost(a) = {}
    /\ semOutbound' = semOutbound - 1
    /\ opener' = [opener EXCEPT ![o] = [Idle EXCEPT !.at = "checked", !.addr = a, !.grant = TRUE]]
    /\ UNCHANGED <<vNodes, vNodesDisconnected, alive, node, handed, socket, poll, pnodeSync>>

\* ConnectNode's search, the pointer found being used after FindNode unlocks.
FindExisting(o) ==
    /\ opener[o].at = "checked" /\ ~Locked
    /\ handed < MaxHanded
    /\ \E n \in FindService(opener[o].addr) :
           opener' = [opener EXCEPT ![o].at = "found", ![o].node = n]
    /\ handed' = handed + 1
    /\ UNCHANGED <<vNodes, vNodesDisconnected, alive, node, semOutbound, socket, poll, pnodeSync>>

FindNone(o) ==
    /\ opener[o].at = "checked" /\ ~Locked
    /\ FindService(opener[o].addr) = {}
    /\ opener' = [opener EXCEPT ![o].at = "connecting"]
    /\ UNCHANGED <<vNodes, vNodesDisconnected, alive, node, semOutbound, handed,
                   socket, poll, pnodeSync>>

\* AddRef of the node found, whatever its memory holds by now.
ReadCount(o) ==
    /\ opener[o].at = "found"
    /\ opener' = [opener EXCEPT ![o].at = "adding",
                                ![o].read = node[opener[o].node].nRefCount]
    /\ UNCHANGED <<vNodes, vNodesDisconnected, alive, node, semOutbound, handed,
                   socket, poll, pnodeSync>>

\* The increment overwrites the count, or is overwritten by another's that
\* began before and counts on from the value read.
WriteCount(o) ==
    LET count == node[opener[o].node].nRefCount IN
    /\ opener[o].at = "adding"
    /\ \E k \in {opener[o].read + 1} \union ({count} \ {opener[o].read}) :
           node' = [node EXCEPT ![opener[o].node].nRefCount = k]
    /\ opener' = [opener EXCEPT ![o].at = "connected", ![o].read = 0]
    /\ UNCHANGED <<vNodes, vNodesDisconnected, alive, semOutbound, handed, socket, poll, pnodeSync>>

Connect(o, n) ==
    /\ opener[o].at = "connecting"
    /\ Push(n, opener[o].addr, FALSE)
    /\ opener' = [opener EXCEPT ![o].at = "connected", ![o].node = n]
    /\ UNCHANGED <<vNodesDisconnected, semOutbound, handed, socket, poll, pnodeSync>>

ConnectFails(o) ==
    /\ opener[o].at = "connecting"
    /\ semOutbound' = semOutbound + 1
    /\ opener' = [opener EXCEPT ![o] = Idle]
    /\ UNCHANGED <<vNodes, vNodesDisconnected, alive, node, handed, socket, poll, pnodeSync>>

\* grantOutbound->MoveTo(pnode->grantOutbound): the node's own grant is
\* released first, by a test, a post and a reset.
TestGrant(o) ==
    /\ opener[o].at = "connected"
    /\ opener' = [opener EXCEPT ![o].at =
           IF node[opener[o].node].grantOutbound THEN "posting" ELSE "moving"]
    /\ UNCHANGED <<vNodes, vNodesDisconnected, alive, node, semOutbound, handed,
                   socket, poll, pnodeSync>>

PostOld(o) ==
    /\ opener[o].at = "posting"
    /\ semOutbound' = semOutbound + 1
    /\ opener' = [opener EXCEPT ![o].at = "clearing"]
    /\ UNCHANGED <<vNodes, vNodesDisconnected, alive, node, handed, socket, poll, pnodeSync>>

ClearOld(o) ==
    /\ opener[o].at = "clearing"
    /\ node' = [node EXCEPT ![opener[o].node].grantOutbound = FALSE]
    /\ opener' = [opener EXCEPT ![o].at = "moving"]
    /\ UNCHANGED <<vNodes, vNodesDisconnected, alive, semOutbound, handed, socket, poll, pnodeSync>>

\* The assignment; the caller's own grant is its thread's alone.
MoveGrant(o) ==
    /\ opener[o].at = "moving"
    /\ node' = [node EXCEPT ![opener[o].node].grantOutbound = TRUE]
    /\ opener' = [opener EXCEPT ![o].at = "granted", ![o].grant = FALSE]
    /\ UNCHANGED <<vNodes, vNodesDisconnected, alive, semOutbound, handed, socket, poll, pnodeSync>>

MarkNetworkNode(o) ==
    /\ opener[o].at = "granted"
    /\ node' = [node EXCEPT ![opener[o].node].fNetworkNode = TRUE]
    /\ opener' = [opener EXCEPT ![o] = Idle]
    /\ UNCHANGED <<vNodes, vNodesDisconnected, alive, semOutbound, handed, socket, poll, pnodeSync>>

\* addnode onetry: ConnectNode by name, which looks for no existing node.
AddNodeOneTry(n, a) ==
    /\ OneTry
    /\ Push(n, a, FALSE)
    /\ UNCHANGED <<vNodesDisconnected, semOutbound, handed, threads, pnodeSync>>

-----------------------------------------------------------------------------
(* ThreadSocketHandler                                                       *)

\* One no thread refers to any more has no data buffered.
Unused(n) == node[n].fDisconnect \/ node[n].nRefCount <= 0

\* The loop over a copy of vNodes, all of it under cs_vNodes.
DisconnectNodes ==
    /\ socket.at = "disconnect"
    /\ socket' = [socket EXCEPT !.at = "scan", !.left = vNodes]
    /\ UNCHANGED <<vNodes, vNodesDisconnected, alive, node, semOutbound, handed,
                   opener, poll, pnodeSync>>

KeepNode(n) ==
    /\ socket.at = "scan" /\ n \in socket.left
    /\ ~Unused(n)
    /\ socket' = [socket EXCEPT !.left = @ \ {n}]
    /\ UNCHANGED <<vNodes, vNodesDisconnected, alive, node, semOutbound, handed,
                   opener, poll, pnodeSync>>

\* The node is erased and grantOutbound.Release tests its grant.
RemoveNode(n) ==
    /\ socket.at = "scan" /\ n \in socket.left
    /\ Unused(n)
    /\ vNodes' = vNodes \ {n}
    /\ socket' = [socket EXCEPT !.at = IF node[n].grantOutbound THEN "posting" ELSE "closing",
                                !.left = @ \ {n}, !.node = n]
    /\ UNCHANGED <<vNodesDisconnected, alive, node, semOutbound, handed, opener, poll, pnodeSync>>

PostGrant ==
    /\ socket.at = "posting"
    /\ semOutbound' = semOutbound + 1
    /\ socket' = [socket EXCEPT !.at = "clearing"]
    /\ UNCHANGED <<vNodes, vNodesDisconnected, alive, node, handed, opener, poll, pnodeSync>>

\* Mutant: Release posts and leaves the grant.
ClearGrant_Kept ==
    /\ socket.at = "clearing"
    /\ socket' = [socket EXCEPT !.at = "closing"]
    /\ UNCHANGED <<vNodes, vNodesDisconnected, alive, node, semOutbound, handed,
                   opener, poll, pnodeSync>>

ClearGrant ==
    /\ socket.at = "clearing"
    /\ node' = [node EXCEPT ![socket.node].grantOutbound = FALSE]
    /\ socket' = [socket EXCEPT !.at = "closing"]
    /\ UNCHANGED <<vNodes, vNodesDisconnected, alive, semOutbound, handed, opener, poll, pnodeSync>>

\* Mutant: the reference of an inbound node is not released.
Removed_Inbound(nd) ==
    [nd EXCEPT !.fDisconnect = TRUE, !.hSocket = FALSE,
               !.nRefCount = IF nd.fNetworkNode THEN @ - 1 ELSE @]

\* Closing the socket, and the release of the list's reference.
Removed(nd) ==
    [nd EXCEPT !.fDisconnect = TRUE, !.hSocket = FALSE,
               !.nRefCount = IF nd.fNetworkNode \/ nd.fInbound THEN @ - 1 ELSE @]

CloseNode ==
    LET n == socket.node IN
    /\ socket.at = "closing"
    /\ node' = [node EXCEPT ![n] = Removed(@)]
    /\ pnodeSync' = IF pnodeSync = n THEN NoNode ELSE pnodeSync
    /\ vNodesDisconnected' = vNodesDisconnected \union {n}
    /\ socket' = [socket EXCEPT !.at = "scan", !.node = NoNode]
    /\ UNCHANGED <<vNodes, alive, semOutbound, handed, opener, poll>>

ScanDone ==
    /\ socket.at = "scan" /\ socket.left = {}
    /\ socket' = [socket EXCEPT !.at = "delete"]
    /\ UNCHANGED <<vNodes, vNodesDisconnected, alive, node, semOutbound, handed,
                   opener, poll, pnodeSync>>

\* Mutant: off by one.
Deletable_Early == {n \in vNodesDisconnected : node[n].nRefCount <= 1}

\* The nodes of vNodesDisconnected to delete.
Deletable == {n \in vNodesDisconnected : node[n].nRefCount <= 0}

\* ~CNode destroys the grant.  Of what the freed memory holds, all that a
\* thread with a pointer to it still reads is kept.
Freed(nd) == [Unallocated EXCEPT !.nRefCount = nd.nRefCount,
                                 !.fDisconnect = TRUE, !.hSocket = FALSE]

Deleted == [n \in Nodes |-> IF n \in Deletable THEN Freed(node[n]) ELSE node[n]]

\* Mutant: the node stays in the list.
DeleteNodes_Listed ==
    /\ socket.at = "delete"
    /\ alive' = alive \ Deletable
    /\ semOutbound' = semOutbound + Cardinality({n \in Deletable : node[n].grantOutbound})
    /\ node' = Deleted
    /\ socket' = [socket EXCEPT !.at = "accept"]
    /\ UNCHANGED <<vNodes, vNodesDisconnected, handed, opener, poll, pnodeSync>>

\* No thread holds the locks of a node without references for long: the
\* TRY_LOCKs succeed.
DeleteNodes ==
    /\ socket.at = "delete"
    /\ vNodesDisconnected' = vNodesDisconnected \ Deletable
    /\ alive' = alive \ Deletable
    /\ semOutbound' = semOutbound + Cardinality({n \in Deletable : node[n].grantOutbound})
    /\ node' = Deleted
    /\ socket' = [socket EXCEPT !.at = "accept"]
    /\ UNCHANGED <<vNodes, handed, opener, poll, pnodeSync>>

Inbound == {n \in vNodes : node[n].fInbound}

AcceptInbound(n, a) ==
    /\ socket.at = "accept"
    /\ Cardinality(Inbound) < MaxInbound
    /\ Push(n, a, TRUE)
    /\ socket' = [socket EXCEPT !.at = "copy"]
    /\ UNCHANGED <<vNodesDisconnected, semOutbound, handed, opener, poll, pnodeSync>>

\* No connection to accept, or one that is closed at once.
AcceptNone ==
    /\ socket.at = "accept"
    /\ socket' = [socket EXCEPT !.at = "copy"]
    /\ UNCHANGED <<vNodes, vNodesDisconnected, alive, node, semOutbound, handed, opener, poll, pnodeSync>>

CopyForService ==
    /\ socket.at = "copy"
    /\ node' = AddRefs(vNodes)
    /\ socket' = [socket EXCEPT !.at = "serve", !.copy = vNodes]
    /\ UNCHANGED <<vNodes, vNodesDisconnected, alive, semOutbound, handed, opener, poll, pnodeSync>>

\* The peer closed the connection, a receive or a send failed, or it timed out.
ServeCloses(n) ==
    /\ socket.at = "serve" /\ n \in socket.copy
    /\ node[n].hSocket
    /\ CloseSocketDisconnect(n)
    /\ UNCHANGED <<vNodes, vNodesDisconnected, alive, semOutbound, handed, threads>>

ServiceDone ==
    /\ socket.at = "serve"
    /\ node' = ReleaseRefs(socket.copy)
    /\ socket' = [socket EXCEPT !.at = "disconnect", !.copy = {}]
    /\ UNCHANGED <<vNodes, vNodesDisconnected, alive, semOutbound, handed, opener, poll, pnodeSync>>

-----------------------------------------------------------------------------
(* ThreadMessageHandler                                                      *)

\* Mutant: any sync node will do, connected or not.
HaveSyncNode_Any == pnodeSync # NoNode

\* fHaveSyncNode
HaveSyncNode == pnodeSync \in vNodes

CopyForPoll ==
    /\ poll.at = "idle" /\ ~Locked
    /\ node' = AddRefs(vNodes)
    /\ poll' = [at |-> IF HaveSyncNode THEN "poll" ELSE "sync",
                copy |-> vNodes, left |-> vNodes, sync |-> NoNode]
    /\ UNCHANGED <<vNodes, vNodesDisconnected, alive, semOutbound, handed, opener, socket, pnodeSync>>

\* StartSync's candidates, of which its score picks one.
Candidates == {n \in poll.copy : node[n].fSuccessfullyConnected /\ ~node[n].fDisconnect}

ChooseSync ==
    /\ poll.at = "sync"
    /\ IF Candidates = {}
         THEN poll' = [poll EXCEPT !.at = "poll"]
         ELSE \E n \in Candidates : poll' = [poll EXCEPT !.at = "chosen", !.sync = n]
    /\ UNCHANGED <<vNodes, vNodesDisconnected, alive, node, semOutbound, handed, opener, socket, pnodeSync>>

StartSync ==
    /\ poll.at = "chosen"
    /\ node' = [node EXCEPT ![poll.sync].fStartSync = TRUE]
    /\ pnodeSync' = poll.sync
    /\ poll' = [poll EXCEPT !.at = "poll", !.sync = NoNode]
    /\ UNCHANGED <<vNodes, vNodesDisconnected, alive, semOutbound, handed, opener, socket>>

Polled(n) == [poll EXCEPT !.left = @ \ {n}]

\* ProcessMessages and SendMessages leave the node as it is, or skip it.
PollQuiet(n) ==
    /\ poll.at = "poll" /\ n \in poll.left
    /\ poll' = Polled(n)
    /\ UNCHANGED <<vNodes, vNodesDisconnected, alive, node, semOutbound, handed, opener, socket, pnodeSync>>

\* A version message that is accepted.
PollConnects(n) ==
    /\ poll.at = "poll" /\ n \in poll.left
    /\ ~node[n].fDisconnect
    /\ node' = [node EXCEPT ![n].fSuccessfullyConnected = TRUE]
    /\ poll' = Polled(n)
    /\ UNCHANGED <<vNodes, vNodesDisconnected, alive, semOutbound, handed, opener, socket, pnodeSync>>

\* ProcessMessages fails or the node was idle for too long.
PollCloses(n) ==
    /\ poll.at = "poll" /\ n \in poll.left
    /\ ~node[n].fDisconnect
    /\ CloseSocketDisconnect(n)
    /\ poll' = Polled(n)
    /\ UNCHANGED <<vNodes, vNodesDisconnected, alive, semOutbound, handed, opener, socket>>

\* A version that is refused, a ban or a stalled download: only the flag.
PollMarks(n) ==
    /\ poll.at = "poll" /\ n \in poll.left
    /\ ~node[n].fDisconnect
    /\ node' = [node EXCEPT ![n].fDisconnect = TRUE]
    /\ poll' = Polled(n)
    /\ UNCHANGED <<vNodes, vNodesDisconnected, alive, semOutbound, handed, opener, socket, pnodeSync>>

PollDone ==
    /\ poll.at = "poll" /\ poll.left = {} /\ ~Locked
    /\ node' = ReleaseRefs(poll.copy)
    /\ poll' = [at |-> "idle", copy |-> {}, left |-> {}, sync |-> NoNode]
    /\ UNCHANGED <<vNodes, vNodesDisconnected, alive, semOutbound, handed, opener, socket, pnodeSync>>

-----------------------------------------------------------------------------
Open(o) ==
    \/ \E a \in Addrs : OpenNetworkConnection(o, a)
    \/ FindExisting(o) \/ FindNone(o)
    \/ ReadCount(o) \/ WriteCount(o)
    \/ \E n \in Nodes : Connect(o, n)
    \/ ConnectFails(o)
    \/ TestGrant(o) \/ PostOld(o) \/ ClearOld(o) \/ MoveGrant(o)
    \/ MarkNetworkNode(o)

Removal ==
    \/ \E n \in Nodes : KeepNode(n) \/ RemoveNode(n)
    \/ PostGrant \/ ClearGrant \/ CloseNode \/ ScanDone

SocketThread ==
    \/ DisconnectNodes \/ Removal \/ DeleteNodes
    \/ \E n \in Nodes, a \in Addrs : AcceptInbound(n, a)
    \/ AcceptNone \/ CopyForService
    \/ \E n \in Nodes : ServeCloses(n)
    \/ ServiceDone

Poll(n) == PollQuiet(n) \/ PollConnects(n) \/ PollCloses(n) \/ PollMarks(n)

MessageThread ==
    \/ CopyForPoll \/ ChooseSync \/ StartSync
    \/ \E n \in Nodes : Poll(n)
    \/ PollDone

Next ==
    \/ \E o \in Openers : Open(o)
    \/ \E n \in Nodes, a \in Addrs : AddNodeOneTry(n, a)
    \/ SocketThread
    \/ MessageThread

Spec == Init /\ [][Next]_vars

\* The two loops run for as long as the program does: neither passes over a
\* node for ever, nor leaves its service loop for ever unfinished.
SocketRound ==
    \/ DisconnectNodes \/ Removal \/ DeleteNodes
    \/ AcceptNone \/ CopyForService \/ ServiceDone

Fairness == WF_vars(SocketRound) /\ SF_vars(MessageThread)

FairSpec == Spec /\ Fairness

-----------------------------------------------------------------------------
(* What the threads keep between them.  FindNode's result is used after      *)
(* cs_vNodes is released: what the code promises holds for as long as        *)
(* ConnectNode has handed out no node it found (handed = 0).                 *)

\* The grants that count: one that a Release has posted is still to be reset.
Posted ==
    {opener[o].node : o \in {p \in Openers : opener[p].at = "clearing"}}
        \union (IF socket.at = "clearing" THEN {socket.node} ELSE {})

Held == {n \in alive \ Posted : node[n].grantOutbound}

PermitsAccounted ==
    semOutbound + Cardinality({o \in Openers : opener[o].grant}) + Cardinality(Held)
        = MaxOutbound

\* Every permit of semOutbound is free, an opener's or a node's, whenever nodes
\* are closed, removed and deleted between the steps of MoveTo and Release: none
\* is lost or posted twice before ConnectNode hands out a node it found.
PermitsConserved == handed = 0 => PermitsAccounted

\* The nodes opened with a grant: marked, or in the hands of the opener still.
Opened == {n \in vNodes :
    \/ node[n].fNetworkNode
    \/ \E o \in Openers : opener[o].at \in {"connected", "moving", "granted"}
                          /\ opener[o].node = n}

\* The connections opened with a grant are never more than the semaphore's
\* permits (MAX_OUTBOUND_CONNECTIONS), by however many threads, whenever peers
\* close, nodes are removed and deleted, and the grants move.
OutboundBounded == handed = 0 => Cardinality(Opened) <= MaxOutbound

\* net.cpp:1004: "wait until threads are done using it": a node that a thread
\* copied from vNodes, or ConnectNode has returned to an opener, is not deleted.
UsedNotDeleted ==
    /\ socket.copy \union poll.copy \subseteq alive
    /\ \A o \in Openers :
           opener[o].at \in {"connected", "posting", "clearing", "moving", "granted"}
               => opener[o].node \in alive

\* The loops' references and the constructor's keep every node in use from
\* deletion, however late an opener marks it, with any number of openers and
\* with addnode onetry, before ConnectNode hands out a node it found.
CopiesNotDeleted == handed = 0 => UsedNotDeleted

\* An inbound peer that was removed is deleted in the end, as every thread's
\* loop releases the references of its copy.
NodesReclaimed ==
    \A n \in Nodes :
        n \in vNodesDisconnected /\ node[n].fInbound ~> n \notin vNodesDisconnected

\* A peer that could serve as sync node.
Willing(n) == n \in vNodes /\ node[n].fSuccessfullyConnected /\ ~node[n].fDisconnect

\* The sync node is connected and was told to start (fStartSync; SendMessages
\* resets the flag when it has sent getblocks, which is left out here).
Syncing == pnodeSync \in vNodes /\ node[pnodeSync].fStartSync

\* pnodeSync names a peer that was never told: StartSync stored a node that the
\* socket thread had removed and closed before, and its place was used again.
Misled == pnodeSync \in vNodes /\ ~node[pnodeSync].fStartSync

\* net.cpp:466: "if this was the sync node, we'll need a new one": as long as
\* some peer could serve, one is told to and in use again, however the nodes
\* chosen are closed, removed and deleted meanwhile.  Nothing but a pnodeSync
\* that fits the wrong node keeps the message thread from choosing another.
SyncResumes ==
    (\E n \in Nodes : Willing(n))
        ~> \/ Syncing \/ Misled
           \/ \A n \in Nodes : ~Willing(n)
=============================================================================
