--------------------------- MODULE NetNode_proofs --------------------------
(* Theorems of NetNode, for any nodes, addresses, openers and permits, with  *)
(* addnode onetry or without.                                                *)
(*                                                                           *)
(* The types hold in every behaviour.  The others hold until ConnectNode     *)
(* hands out a node it found, and follow from one invariant: an opener has   *)
(* its node to itself, the grants account for every permit, and a node's     *)
(* count is the loops' references to it and at most one more, its own.       *)
EXTENDS NetNode, FiniteSetTheorems, TLAPS

\* The places at which an opener has no node.
Empty == {"idle", "checked", "connecting"}

Placed == \A o \in Openers : opener[o].at \notin Empty => opener[o].node \in Nodes

\* TypeOK, and that few nodes are allocated.
Types == TypeOK /\ IsFiniteSet(alive) /\ Placed

-----------------------------------------------------------------------------
(* Records.                                                                  *)

\* What the invariant reads of a node.
Same(nd, md) ==
    /\ md.nRefCount = nd.nRefCount
    /\ md.fInbound = nd.fInbound
    /\ md.fNetworkNode = nd.fNetworkNode
    /\ md.grantOutbound = nd.grantOutbound

LEMMA FlagRecords ==
    ASSUME NEW nd \in NodeType
    PROVE  /\ [nd EXCEPT !.fDisconnect = TRUE] \in NodeType
           /\ [nd EXCEPT !.fSuccessfullyConnected = TRUE] \in NodeType
           /\ [nd EXCEPT !.fStartSync = TRUE] \in NodeType
           /\ [nd EXCEPT !.fDisconnect = TRUE, !.hSocket = FALSE] \in NodeType
           /\ Same(nd, [nd EXCEPT !.fDisconnect = TRUE])
           /\ Same(nd, [nd EXCEPT !.fSuccessfullyConnected = TRUE])
           /\ Same(nd, [nd EXCEPT !.fStartSync = TRUE])
           /\ Same(nd, [nd EXCEPT !.fDisconnect = TRUE, !.hSocket = FALSE])
<1>1. /\ [nd EXCEPT !.fDisconnect = TRUE] \in NodeType
      /\ Same(nd, [nd EXCEPT !.fDisconnect = TRUE])
  BY DEF NodeType, Same
<1>2. /\ [nd EXCEPT !.fSuccessfullyConnected = TRUE] \in NodeType
      /\ Same(nd, [nd EXCEPT !.fSuccessfullyConnected = TRUE])
  BY DEF NodeType, Same
<1>3. /\ [nd EXCEPT !.fStartSync = TRUE] \in NodeType
      /\ Same(nd, [nd EXCEPT !.fStartSync = TRUE])
  BY DEF NodeType, Same
<1>4. /\ [nd EXCEPT !.fDisconnect = TRUE, !.hSocket = FALSE] \in NodeType
      /\ Same(nd, [nd EXCEPT !.fDisconnect = TRUE, !.hSocket = FALSE])
  BY DEF NodeType, Same
<1> QED
  BY <1>1, <1>2, <1>3, <1>4

LEMMA GrantRecords ==
    ASSUME NEW nd \in NodeType, NEW b \in BOOLEAN
    PROVE  /\ [nd EXCEPT !.grantOutbound = b] \in NodeType
           /\ [nd EXCEPT !.grantOutbound = b].nRefCount = nd.nRefCount
           /\ [nd EXCEPT !.grantOutbound = b].fInbound = nd.fInbound
           /\ [nd EXCEPT !.grantOutbound = b].fNetworkNode = nd.fNetworkNode
           /\ [nd EXCEPT !.grantOutbound = b].grantOutbound = b
  BY DEF NodeType

LEMMA MarkRecord ==
    ASSUME NEW nd \in NodeType
    PROVE  /\ [nd EXCEPT !.fNetworkNode = TRUE] \in NodeType
           /\ [nd EXCEPT !.fNetworkNode = TRUE].nRefCount = nd.nRefCount
           /\ [nd EXCEPT !.fNetworkNode = TRUE].fInbound = nd.fInbound
           /\ [nd EXCEPT !.fNetworkNode = TRUE].fNetworkNode
           /\ [nd EXCEPT !.fNetworkNode = TRUE].grantOutbound = nd.grantOutbound
  BY DEF NodeType

LEMMA CountRecord ==
    ASSUME NEW nd \in NodeType, NEW k \in Int
    PROVE  /\ [nd EXCEPT !.nRefCount = k] \in NodeType
           /\ [nd EXCEPT !.nRefCount = k].nRefCount = k
           /\ [nd EXCEPT !.nRefCount = k].fInbound = nd.fInbound
           /\ [nd EXCEPT !.nRefCount = k].fNetworkNode = nd.fNetworkNode
           /\ [nd EXCEPT !.nRefCount = k].grantOutbound = nd.grantOutbound
  BY DEF NodeType

\* CloseNode releases the list's reference of a node that is inbound or marked.
LEMMA RemovedRecord ==
    ASSUME NEW nd \in NodeType
    PROVE  /\ Removed(nd) \in NodeType
           /\ Removed(nd).nRefCount = IF nd.fNetworkNode \/ nd.fInbound
                                      THEN nd.nRefCount - 1 ELSE nd.nRefCount
           /\ Removed(nd).fInbound = nd.fInbound
           /\ Removed(nd).fNetworkNode = nd.fNetworkNode
           /\ Removed(nd).grantOutbound = nd.grantOutbound
<1> DEFINE k == IF nd.fNetworkNode \/ nd.fInbound THEN nd.nRefCount - 1 ELSE nd.nRefCount
<1>1. k \in Int
  BY DEF NodeType
<1>2. Removed(nd) = [nd EXCEPT !.fDisconnect = TRUE, !.hSocket = FALSE, !.nRefCount = k]
  BY DEF Removed
<1> HIDE DEF k
<1>3. /\ Removed(nd) \in NodeType /\ Removed(nd).nRefCount = k
      /\ Removed(nd).fInbound = nd.fInbound
      /\ Removed(nd).fNetworkNode = nd.fNetworkNode
      /\ Removed(nd).grantOutbound = nd.grantOutbound
  BY <1>1, <1>2 DEF NodeType
<1> QED
  BY <1>3 DEF k

LEMMA NewRecord ==
    ASSUME NEW a \in Addrs, NEW b \in BOOLEAN
    PROVE  /\ NewNode(a, b) \in NodeType
           /\ NewNode(a, b).nRefCount = 1 /\ NewNode(a, b).fInbound = b
           /\ ~ NewNode(a, b).fNetworkNode /\ ~ NewNode(a, b).grantOutbound
  BY DEF NewNode, NodeType

LEMMA DefaultRecords ==
    /\ Unallocated \in NodeType
    /\ Idle \in OpenerType /\ Idle.at = "idle" /\ ~ Idle.grant
    /\ \A nd \in NodeType : Freed(nd) \in NodeType
<1>1. (CHOOSE a \in Addrs : TRUE) \in Addrs
  BY NetAssumption
<1>2. Unallocated \in NodeType
  BY <1>1 DEF Unallocated, NewNode, NodeType
<1>3. Idle \in OpenerType /\ Idle.at = "idle" /\ ~ Idle.grant
  BY <1>1 DEF Idle, OpenerType
<1>4. ASSUME NEW nd \in NodeType PROVE Freed(nd) \in NodeType
  BY <1>2 DEF Freed, NodeType
<1> QED
  BY <1>2, <1>3, <1>4

\* A step that changes one node.
LEMMA OneNode ==
    ASSUME node \in [Nodes -> NodeType], NEW x, NEW nd,
           node' = [node EXCEPT ![x] = nd], x \in Nodes => nd \in NodeType
    PROVE  /\ node' \in [Nodes -> NodeType]
           /\ \A m \in Nodes : node'[m] = IF m = x THEN nd ELSE node[m]
  OBVIOUS

\* A step that changes flags of one node only.
LEMMA OneFlag ==
    ASSUME node \in [Nodes -> NodeType], NEW x, NEW nd,
           node' = [node EXCEPT ![x] = nd],
           x \in Nodes => nd \in NodeType /\ Same(node[x], nd)
    PROVE  /\ node' \in [Nodes -> NodeType]
           /\ \A m \in Nodes : Same(node[m], node'[m])
<1>1. /\ node' \in [Nodes -> NodeType]
      /\ \A m \in Nodes : node'[m] = IF m = x THEN nd ELSE node[m]
  BY OneNode
<1> QED
  BY <1>1 DEF Same

LEMMA CloseFlag ==
    ASSUME node \in [Nodes -> NodeType], pnodeSync \in Nodes \union {NoNode},
           NEW n \in Nodes, CloseSocketDisconnect(n)
    PROVE  /\ node' \in [Nodes -> NodeType]
           /\ \A m \in Nodes : Same(node[m], node'[m])
           /\ pnodeSync' \in Nodes \union {NoNode}
<1> DEFINE nd == [node[n] EXCEPT !.fDisconnect = TRUE, !.hSocket = FALSE]
<1>1. node[n] \in NodeType
  OBVIOUS
<1>2. nd \in NodeType /\ Same(node[n], nd)
  BY <1>1, FlagRecords
<1>3. node' = [node EXCEPT ![n] = nd]
  BY DEF CloseSocketDisconnect
<1>4. pnodeSync' \in Nodes \union {NoNode}
  BY DEF CloseSocketDisconnect
<1> HIDE DEF nd
<1> QED
  BY <1>2, <1>3, <1>4, OneFlag

\* AddRefs and ReleaseRefs change the counts of the nodes they are given.
LEMMA RefsChange ==
    ASSUME node \in [Nodes -> NodeType], NEW ns, NEW d \in {1, -1},
           node' = IF d = 1 THEN AddRefs(ns) ELSE ReleaseRefs(ns)
    PROVE  /\ node' \in [Nodes -> NodeType]
           /\ \A n \in Nodes :
                 /\ node[n].nRefCount \in Int
                 /\ node'[n].nRefCount = IF n \in ns THEN node[n].nRefCount + d
                                         ELSE node[n].nRefCount
                 /\ node'[n].fInbound = node[n].fInbound
                 /\ node'[n].fNetworkNode = node[n].fNetworkNode
                 /\ node'[n].grantOutbound = node[n].grantOutbound
<1> DEFINE Me(n) == [node[n] EXCEPT !.nRefCount = node[n].nRefCount + d]
<1>1. ASSUME NEW n \in Nodes
      PROVE  /\ node[n].nRefCount \in Int /\ Me(n) \in NodeType
             /\ Me(n).nRefCount = node[n].nRefCount + d
             /\ Me(n).fInbound = node[n].fInbound
             /\ Me(n).fNetworkNode = node[n].fNetworkNode
             /\ Me(n).grantOutbound = node[n].grantOutbound
  <2>1. node[n] \in NodeType
    OBVIOUS
  <2>2. node[n].nRefCount \in Int /\ node[n].nRefCount + d \in Int
    BY <2>1 DEF NodeType
  <2> QED
    BY <2>1, <2>2, CountRecord
<1>2. node' = [n \in Nodes |-> IF n \in ns THEN Me(n) ELSE node[n]]
  <2>1. CASE d = 1
    BY <2>1 DEF AddRefs
  <2>2. CASE d = -1
    <3>1. ASSUME NEW n \in Nodes
          PROVE  [node[n] EXCEPT !.nRefCount = @ - 1] = Me(n)
      <4>1. node[n].nRefCount - 1 = node[n].nRefCount + d
        BY <1>1, <2>2
      <4> QED
        BY <4>1
    <3>2. node' = ReleaseRefs(ns)
      BY <2>2
    <3> HIDE DEF Me
    <3> QED
      BY <3>1, <3>2 DEF ReleaseRefs
  <2> QED
    BY <2>1, <2>2
<1> HIDE DEF Me
<1> QED
  BY <1>1, <1>2

-----------------------------------------------------------------------------
(* The types.                                                                *)

LEMMA InitTypes == Init => Types
<1> SUFFICES ASSUME Init PROVE Types
  OBVIOUS
<1> USE DEF Init
<1>1. IsFiniteSet(alive)
  BY FS_EmptySet
<1>2. opener \in [Openers -> OpenerType] /\ Placed
  BY DefaultRecords DEF Placed, Empty
<1>3. TypeOK
  BY <1>2, DefaultRecords, NetAssumption
     DEF TypeOK, SocketType, PollType, Removing
<1> QED
  BY <1>1, <1>2, <1>3 DEF Types

\* What a step makes of opener o's place, node and grant.
Moves(o, at, n, g) ==
    /\ opener' \in [Openers -> OpenerType]
    /\ opener'[o].at = at /\ opener'[o].node = n /\ opener'[o].grant = g
    /\ \A p \in Openers \ {o} : opener'[p] = opener[p]

LEMMA OneOpener ==
    ASSUME opener \in [Openers -> OpenerType], NEW o \in Openers,
           NEW r \in OpenerType, opener' = [opener EXCEPT ![o] = r]
    PROVE  Moves(o, r.at, r.node, r.grant)
  BY DEF Moves

Places == {"idle", "checked", "found", "adding", "connecting", "connected",
           "posting", "clearing", "moving", "granted"}

LEMMA PlaceRecord ==
    ASSUME NEW r \in OpenerType, NEW at \in Places
    PROVE  /\ [r EXCEPT !.at = at] \in OpenerType
           /\ [r EXCEPT !.at = at].at = at
           /\ [r EXCEPT !.at = at].node = r.node
           /\ [r EXCEPT !.at = at].grant = r.grant
  BY DEF OpenerType, Places

LEMMA MovedRecord ==
    ASSUME NEW r \in OpenerType
    PROVE  /\ [r EXCEPT !.at = "granted", !.grant = FALSE] \in OpenerType
           /\ [r EXCEPT !.at = "granted", !.grant = FALSE].at = "granted"
           /\ [r EXCEPT !.at = "granted", !.grant = FALSE].node = r.node
           /\ [r EXCEPT !.at = "granted", !.grant = FALSE].grant = FALSE
  BY DEF OpenerType

\* What the openers' actions do to their records.
LEMMA OpenerMoves ==
    ASSUME Types, NEW o \in Openers
    PROVE  /\ \A a \in Addrs : OpenNetworkConnection(o, a) => Moves(o, "checked", NoNode, TRUE)
           /\ FindExisting(o) => \E n \in vNodes : Moves(o, "found", n, opener[o].grant)
           /\ FindNone(o) => Moves(o, "connecting", opener[o].node, opener[o].grant)
           /\ ReadCount(o) => Moves(o, "adding", opener[o].node, opener[o].grant)
           /\ WriteCount(o) => Moves(o, "connected", opener[o].node, opener[o].grant)
           /\ \A n \in Nodes : Connect(o, n) => Moves(o, "connected", n, opener[o].grant)
           /\ ConnectFails(o) \/ MarkNetworkNode(o) => Moves(o, "idle", NoNode, FALSE)
           /\ TestGrant(o) =>
                 Moves(o, IF node[opener[o].node].grantOutbound THEN "posting" ELSE "moving",
                       opener[o].node, opener[o].grant)
           /\ PostOld(o) => Moves(o, "clearing", opener[o].node, opener[o].grant)
           /\ ClearOld(o) => Moves(o, "moving", opener[o].node, opener[o].grant)
           /\ MoveGrant(o) => Moves(o, "granted", opener[o].node, FALSE)
<1>1. /\ opener \in [Openers -> OpenerType] /\ opener[o] \in OpenerType
      /\ node \in [Nodes -> NodeType] /\ vNodes \subseteq Nodes
  BY DEF Types, TypeOK
<1>2. ASSUME NEW at \in Places, opener' = [opener EXCEPT ![o].at = at]
      PROVE  Moves(o, at, opener[o].node, opener[o].grant)
  <2> DEFINE r == [opener[o] EXCEPT !.at = at]
  <2>1. r \in OpenerType /\ r.at = at /\ r.node = opener[o].node /\ r.grant = opener[o].grant
    BY <1>1, PlaceRecord
  <2>2. opener' = [opener EXCEPT ![o] = r]
    BY <1>1, <1>2
  <2> HIDE DEF r
  <2>3. Moves(o, r.at, r.node, r.grant)
    BY ONLY <1>1, <2>1, <2>2, OneOpener
  <2> QED
    BY <2>1, <2>3
<1>3. ASSUME NEW at \in Places, NEW n \in Nodes,
             opener' = [opener EXCEPT ![o].at = at, ![o].node = n]
      PROVE  Moves(o, at, n, opener[o].grant)
  <2> DEFINE r == [opener[o] EXCEPT !.at = at, !.node = n]
  <2>1. r \in OpenerType /\ r.at = at /\ r.node = n /\ r.grant = opener[o].grant
    BY <1>1 DEF OpenerType, Places
  <2>2. opener' = [opener EXCEPT ![o] = r]
    BY <1>1, <1>3
  <2> HIDE DEF r
  <2>3. Moves(o, r.at, r.node, r.grant)
    BY ONLY <1>1, <2>1, <2>2, OneOpener
  <2> QED
    BY <2>1, <2>3
<1>4. ASSUME NEW at \in Places, NEW k \in Int,
             opener' = [opener EXCEPT ![o].at = at, ![o].read = k]
      PROVE  Moves(o, at, opener[o].node, opener[o].grant)
  <2> DEFINE r == [opener[o] EXCEPT !.at = at, !.read = k]
  <2>1. r \in OpenerType /\ r.at = at /\ r.node = opener[o].node /\ r.grant = opener[o].grant
    BY <1>1 DEF OpenerType, Places
  <2>2. opener' = [opener EXCEPT ![o] = r]
    BY <1>1, <1>4
  <2> HIDE DEF r
  <2>3. Moves(o, r.at, r.node, r.grant)
    BY ONLY <1>1, <2>1, <2>2, OneOpener
  <2> QED
    BY <2>1, <2>3
<1>5. ASSUME opener' = [opener EXCEPT ![o].at = "granted", ![o].grant = FALSE]
      PROVE  Moves(o, "granted", opener[o].node, FALSE)
  <2> DEFINE r == [opener[o] EXCEPT !.at = "granted", !.grant = FALSE]
  <2>1. r \in OpenerType /\ r.at = "granted" /\ r.node = opener[o].node /\ r.grant = FALSE
    BY <1>1, MovedRecord
  <2>2. opener' = [opener EXCEPT ![o] = r]
    BY <1>1, <1>5
  <2> HIDE DEF r
  <2>3. Moves(o, r.at, r.node, r.grant)
    BY ONLY <1>1, <2>1, <2>2, OneOpener
  <2> QED
    BY <2>1, <2>3
<1>6. ASSUME opener' = [opener EXCEPT ![o] = Idle] PROVE Moves(o, "idle", NoNode, FALSE)
  <2>1. Moves(o, Idle.at, Idle.node, Idle.grant)
    BY <1>1, <1>6, DefaultRecords, OneOpener
  <2> QED
    BY <2>1 DEF Idle
<1>7. ASSUME NEW a \in Addrs, OpenNetworkConnection(o, a)
      PROVE  Moves(o, "checked", NoNode, TRUE)
  <2> DEFINE r == [Idle EXCEPT !.at = "checked", !.addr = a, !.grant = TRUE]
  <2>1. r \in OpenerType /\ r.at = "checked" /\ r.node = NoNode /\ r.grant
    BY DefaultRecords DEF OpenerType, Idle
  <2>2. opener' = [opener EXCEPT ![o] = r]
    BY <1>7 DEF OpenNetworkConnection
  <2> HIDE DEF r
  <2>3. Moves(o, r.at, r.node, r.grant)
    BY ONLY <1>1, <2>1, <2>2, OneOpener
  <2> QED
    BY <2>1, <2>3 DEF Moves
<1>8. ASSUME FindExisting(o) PROVE \E n \in vNodes : Moves(o, "found", n, opener[o].grant)
  <2>1. PICK n \in FindService(opener[o].addr) :
            opener' = [opener EXCEPT ![o].at = "found", ![o].node = n]
    BY <1>8 DEF FindExisting
  <2>2. n \in vNodes /\ n \in Nodes
    BY <1>1 DEF FindService, FindHost
  <2> QED
    BY <1>3, <2>1, <2>2 DEF Places
<1>9. ASSUME ReadCount(o) PROVE Moves(o, "adding", opener[o].node, opener[o].grant)
  <2>1. opener[o].node \in Nodes
    BY <1>9 DEF Types, Placed, Empty, ReadCount
  <2>2. node[opener[o].node].nRefCount \in Int
    BY <1>1, <2>1 DEF NodeType
  <2> QED
    BY <1>4, <1>9, <2>2 DEF ReadCount, Places
<1>10. ASSUME WriteCount(o) PROVE Moves(o, "connected", opener[o].node, opener[o].grant)
  <2>1. opener' = [opener EXCEPT ![o].at = "connected", ![o].read = 0]
    BY <1>10 DEF WriteCount
  <2>2. "connected" \in Places /\ 0 \in Int
    BY DEF Places
  <2> QED
    BY <1>4, <2>1, <2>2
<1>11. ASSUME NEW n \in Nodes, Connect(o, n) PROVE Moves(o, "connected", n, opener[o].grant)
  BY <1>3, <1>11 DEF Connect, Places
<1>12. /\ FindNone(o) => Moves(o, "connecting", opener[o].node, opener[o].grant)
       /\ PostOld(o) => Moves(o, "clearing", opener[o].node, opener[o].grant)
       /\ ClearOld(o) => Moves(o, "moving", opener[o].node, opener[o].grant)
  BY <1>2 DEF FindNone, PostOld, ClearOld, Places
<1>13. TestGrant(o) =>
           Moves(o, IF node[opener[o].node].grantOutbound THEN "posting" ELSE "moving",
                 opener[o].node, opener[o].grant)
  BY <1>2 DEF TestGrant, Places
<1>14. /\ MoveGrant(o) => Moves(o, "granted", opener[o].node, FALSE)
       /\ ConnectFails(o) \/ MarkNetworkNode(o) => Moves(o, "idle", NoNode, FALSE)
  BY <1>5, <1>6 DEF MoveGrant, ConnectFails, MarkNetworkNode
<1> QED
  BY <1>7, <1>8, <1>9, <1>10, <1>11, <1>12, <1>13, <1>14

-----------------------------------------------------------------------------
(* What the steps make of the nodes.                                         *)

LEMMA PushNodes ==
    ASSUME Types, NEW n \in Nodes, NEW a \in Addrs, NEW b \in BOOLEAN, Push(n, a, b)
    PROVE  /\ node' \in [Nodes -> NodeType]
           /\ \A m \in Nodes : node'[m] = IF m = n THEN NewNode(a, b) ELSE node[m]
           /\ vNodes' = vNodes \union {n} /\ alive' = alive \union {n}
           /\ vNodes' \subseteq alive' /\ alive' \subseteq Nodes /\ IsFiniteSet(alive')
           /\ n \notin alive /\ ~ Locked
<1>1. NewNode(a, b) \in NodeType
  BY NewRecord
<1>2. node' \in [Nodes -> NodeType] /\ \A m \in Nodes : node'[m] = IF m = n THEN NewNode(a, b) ELSE node[m]
  BY <1>1, OneNode DEF Push, Types, TypeOK
<1>3. IsFiniteSet(alive \union {n})
  BY FS_AddElement DEF Types
<1> QED
  BY <1>2, <1>3 DEF Push, Types, TypeOK

\* An opener's write to its node: only the count, the grant or the mark.
LEMMA OpenerNodes ==
    ASSUME Types, NEW o \in Openers, opener[o].at \notin Empty
    PROVE  /\ opener[o].node \in Nodes
           /\ WriteCount(o) \/ ClearOld(o) \/ MoveGrant(o) \/ MarkNetworkNode(o) =>
                 /\ node' \in [Nodes -> NodeType]
                 /\ \A m \in Nodes : m # opener[o].node => node'[m] = node[m]
           /\ MoveGrant(o) \/ MarkNetworkNode(o) =>
                 /\ node'[opener[o].node].nRefCount = node[opener[o].node].nRefCount
                 /\ node'[opener[o].node].fInbound = node[opener[o].node].fInbound
           /\ MoveGrant(o) =>
                 /\ node'[opener[o].node].fNetworkNode = node[opener[o].node].fNetworkNode
                 /\ node'[opener[o].node].grantOutbound
           /\ MarkNetworkNode(o) =>
                 /\ node'[opener[o].node].fNetworkNode
                 /\ node'[opener[o].node].grantOutbound = node[opener[o].node].grantOutbound
<1> DEFINE x == opener[o].node
<1>1. x \in Nodes /\ node \in [Nodes -> NodeType]
  BY DEF Types, TypeOK, Placed
<1>2. node[x] \in NodeType /\ node[x].nRefCount \in Int
  BY <1>1 DEF NodeType
<1>3. opener[o].read \in Int
  BY DEF Types, TypeOK, OpenerType
<1> HIDE DEF x
<1>4. ASSUME NEW nd \in NodeType, node' = [node EXCEPT ![x] = nd]
      PROVE  /\ node' \in [Nodes -> NodeType] /\ node'[x] = nd
             /\ \A m \in Nodes : m # x => node'[m] = node[m]
  BY <1>1, <1>4
<1>5. ASSUME WriteCount(o)
      PROVE  /\ node' \in [Nodes -> NodeType]
             /\ \A m \in Nodes : m # x => node'[m] = node[m]
  <2> DEFINE count == node[opener[o].node].nRefCount
  <2>1. PICK k \in {opener[o].read + 1} \union ({count} \ {opener[o].read}) :
            node' = [node EXCEPT ![opener[o].node].nRefCount = k]
    BY <1>5, Zenon DEF WriteCount
  <2>2. k \in Int
    <3>1. k = opener[o].read + 1 \/ k = node[x].nRefCount
      BY <2>1 DEF x
    <3> QED
      BY <1>2, <1>3, <3>1
  <2>3. node' = [node EXCEPT ![x] = [node[x] EXCEPT !.nRefCount = k]]
    BY <1>1, <2>1 DEF x
  <2>4. [node[x] EXCEPT !.nRefCount = k] \in NodeType
    BY <1>2, <2>2, CountRecord
  <2> QED
    BY <1>4, <2>3, <2>4
<1>6. ASSUME ClearOld(o)
      PROVE  /\ node' \in [Nodes -> NodeType]
             /\ \A m \in Nodes : m # x => node'[m] = node[m]
  <2>1. node' = [node EXCEPT ![x] = [node[x] EXCEPT !.grantOutbound = FALSE]]
    BY <1>1, <1>6 DEF ClearOld, x
  <2>2. [node[x] EXCEPT !.grantOutbound = FALSE] \in NodeType
    BY <1>2, GrantRecords
  <2> QED
    BY <1>4, <2>1, <2>2
<1>7. ASSUME MoveGrant(o)
      PROVE  /\ node' \in [Nodes -> NodeType]
             /\ \A m \in Nodes : m # x => node'[m] = node[m]
             /\ node'[x].nRefCount = node[x].nRefCount
             /\ node'[x].fInbound = node[x].fInbound
             /\ node'[x].fNetworkNode = node[x].fNetworkNode
             /\ node'[x].grantOutbound
  <2> DEFINE nd == [node[x] EXCEPT !.grantOutbound = TRUE]
  <2>1. node' = [node EXCEPT ![x] = nd]
    BY <1>1, <1>7 DEF MoveGrant, x
  <2>2. /\ nd \in NodeType /\ nd.nRefCount = node[x].nRefCount
        /\ nd.fInbound = node[x].fInbound /\ nd.fNetworkNode = node[x].fNetworkNode
        /\ nd.grantOutbound
    BY <1>2, GrantRecords
  <2> HIDE DEF nd
  <2> QED
    BY <1>4, <2>1, <2>2
<1>8. ASSUME MarkNetworkNode(o)
      PROVE  /\ node' \in [Nodes -> NodeType]
             /\ \A m \in Nodes : m # x => node'[m] = node[m]
             /\ node'[x].nRefCount = node[x].nRefCount
             /\ node'[x].fInbound = node[x].fInbound
             /\ node'[x].fNetworkNode
             /\ node'[x].grantOutbound = node[x].grantOutbound
  <2> DEFINE nd == [node[x] EXCEPT !.fNetworkNode = TRUE]
  <2>1. node' = [node EXCEPT ![x] = nd]
    BY <1>1, <1>8 DEF MarkNetworkNode, x
  <2>2. /\ nd \in NodeType /\ nd.nRefCount = node[x].nRefCount
        /\ nd.fInbound = node[x].fInbound /\ nd.fNetworkNode
        /\ nd.grantOutbound = node[x].grantOutbound
    BY <1>2, MarkRecord
  <2> HIDE DEF nd
  <2> QED
    BY <1>4, <2>1, <2>2
<1> QED
  BY <1>1, <1>5, <1>6, <1>7, <1>8 DEF x

\* The socket thread's writes to the node it removes.
LEMMA RemovalNodes ==
    ASSUME Types, Removing, ClearGrant \/ CloseNode
    PROVE  /\ socket.node \in alive /\ socket.node \in Nodes
           /\ node' \in [Nodes -> NodeType]
           /\ \A m \in Nodes : m # socket.node => node'[m] = node[m]
           /\ node'[socket.node].fInbound = node[socket.node].fInbound
           /\ node'[socket.node].fNetworkNode = node[socket.node].fNetworkNode
           /\ ClearGrant =>
                 /\ node'[socket.node].nRefCount = node[socket.node].nRefCount
                 /\ ~ node'[socket.node].grantOutbound
           /\ CloseNode =>
                 /\ node'[socket.node].nRefCount =
                       IF node[socket.node].fNetworkNode \/ node[socket.node].fInbound
                       THEN node[socket.node].nRefCount - 1 ELSE node[socket.node].nRefCount
                 /\ node'[socket.node].grantOutbound = node[socket.node].grantOutbound
<1> DEFINE x == socket.node
<1>1. x \in alive /\ x \in Nodes /\ node \in [Nodes -> NodeType]
  BY DEF Types, TypeOK
<1>2. node[x] \in NodeType
  BY <1>1
<1> HIDE DEF x
<1>3. CASE ClearGrant
  <2> DEFINE nd == [node[x] EXCEPT !.grantOutbound = FALSE]
  <2>1. node' = [node EXCEPT ![x] = nd]
    BY <1>1, <1>3 DEF ClearGrant, x
  <2>2. /\ nd \in NodeType /\ nd.nRefCount = node[x].nRefCount
        /\ nd.fInbound = node[x].fInbound /\ nd.fNetworkNode = node[x].fNetworkNode
        /\ ~ nd.grantOutbound
    BY <1>2, GrantRecords
  <2>3. ~ CloseNode
    BY <1>3 DEF ClearGrant, CloseNode
  <2> HIDE DEF nd
  <2> QED
    BY <1>1, <2>1, <2>2, <2>3 DEF x
<1>4. CASE CloseNode
  <2> DEFINE nd == Removed(node[x])
  <2>1. node' = [node EXCEPT ![x] = nd]
    BY <1>1, <1>4 DEF CloseNode, x
  <2>2. /\ nd \in NodeType
        /\ nd.nRefCount = IF node[x].fNetworkNode \/ node[x].fInbound
                          THEN node[x].nRefCount - 1 ELSE node[x].nRefCount
        /\ nd.fInbound = node[x].fInbound /\ nd.fNetworkNode = node[x].fNetworkNode
        /\ nd.grantOutbound = node[x].grantOutbound
    BY <1>2, RemovedRecord
  <2>3. ~ ClearGrant
    BY <1>4 DEF ClearGrant, CloseNode
  <2> HIDE DEF nd
  <2> QED
    BY <1>1, <2>1, <2>2, <2>3 DEF x
<1> QED
  BY <1>3, <1>4

LEMMA DeletedNodes ==
    ASSUME Types, DeleteNodes
    PROVE  /\ node' \in [Nodes -> NodeType] /\ Deletable \subseteq vNodesDisconnected
           /\ \A m \in Nodes : m \notin Deletable => node'[m] = node[m]
<1>1. node \in [Nodes -> NodeType]
  BY DEF Types, TypeOK
<1>2. \A m \in Nodes : Freed(node[m]) \in NodeType
  BY <1>1, DefaultRecords
<1> QED
  BY <1>1, <1>2 DEF DeleteNodes, Deleted, Deletable

\* The steps that touch flags of nodes only, or no node.
Quiet ==
    \/ \E o \in Openers : \/ \E a \in Addrs : OpenNetworkConnection(o, a)
                          \/ FindExisting(o) \/ FindNone(o) \/ ReadCount(o)
                          \/ ConnectFails(o) \/ TestGrant(o) \/ PostOld(o)
    \/ DisconnectNodes \/ \E n \in Nodes : KeepNode(n) \/ RemoveNode(n) \/ ServeCloses(n)
    \/ PostGrant \/ ScanDone \/ AcceptNone
    \/ ChooseSync \/ StartSync \/ \E n \in Nodes : Poll(n)

LEMMA QuietNodes ==
    ASSUME Types, Quiet
    PROVE  /\ node' \in [Nodes -> NodeType]
           /\ \A m \in Nodes : Same(node[m], node'[m])
           /\ pnodeSync' \in Nodes \union {NoNode}
<1>1. /\ node \in [Nodes -> NodeType] /\ pnodeSync \in Nodes \union {NoNode}
      /\ poll.sync \in Nodes \union {NoNode}
  BY DEF Types, TypeOK, PollType
<1>2. ASSUME UNCHANGED <<node, pnodeSync>>
      PROVE  /\ node' \in [Nodes -> NodeType]
             /\ \A m \in Nodes : Same(node[m], node'[m])
             /\ pnodeSync' \in Nodes \union {NoNode}
  BY <1>1, <1>2 DEF Same
<1>3. ASSUME NEW n \in Nodes, ServeCloses(n) \/ PollCloses(n)
      PROVE  /\ node' \in [Nodes -> NodeType]
             /\ \A m \in Nodes : Same(node[m], node'[m])
             /\ pnodeSync' \in Nodes \union {NoNode}
  BY <1>1, <1>3, CloseFlag DEF ServeCloses, PollCloses
<1>4. ASSUME StartSync
      PROVE  /\ node' \in [Nodes -> NodeType]
             /\ \A m \in Nodes : Same(node[m], node'[m])
             /\ pnodeSync' \in Nodes \union {NoNode}
  <2> DEFINE s == poll.sync
             nd == [node[s] EXCEPT !.fStartSync = TRUE]
  <2>1. node' = [node EXCEPT ![s] = nd]
    BY <1>1, <1>4 DEF StartSync
  <2>2. s \in Nodes => nd \in NodeType /\ Same(node[s], nd)
    BY <1>1, FlagRecords
  <2>3. pnodeSync' \in Nodes \union {NoNode}
    BY <1>1, <1>4 DEF StartSync
  <2> HIDE DEF s, nd
  <2> QED
    BY <1>1, <2>1, <2>2, <2>3, OneFlag
<1>5. ASSUME NEW n \in Nodes, PollConnects(n)
      PROVE  /\ node' \in [Nodes -> NodeType]
             /\ \A m \in Nodes : Same(node[m], node'[m])
             /\ pnodeSync' \in Nodes \union {NoNode}
  <2> DEFINE nd == [node[n] EXCEPT !.fSuccessfullyConnected = TRUE]
  <2>1. node' = [node EXCEPT ![n] = nd] /\ pnodeSync' = pnodeSync
    BY <1>1, <1>5 DEF PollConnects
  <2>2. nd \in NodeType /\ Same(node[n], nd)
    BY <1>1, FlagRecords
  <2> HIDE DEF nd
  <2> QED
    BY <1>1, <2>1, <2>2, OneFlag
<1>6. ASSUME NEW n \in Nodes, PollMarks(n)
      PROVE  /\ node' \in [Nodes -> NodeType]
             /\ \A m \in Nodes : Same(node[m], node'[m])
             /\ pnodeSync' \in Nodes \union {NoNode}
  <2> DEFINE nd == [node[n] EXCEPT !.fDisconnect = TRUE]
  <2>1. node' = [node EXCEPT ![n] = nd] /\ pnodeSync' = pnodeSync
    BY <1>1, <1>6 DEF PollMarks
  <2>2. nd \in NodeType /\ Same(node[n], nd)
    BY <1>1, FlagRecords
  <2> HIDE DEF nd
  <2> QED
    BY <1>1, <2>1, <2>2, OneFlag
<1>7. ASSUME NEW n \in Nodes, Poll(n)
      PROVE  /\ node' \in [Nodes -> NodeType]
             /\ \A m \in Nodes : Same(node[m], node'[m])
             /\ pnodeSync' \in Nodes \union {NoNode}
  BY <1>2, <1>3, <1>5, <1>6, <1>7 DEF Poll, PollQuiet
<1>8. ASSUME NEW o \in Openers,
             \/ \E a \in Addrs : OpenNetworkConnection(o, a)
             \/ FindExisting(o) \/ FindNone(o) \/ ReadCount(o)
             \/ ConnectFails(o) \/ TestGrant(o) \/ PostOld(o)
      PROVE  UNCHANGED <<node, pnodeSync>>
  BY <1>8 DEF OpenNetworkConnection, FindExisting, FindNone, ReadCount,
              ConnectFails, TestGrant, PostOld
<1>9. ASSUME NEW n \in Nodes, KeepNode(n) \/ RemoveNode(n) PROVE UNCHANGED <<node, pnodeSync>>
  BY <1>9 DEF KeepNode, RemoveNode
<1>10. DisconnectNodes \/ PostGrant \/ ScanDone \/ AcceptNone \/ ChooseSync
           => UNCHANGED <<node, pnodeSync>>
  BY DEF DisconnectNodes, PostGrant, ScanDone, AcceptNone, ChooseSync
<1> QED
  BY <1>2, <1>3, <1>4, <1>7, <1>8, <1>9, <1>10 DEF Quiet

-----------------------------------------------------------------------------
(* The types are kept.                                                       *)

LEMMA OpenerTypes ==
    ASSUME Types, NEW o \in Openers, NEW at, NEW n, NEW g, Moves(o, at, n, g),
           at \notin Empty => n \in Nodes
    PROVE  opener' \in [Openers -> OpenerType] /\ Placed'
  BY DEF Moves, Types, Placed

LEMMA OpenTypes ==
    ASSUME Types, NEW o \in Openers, Open(o)
    PROVE  Types'
<1>1. /\ TypeOK /\ Placed /\ IsFiniteSet(alive) /\ vNodes \subseteq Nodes
      /\ opener[o].at \notin Empty => opener[o].node \in Nodes
  BY DEF Types, TypeOK, Placed
<1>2. ASSUME UNCHANGED <<vNodes, vNodesDisconnected, alive, socket, poll, pnodeSync>>,
             node' \in [Nodes -> NodeType], semOutbound' \in Nat, handed' \in Nat,
             opener' \in [Openers -> OpenerType], Placed'
      PROVE  Types'
  BY <1>1, <1>2 DEF Types, TypeOK, Removing
<1>3. semOutbound \in Nat /\ handed \in Nat
  BY <1>1 DEF TypeOK
<1>4. ASSUME NEW a \in Addrs, OpenNetworkConnection(o, a) PROVE Types'
  <2>1. opener' \in [Openers -> OpenerType] /\ Placed'
    BY <1>4, OpenerMoves, OpenerTypes DEF Empty
  <2>2. node' \in [Nodes -> NodeType]
    BY <1>4, QuietNodes DEF Quiet
  <2>3. /\ semOutbound' = semOutbound - 1 /\ semOutbound > 0
        /\ UNCHANGED <<vNodes, vNodesDisconnected, alive, handed, socket, poll, pnodeSync>>
    BY <1>4 DEF OpenNetworkConnection
  <2> QED
    BY <1>2, <1>3, <2>1, <2>2, <2>3
<1>5. CASE FindExisting(o)
  <2>1. opener' \in [Openers -> OpenerType] /\ Placed'
    BY <1>1, <1>5, OpenerMoves, OpenerTypes
  <2>2. node' \in [Nodes -> NodeType]
    BY <1>5, QuietNodes DEF Quiet
  <2>3. /\ handed' = handed + 1
        /\ UNCHANGED <<vNodes, vNodesDisconnected, alive, semOutbound, socket, poll, pnodeSync>>
    BY <1>5 DEF FindExisting
  <2> QED
    BY <1>2, <1>3, <2>1, <2>2, <2>3
<1>6. CASE FindNone(o) \/ ReadCount(o) \/ TestGrant(o)
  <2>1. opener' \in [Openers -> OpenerType] /\ Placed'
    <3>1. FindNone(o) => Moves(o, "connecting", opener[o].node, opener[o].grant)
      BY OpenerMoves
    <3>2. ReadCount(o) => opener[o].at \notin Empty /\ Moves(o, "adding", opener[o].node, opener[o].grant)
      BY OpenerMoves DEF ReadCount, Empty
    <3>3. TestGrant(o) => /\ opener[o].at \notin Empty
                          /\ Moves(o, IF node[opener[o].node].grantOutbound THEN "posting" ELSE "moving",
                                   opener[o].node, opener[o].grant)
      BY OpenerMoves DEF TestGrant, Empty
    <3> QED
      BY <1>1, <1>6, <3>1, <3>2, <3>3, OpenerTypes DEF Empty
  <2>2. node' \in [Nodes -> NodeType]
    BY <1>6, QuietNodes DEF Quiet
  <2>3. UNCHANGED <<vNodes, vNodesDisconnected, alive, semOutbound, handed, socket, poll, pnodeSync>>
    BY <1>6 DEF FindNone, ReadCount, TestGrant
  <2> QED
    BY <1>2, <1>3, <2>1, <2>2, <2>3
<1>7. CASE PostOld(o) \/ ConnectFails(o)
  <2>1. opener' \in [Openers -> OpenerType] /\ Placed'
    <3>1. PostOld(o) => opener[o].at \notin Empty /\ Moves(o, "clearing", opener[o].node, opener[o].grant)
      BY OpenerMoves DEF PostOld, Empty
    <3>2. ConnectFails(o) => Moves(o, "idle", NoNode, FALSE)
      BY OpenerMoves
    <3> QED
      BY <1>1, <1>7, <3>1, <3>2, OpenerTypes DEF Empty
  <2>2. node' \in [Nodes -> NodeType]
    BY <1>7, QuietNodes DEF Quiet
  <2>3. /\ semOutbound' = semOutbound + 1
        /\ UNCHANGED <<vNodes, vNodesDisconnected, alive, handed, socket, poll, pnodeSync>>
    BY <1>7 DEF PostOld, ConnectFails
  <2> QED
    BY <1>2, <1>3, <2>1, <2>2, <2>3
<1>8. CASE WriteCount(o) \/ ClearOld(o) \/ MoveGrant(o) \/ MarkNetworkNode(o)
  <2>1. opener[o].at \notin Empty
    BY <1>8 DEF WriteCount, ClearOld, MoveGrant, MarkNetworkNode, Empty
  <2>2. opener' \in [Openers -> OpenerType] /\ Placed'
    <3>1. /\ WriteCount(o) => Moves(o, "connected", opener[o].node, opener[o].grant)
          /\ ClearOld(o) => Moves(o, "moving", opener[o].node, opener[o].grant)
          /\ MoveGrant(o) => Moves(o, "granted", opener[o].node, FALSE)
          /\ MarkNetworkNode(o) => Moves(o, "idle", NoNode, FALSE)
      BY OpenerMoves
    <3> QED
      BY <1>1, <1>8, <2>1, <3>1, OpenerTypes DEF Empty
  <2>3. node' \in [Nodes -> NodeType]
    BY <1>8, <2>1, OpenerNodes
  <2>4. UNCHANGED <<vNodes, vNodesDisconnected, alive, semOutbound, handed, socket, poll, pnodeSync>>
    BY <1>8 DEF WriteCount, ClearOld, MoveGrant, MarkNetworkNode
  <2> QED
    BY <1>2, <1>3, <2>2, <2>3, <2>4
<1>9. ASSUME NEW n \in Nodes, Connect(o, n) PROVE Types'
  <2>1. opener' \in [Openers -> OpenerType] /\ Placed'
    BY <1>9, OpenerMoves, OpenerTypes
  <2>2. opener[o].addr \in Addrs
    BY <1>1 DEF TypeOK, OpenerType
  <2>3. /\ Push(n, opener[o].addr, FALSE)
        /\ UNCHANGED <<vNodesDisconnected, semOutbound, handed, socket, poll, pnodeSync>>
    BY <1>9 DEF Connect
  <2>4. /\ node' \in [Nodes -> NodeType] /\ vNodes' = vNodes \union {n}
        /\ alive' = alive \union {n} /\ vNodes' \subseteq alive' /\ alive' \subseteq Nodes
        /\ IsFiniteSet(alive') /\ n \notin alive /\ ~ Locked
    BY <2>2, <2>3, PushNodes
  <2> QED
    BY <1>1, <2>1, <2>3, <2>4 DEF Types, TypeOK, Removing, Locked
<1> QED
  BY <1>4, <1>5, <1>6, <1>7, <1>8, <1>9 DEF Open

LEMMA OneTryTypes ==
    ASSUME Types, NEW n \in Nodes, NEW a \in Addrs, AddNodeOneTry(n, a)
    PROVE  Types'
<1>1. /\ Push(n, a, FALSE)
      /\ UNCHANGED <<vNodesDisconnected, semOutbound, handed, opener, socket, poll, pnodeSync>>
  BY DEF AddNodeOneTry, threads
<1>2. /\ node' \in [Nodes -> NodeType] /\ vNodes' = vNodes \union {n}
      /\ alive' = alive \union {n} /\ vNodes' \subseteq alive' /\ alive' \subseteq Nodes
      /\ IsFiniteSet(alive') /\ n \notin alive /\ ~ Locked
  BY <1>1, PushNodes
<1> QED
  BY <1>1, <1>2 DEF Types, TypeOK, Placed, Removing, Locked

LEMMA SocketTypes ==
    ASSUME Types, SocketThread
    PROVE  Types'
<1>1. /\ TypeOK /\ Placed /\ IsFiniteSet(alive) /\ socket \in SocketType
      /\ vNodes \subseteq alive /\ alive \subseteq Nodes
  BY DEF Types, TypeOK
<1>2. CASE DisconnectNodes \/ ScanDone \/ PostGrant \/ AcceptNone
  <2>1. node' = node /\ pnodeSync' = pnodeSync /\ semOutbound' \in Nat
    BY <1>1, <1>2 DEF TypeOK, DisconnectNodes, ScanDone, PostGrant, AcceptNone
  <2>2. /\ UNCHANGED <<vNodes, vNodesDisconnected, alive, opener, poll, handed>>
        /\ socket' \in SocketType
    BY <1>1, <1>2 DEF DisconnectNodes, ScanDone, PostGrant, AcceptNone, SocketType
  <2>3. socket'.left \subseteq vNodes
    BY <1>1, <1>2 DEF TypeOK, DisconnectNodes, ScanDone, PostGrant, AcceptNone, SocketType
  <2>4. socket'.at \in {"posting", "clearing", "closing"} => Removing /\ socket'.node = socket.node
    BY <1>1, <1>2 DEF DisconnectNodes, ScanDone, PostGrant, AcceptNone, SocketType, Removing
  <2> QED
    BY <1>1, <2>1, <2>2, <2>3, <2>4 DEF Types, TypeOK, Placed, Removing
<1>3. ASSUME NEW n \in Nodes, KeepNode(n) PROVE Types'
  <2>1. /\ UNCHANGED <<vNodes, vNodesDisconnected, alive, node, semOutbound, opener, poll, handed, pnodeSync>>
        /\ socket' \in SocketType /\ socket'.left \subseteq socket.left /\ socket'.at = "scan"
    BY <1>1, <1>3 DEF KeepNode, SocketType
  <2> QED
    BY <1>1, <2>1 DEF Types, TypeOK, Placed, Removing
<1>4. ASSUME NEW n \in Nodes, RemoveNode(n) PROVE Types'
  <2>1. /\ UNCHANGED <<vNodesDisconnected, alive, node, semOutbound, opener, poll, handed, pnodeSync>>
        /\ vNodes' = vNodes \ {n} /\ n \in socket.left
        /\ socket' \in SocketType /\ socket'.left = socket.left \ {n} /\ socket'.node = n
    BY <1>1, <1>4 DEF RemoveNode, SocketType
  <2>2. n \in vNodes /\ n \in alive /\ n \notin vNodesDisconnected /\ socket.left \subseteq vNodes
    BY <1>1, <2>1 DEF TypeOK
  <2> QED
    BY <1>1, <2>1, <2>2 DEF Types, TypeOK, Placed, Removing
<1>5. CASE ClearGrant \/ CloseNode
  <2>1. Removing
    BY <1>5 DEF ClearGrant, CloseNode, Removing
  <2>2. node' \in [Nodes -> NodeType] /\ socket.node \in alive \ (vNodes \union vNodesDisconnected)
    BY <1>1, <1>5, <2>1, RemovalNodes DEF TypeOK
  <2>3. CASE ClearGrant
    <3>1. /\ UNCHANGED <<vNodes, vNodesDisconnected, alive, semOutbound, opener, poll, handed, pnodeSync>>
          /\ socket' \in SocketType /\ socket'.left = socket.left /\ socket'.node = socket.node
      BY <1>1, <2>3 DEF ClearGrant, SocketType
    <3> QED
      BY <1>1, <2>2, <3>1 DEF Types, TypeOK, Placed, Removing
  <2>4. CASE CloseNode
    <3>1. /\ UNCHANGED <<vNodes, alive, semOutbound, opener, poll, handed>>
          /\ vNodesDisconnected' = vNodesDisconnected \union {socket.node}
          /\ socket' \in SocketType /\ socket'.left = socket.left /\ socket'.at = "scan"
      BY <1>1, <2>4 DEF CloseNode, SocketType
    <3>2. pnodeSync' \in Nodes \union {NoNode}
      BY <1>1, <2>4 DEF CloseNode, TypeOK
    <3> QED
      BY <1>1, <2>2, <3>1, <3>2 DEF Types, TypeOK, Placed, Removing
  <2> QED
    BY <1>5, <2>3, <2>4
<1>6. CASE DeleteNodes
  <2>1. node' \in [Nodes -> NodeType] /\ Deletable \subseteq vNodesDisconnected
    BY <1>6, DeletedNodes
  <2>2. /\ UNCHANGED <<vNodes, opener, poll, handed, pnodeSync>>
        /\ vNodesDisconnected' = vNodesDisconnected \ Deletable
        /\ alive' = alive \ Deletable
        /\ semOutbound' = semOutbound + Cardinality({n \in Deletable : node[n].grantOutbound})
    BY <1>6 DEF DeleteNodes
  <2>3. socket' \in SocketType /\ socket'.left = socket.left /\ socket'.at = "accept"
    BY <1>1, <1>6 DEF DeleteNodes, SocketType
  <2>4. {n \in Deletable : node[n].grantOutbound} \subseteq alive /\ alive' \subseteq alive
    BY <1>1, <2>1, <2>2 DEF TypeOK
  <2>5. /\ Cardinality({n \in Deletable : node[n].grantOutbound}) \in Nat
        /\ IsFiniteSet(alive')
    BY <1>1, <2>4, FS_Subset, FS_CardinalityType
  <2>6. semOutbound' \in Nat
    BY <1>1, <2>2, <2>5 DEF TypeOK
  <2> QED
    BY <1>1, <2>1, <2>2, <2>3, <2>5, <2>6 DEF Types, TypeOK, Placed, Removing
<1>7. ASSUME NEW n \in Nodes, NEW a \in Addrs, AcceptInbound(n, a) PROVE Types'
  <2>1. /\ Push(n, a, TRUE)
        /\ UNCHANGED <<vNodesDisconnected, semOutbound, handed, opener, poll, pnodeSync>>
    BY <1>7 DEF AcceptInbound
  <2>2. /\ node' \in [Nodes -> NodeType] /\ vNodes' = vNodes \union {n}
        /\ alive' = alive \union {n} /\ vNodes' \subseteq alive' /\ alive' \subseteq Nodes
        /\ IsFiniteSet(alive') /\ n \notin alive
    BY <2>1, PushNodes
  <2>3. socket' \in SocketType /\ socket'.left = socket.left /\ socket'.at = "copy"
    BY <1>1, <1>7 DEF AcceptInbound, SocketType
  <2> QED
    BY <1>1, <2>1, <2>2, <2>3 DEF Types, TypeOK, Placed, Removing
<1>8. CASE CopyForService \/ ServiceDone
  <2>1. node' = AddRefs(vNodes) \/ node' = ReleaseRefs(socket.copy)
    BY <1>8 DEF CopyForService, ServiceDone
  <2>2. node' \in [Nodes -> NodeType]
    <3>1. node \in [Nodes -> NodeType]
      BY <1>1 DEF TypeOK
    <3>2. CASE node' = AddRefs(vNodes)
      <4>1. node' = IF 1 = 1 THEN AddRefs(vNodes) ELSE ReleaseRefs(vNodes)
        BY <3>2
      <4> QED
        BY <3>1, <4>1, RefsChange
    <3>3. CASE node' = ReleaseRefs(socket.copy)
      <4>1. node' = IF -1 = 1 THEN AddRefs(socket.copy) ELSE ReleaseRefs(socket.copy)
        BY <3>3
      <4> QED
        BY <3>1, <4>1, RefsChange
    <3> QED
      BY <2>1, <3>2, <3>3
  <2>3. /\ UNCHANGED <<vNodes, vNodesDisconnected, alive, semOutbound, handed, opener, poll, pnodeSync>>
        /\ socket' \in SocketType /\ socket'.left = socket.left
        /\ socket'.at \in {"serve", "disconnect"}
    BY <1>1, <1>8 DEF CopyForService, ServiceDone, SocketType
  <2> QED
    BY <1>1, <2>2, <2>3 DEF Types, TypeOK, Placed, Removing
<1>9. ASSUME NEW n \in Nodes, ServeCloses(n) PROVE Types'
  <2>1. node' \in [Nodes -> NodeType] /\ pnodeSync' \in Nodes \union {NoNode}
    BY <1>9, QuietNodes DEF Quiet
  <2>2. UNCHANGED <<vNodes, vNodesDisconnected, alive, semOutbound, handed, opener, socket, poll>>
    BY <1>9 DEF ServeCloses, threads
  <2> QED
    BY <1>1, <2>1, <2>2 DEF Types, TypeOK, Placed, Removing
<1> QED
  BY <1>2, <1>3, <1>4, <1>5, <1>6, <1>7, <1>8, <1>9 DEF SocketThread, Removal

LEMMA MessageTypes ==
    ASSUME Types, MessageThread
    PROVE  Types'
<1>1. /\ TypeOK /\ Placed /\ IsFiniteSet(alive) /\ poll \in PollType
      /\ vNodes \subseteq Nodes /\ node \in [Nodes -> NodeType]
  BY DEF Types, TypeOK
<1>2. ASSUME UNCHANGED <<vNodes, vNodesDisconnected, alive, semOutbound, handed, opener, socket>>,
             node' \in [Nodes -> NodeType], poll' \in PollType,
             pnodeSync' \in Nodes \union {NoNode}
      PROVE  Types'
  BY <1>1, <1>2 DEF Types, TypeOK, Placed, Removing
<1>3. CASE CopyForPoll
  <2>1. node' = IF 1 = 1 THEN AddRefs(vNodes) ELSE ReleaseRefs(vNodes)
    BY <1>3 DEF CopyForPoll
  <2>2. node' \in [Nodes -> NodeType]
    BY <1>1, <2>1, RefsChange
  <2>3. poll' \in PollType
    BY <1>1, <1>3 DEF CopyForPoll, PollType
  <2> QED
    BY <1>1, <1>2, <1>3, <2>2, <2>3 DEF CopyForPoll, TypeOK
<1>4. CASE PollDone
  <2>1. node' = IF -1 = 1 THEN AddRefs(poll.copy) ELSE ReleaseRefs(poll.copy)
    BY <1>4 DEF PollDone
  <2>2. node' \in [Nodes -> NodeType]
    BY <1>1, <2>1, RefsChange
  <2>3. poll' \in PollType
    BY <1>1, <1>4 DEF PollDone, PollType
  <2> QED
    BY <1>1, <1>2, <1>4, <2>2, <2>3 DEF PollDone, TypeOK
<1>5. CASE ChooseSync
  <2>1. Candidates \subseteq Nodes
    BY <1>1 DEF Candidates, PollType
  <2>2. poll' \in PollType
    <3>1. CASE Candidates = {}
      BY <1>1, <1>5, <3>1 DEF ChooseSync, PollType
    <3>2. CASE Candidates # {}
      <4>1. PICK n \in Candidates : poll' = [poll EXCEPT !.at = "chosen", !.sync = n]
        BY <1>5, <3>2 DEF ChooseSync
      <4> QED
        BY <1>1, <2>1, <4>1 DEF PollType
    <3> QED
      BY <3>1, <3>2
  <2> QED
    BY <1>1, <1>2, <1>5, <2>2 DEF ChooseSync, TypeOK
<1>6. CASE StartSync
  <2>1. node' \in [Nodes -> NodeType] /\ pnodeSync' \in Nodes \union {NoNode}
    BY <1>6, QuietNodes DEF Quiet
  <2>2. poll' \in PollType
    BY <1>1, <1>6 DEF StartSync, PollType
  <2> QED
    BY <1>2, <1>6, <2>1, <2>2 DEF StartSync
<1>7. ASSUME NEW n \in Nodes, Poll(n) PROVE Types'
  <2>1. node' \in [Nodes -> NodeType] /\ pnodeSync' \in Nodes \union {NoNode}
    BY <1>7, QuietNodes DEF Quiet
  <2>2. /\ UNCHANGED <<vNodes, vNodesDisconnected, alive, semOutbound, handed, opener, socket>>
        /\ poll' = Polled(n)
    BY <1>7 DEF Poll, PollQuiet, PollConnects, PollCloses, PollMarks
  <2>3. poll' \in PollType
    BY <1>1, <2>2 DEF Polled, PollType
  <2> QED
    BY <1>2, <2>1, <2>2, <2>3
<1> QED
  BY <1>3, <1>4, <1>5, <1>6, <1>7 DEF MessageThread

LEMMA NextTypes ==
    ASSUME Types, [Next]_vars
    PROVE  Types'
<1>1. CASE UNCHANGED vars
  BY <1>1 DEF vars, threads, Types, TypeOK, Placed, Removing
<1> QED
  BY <1>1, OpenTypes, OneTryTypes, SocketTypes, MessageTypes DEF Next

LEMMA TypesAlways == Spec => []Types
<1>1. Types /\ [Next]_vars => Types'
  BY NextTypes
<1> QED
  BY InitTypes, <1>1, PTL DEF Spec

\* The two lists name allocated nodes and no node twice, while the scan works
\* on a copy of vNodes, a node it removes is in neither, and nodes are opened,
\* accepted, handed out again and deleted.
THEOREM NodeTypes == Spec => []TypeOK
<1>1. Types => TypeOK
  BY DEF Types
<1> QED
  BY TypesAlways, <1>1, PTL

-----------------------------------------------------------------------------
(* The invariant, before ConnectNode hands out a node it found.              *)

\* An opener has a grant from the semaphore's wait up to MoveTo, and a node
\* from Push up to its mark.
Busy == {"checked", "connecting", "connected", "moving"}
InHand == {"connected", "moving", "granted"}

\* The node is the opener's own, and no loop has a grant or a mark of it yet.
Hands ==
    /\ \A o \in Openers : opener[o].at \notin {"found", "adding", "posting", "clearing"}
    /\ \A o \in Openers : opener[o].grant <=> opener[o].at \in Busy
    /\ \A o \in Openers : opener[o].at \in InHand =>
           /\ opener[o].node \in alive
           /\ ~ node[opener[o].node].fInbound /\ ~ node[opener[o].node].fNetworkNode
    /\ \A o \in Openers : opener[o].at \in {"connected", "moving"} =>
           ~ node[opener[o].node].grantOutbound
    /\ \A o, p \in Openers :
           opener[o].at \in InHand /\ opener[p].at \in InHand
               /\ opener[o].node = opener[p].node => o = p

\* The socket thread releases a grant that is there.
Releasing == socket.at \in {"posting", "clearing"} => node[socket.node].grantOutbound

Grants == {o \in Openers : opener[o].grant}

Permits ==
    /\ IsFiniteSet(Grants) /\ IsFiniteSet(Held)
    /\ semOutbound \in Nat
    /\ PermitsAccounted

\* A connected node that is marked, or whose opener is about to, has a grant.
Paid ==
    /\ \A n \in vNodes : node[n].fNetworkNode => node[n].grantOutbound
    /\ \A o \in Openers : opener[o].at = "granted" /\ opener[o].node \in vNodes =>
           node[opener[o].node].grantOutbound

\* The loops' references to a node, and what its count is beyond them.
Refs(n) == (IF n \in socket.copy THEN 1 ELSE 0) + (IF n \in poll.copy THEN 1 ELSE 0)
Own(n) == node[n].nRefCount - Refs(n)

\* CloseNode is still to release a reference of the nodes that are connected.
Listed(n) == n \in vNodes \/ (Removing /\ n = socket.node)

Counted ==
    \A n \in alive :
        /\ Own(n) \in {0, 1}
        /\ Listed(n) => Own(n) = 1
        /\ ~ node[n].fInbound /\ ~ node[n].fNetworkNode => Own(n) = 1

Copies ==
    /\ socket.copy \subseteq alive /\ poll.copy \subseteq alive
    /\ socket.at # "serve" => socket.copy = {}
    /\ poll.at = "idle" => poll.copy = {}

Safe == Hands /\ Releasing /\ Permits /\ Paid /\ Counted /\ Copies

Inv == Types /\ (handed = 0 => Safe)

LEMMA InitSafe == Init => Safe
<1> SUFFICES ASSUME Init PROVE Safe
  OBVIOUS
<1> USE DEF Init
<1>1. Hands /\ Grants = {}
  BY DefaultRecords DEF Hands, Busy, InHand, Grants
<1>2. Held = {}
  BY DEF Held
<1>3. IsFiniteSet({}) /\ Cardinality({}) = 0
  BY FS_EmptySet
<1>4. Permits
  BY <1>1, <1>2, <1>3, NetAssumption DEF Permits, PermitsAccounted, Grants
<1> QED
  BY <1>1, <1>4 DEF Safe, Releasing, Paid, Counted, Copies

-----------------------------------------------------------------------------
(* What each part of the invariant rests on.                                 *)

LEMMA HeldMeaning ==
    /\ Hands => Held = {n \in alive : node[n].grantOutbound
                                        /\ ~ (socket.at = "clearing" /\ n = socket.node)}
    /\ Hands' => Held' = {n \in alive' : node'[n].grantOutbound
                                        /\ ~ (socket'.at = "clearing" /\ n = socket'.node)}
<1>1. Hands => Posted = IF socket.at = "clearing" THEN {socket.node} ELSE {}
  BY DEF Hands, Posted
<1>2. Hands' => Posted' = IF socket'.at = "clearing" THEN {socket'.node} ELSE {}
  BY DEF Hands, Posted
<1>3. Hands => Held = {n \in alive : node[n].grantOutbound
                                        /\ ~ (socket.at = "clearing" /\ n = socket.node)}
  BY <1>1 DEF Held
<1>4. Hands' => Held' = {n \in alive' : node'[n].grantOutbound
                                        /\ ~ (socket'.at = "clearing" /\ n = socket'.node)}
  BY <1>2 DEF Held
<1> QED
  BY <1>3, <1>4

LEMMA HandsKept ==
    ASSUME Hands, opener' = opener,
           \A n \in alive : ~ node[n].fInbound /\ ~ node[n].fNetworkNode =>
               /\ n \in alive' /\ ~ node'[n].fInbound /\ ~ node'[n].fNetworkNode
               /\ node'[n].grantOutbound => node[n].grantOutbound
    PROVE  Hands' /\ Grants' = Grants
<1>1. Hands'
  BY DEF Hands, InHand
<1> QED
  BY <1>1 DEF Grants

LEMMA PaidKept ==
    ASSUME Paid,
           \A n \in vNodes' :
               /\ node'[n].fNetworkNode => n \in vNodes /\ node[n].fNetworkNode
               /\ n \in vNodes => node'[n].grantOutbound = node[n].grantOutbound,
           \A o \in Openers : opener'[o].at = "granted" /\ opener'[o].node \in vNodes' =>
               /\ opener[o].at = "granted" /\ opener[o].node = opener'[o].node
               /\ opener[o].node \in vNodes
    PROVE  Paid'
  BY DEF Paid

LEMMA CountedKept ==
    ASSUME Counted,
           \A n \in alive' :
               /\ n \in alive /\ Own(n)' = Own(n)
               /\ Listed(n)' => Listed(n)
               /\ ~ node'[n].fInbound /\ ~ node'[n].fNetworkNode =>
                      ~ node[n].fInbound /\ ~ node[n].fNetworkNode
    PROVE  Counted'
  BY DEF Counted

\* A step that leaves every grant where it is.
LEMMA SamePermits ==
    ASSUME Permits, Held' = Held, Grants' = Grants, semOutbound' = semOutbound
    PROVE  Permits'
  BY DEF Permits, PermitsAccounted, Grants

\* A step that returns the grants of the nodes in gone.
LEMMA ReturnedPermits ==
    ASSUME Permits, NEW gone, gone \subseteq Held, Held' = Held \ gone,
           Grants' = Grants, semOutbound' = semOutbound + Cardinality(gone)
    PROVE  Permits'
<1>1. IsFiniteSet(Held) /\ IsFiniteSet(Grants)
  BY DEF Permits
<1>2. IsFiniteSet(gone)
  BY <1>1, FS_Subset
<1>3. Held \cap gone = gone
  OBVIOUS
<1>4. IsFiniteSet(Held') /\ Cardinality(Held') = Cardinality(Held) - Cardinality(gone)
  BY <1>1, <1>3, FS_Difference
<1>5. /\ Cardinality(gone) \in Nat /\ Cardinality(Held) \in Nat
      /\ Cardinality(Grants) \in Nat /\ semOutbound \in Nat
      /\ semOutbound + Cardinality(Grants) + Cardinality(Held) = MaxOutbound
  BY <1>1, <1>2, FS_CardinalityType DEF Permits, PermitsAccounted, Grants
<1>6. /\ semOutbound' \in Nat
      /\ semOutbound' + Cardinality(Grants') + Cardinality(Held') = MaxOutbound
  BY <1>4, <1>5
<1> QED
  BY <1>1, <1>4, <1>6 DEF Permits, PermitsAccounted, Grants

\* A step that takes a permit for an opener.
LEMMA TakenPermit ==
    ASSUME Permits, NEW o, o \notin Grants, Grants' = Grants \cup {o},
           Held' = Held, semOutbound > 0, semOutbound' = semOutbound - 1
    PROVE  Permits'
<1>1. IsFiniteSet(Held) /\ IsFiniteSet(Grants)
  BY DEF Permits
<1>2. IsFiniteSet(Grants') /\ Cardinality(Grants') = Cardinality(Grants) + 1
  BY <1>1, FS_AddElement
<1>3. /\ Cardinality(Held) \in Nat /\ Cardinality(Grants) \in Nat
      /\ semOutbound \in Nat
      /\ semOutbound + Cardinality(Grants) + Cardinality(Held) = MaxOutbound
  BY <1>1, FS_CardinalityType DEF Permits, PermitsAccounted, Grants
<1>4. /\ semOutbound' \in Nat
      /\ semOutbound' + Cardinality(Grants') + Cardinality(Held') = MaxOutbound
  BY <1>2, <1>3
<1> QED
  BY <1>1, <1>2, <1>4 DEF Permits, PermitsAccounted, Grants

\* A step in which an opener gives its grant to the semaphore or to a node.
LEMMA GivenPermit ==
    ASSUME Permits, NEW o \in Grants, Grants' = Grants \ {o},
           \/ Held' = Held /\ semOutbound' = semOutbound + 1
           \/ /\ semOutbound' = semOutbound
              /\ \E n : n \notin Held /\ Held' = Held \cup {n}
    PROVE  Permits'
<1>1. IsFiniteSet(Held) /\ IsFiniteSet(Grants)
  BY DEF Permits
<1>2. IsFiniteSet(Grants') /\ Cardinality(Grants') = Cardinality(Grants) - 1
  BY <1>1, FS_RemoveElement
<1>3. /\ Cardinality(Held) \in Nat /\ Cardinality(Grants) \in Nat
      /\ semOutbound \in Nat
      /\ semOutbound + Cardinality(Grants) + Cardinality(Held) = MaxOutbound
  BY <1>1, FS_CardinalityType DEF Permits, PermitsAccounted, Grants
<1>4. /\ IsFiniteSet(Held')
      /\ \/ Cardinality(Held') = Cardinality(Held) /\ semOutbound' = semOutbound + 1
         \/ Cardinality(Held') = Cardinality(Held) + 1 /\ semOutbound' = semOutbound
  BY <1>1, FS_AddElement
<1>5. /\ semOutbound' \in Nat
      /\ semOutbound' + Cardinality(Grants') + Cardinality(Held') = MaxOutbound
  BY <1>2, <1>3, <1>4
<1> QED
  BY <1>2, <1>4, <1>5 DEF Permits, PermitsAccounted, Grants

\* The steps that touch flags of nodes only leave the counts and the copies.
LEMMA QuietCounts ==
    ASSUME Types, Counted, Copies, Quiet, alive' = alive, vNodes' \subseteq vNodes,
           socket'.copy = socket.copy, poll'.copy = poll.copy,
           socket'.at = "serve" <=> socket.at = "serve",
           poll'.at = "idle" => poll.at = "idle",
           \A n \in alive : Listed(n)' => Listed(n)
    PROVE  Counted' /\ Copies'
<1>1. /\ \A m \in Nodes : Same(node[m], node'[m])
      /\ alive \subseteq Nodes
  BY QuietNodes DEF Types, TypeOK
<1>2. \A n \in alive : Own(n)' = Own(n)
  BY <1>1 DEF Own, Refs, Same
<1>3. Counted'
  BY <1>1, <1>2, CountedKept DEF Same
<1>4. Copies'
  BY DEF Copies
<1> QED
  BY <1>3, <1>4

-----------------------------------------------------------------------------
(* The openers.                                                              *)

\* Steps of an opener that has no node, or passes MoveTo's test of the grant.
LEMMA OpenerOnly ==
    ASSUME Types, Safe, UNCHANGED <<node, alive, vNodes, socket, poll>>,
           NEW o \in Openers, NEW at, NEW g, Moves(o, at, opener'[o].node, g),
           \/ at \in {"idle", "checked", "connecting"}
           \/ /\ at = "moving" /\ opener[o].at = "connected"
              /\ opener'[o].node = opener[o].node,
           g <=> at \in Busy
    PROVE  /\ Hands' /\ Releasing' /\ Paid' /\ Counted' /\ Copies' /\ Held' = Held
           /\ Grants' = IF g THEN Grants \cup {o} ELSE Grants \ {o}
<1>1. /\ Hands /\ Releasing /\ Paid /\ Counted /\ Copies
  BY DEF Safe
<1>2. /\ opener'[o].at = at /\ opener'[o].grant = g
      /\ \A p \in Openers \ {o} : opener'[p] = opener[p]
  BY DEF Moves
<1>3. Hands'
  BY <1>1, <1>2 DEF Hands, InHand, Busy
<1>4. Held' = Held
  BY <1>1, <1>3, HeldMeaning
<1>5. Paid'
  BY <1>1, <1>2 DEF Paid
<1>6. Counted' /\ Copies' /\ Releasing'
  BY <1>1 DEF Counted, Own, Refs, Listed, Removing, Copies, Releasing
<1>7. Grants' = IF g THEN Grants \cup {o} ELSE Grants \ {o}
  BY <1>2 DEF Grants
<1> QED
  BY <1>3, <1>4, <1>5, <1>6, <1>7

LEMMA CallSafe ==
    ASSUME Types, Safe, NEW o \in Openers,
           \/ \E a \in Addrs : OpenNetworkConnection(o, a)
           \/ FindNone(o) \/ ConnectFails(o) \/ TestGrant(o)
    PROVE  Safe'
<1>1. Hands /\ Permits
  BY DEF Safe
<1>2. CASE \E a \in Addrs : OpenNetworkConnection(o, a)
  <2>1. Moves(o, "checked", NoNode, TRUE)
    BY <1>2, OpenerMoves
  <2>2. /\ UNCHANGED <<node, alive, vNodes, socket, poll>>
        /\ semOutbound > 0 /\ semOutbound' = semOutbound - 1
        /\ opener[o].at = "idle"
    BY <1>2 DEF OpenNetworkConnection
  <2>3. o \notin Grants
    BY <1>1, <2>2 DEF Hands, Busy, Grants
  <2>4. Moves(o, "checked", opener'[o].node, TRUE)
    BY <2>1 DEF Moves
  <2>5. /\ Hands' /\ Releasing' /\ Paid' /\ Counted' /\ Copies' /\ Held' = Held
        /\ Grants' = Grants \cup {o}
    BY <2>2, <2>4, OpenerOnly DEF Busy
  <2>6. Permits'
    BY <1>1, <2>2, <2>3, <2>5, TakenPermit
  <2> QED
    BY <2>5, <2>6 DEF Safe
<1>3. CASE FindNone(o)
  <2>1. Moves(o, "connecting", opener[o].node, opener[o].grant)
    BY <1>3, OpenerMoves
  <2>2. /\ UNCHANGED <<node, alive, vNodes, socket, poll>>
        /\ semOutbound' = semOutbound /\ opener[o].at = "checked"
    BY <1>3 DEF FindNone
  <2>3. opener[o].grant = TRUE /\ o \in Grants
    <3>1. opener[o].grant \in BOOLEAN
      BY DEF Types, TypeOK, OpenerType
    <3> QED
      BY <1>1, <2>2, <3>1 DEF Hands, Busy, Grants
  <2>4. Moves(o, "connecting", opener'[o].node, TRUE)
    BY <2>1, <2>3 DEF Moves
  <2>5. /\ Hands' /\ Releasing' /\ Paid' /\ Counted' /\ Copies' /\ Held' = Held
        /\ Grants' = Grants \cup {o}
    BY <2>2, <2>4, OpenerOnly DEF Busy
  <2>6. Permits'
    BY <1>1, <2>2, <2>3, <2>5, SamePermits
  <2> QED
    BY <2>5, <2>6 DEF Safe
<1>4. CASE ConnectFails(o)
  <2>1. Moves(o, "idle", NoNode, FALSE)
    BY <1>4, OpenerMoves
  <2>2. /\ UNCHANGED <<node, alive, vNodes, socket, poll>>
        /\ semOutbound' = semOutbound + 1 /\ opener[o].at = "connecting"
    BY <1>4 DEF ConnectFails
  <2>3. o \in Grants
    BY <1>1, <2>2 DEF Hands, Busy, Grants
  <2>4. Moves(o, "idle", opener'[o].node, FALSE)
    BY <2>1 DEF Moves
  <2>5. /\ Hands' /\ Releasing' /\ Paid' /\ Counted' /\ Copies' /\ Held' = Held
        /\ Grants' = Grants \ {o}
    BY <2>2, <2>4, OpenerOnly DEF Busy
  <2>6. Permits'
    BY <1>1, <2>2, <2>3, <2>5, GivenPermit
  <2> QED
    BY <2>5, <2>6 DEF Safe
<1>5. CASE TestGrant(o)
  <2>1. /\ UNCHANGED <<node, alive, vNodes, socket, poll>>
        /\ semOutbound' = semOutbound /\ opener[o].at = "connected"
    BY <1>5 DEF TestGrant
  <2>2. ~ node[opener[o].node].grantOutbound
    BY <1>1, <2>1 DEF Hands
  <2>3. Moves(o, "moving", opener[o].node, opener[o].grant)
    BY <1>5, <2>2, OpenerMoves
  <2>4. opener[o].grant = TRUE /\ o \in Grants
    <3>1. opener[o].grant \in BOOLEAN
      BY DEF Types, TypeOK, OpenerType
    <3> QED
      BY <1>1, <2>1, <3>1 DEF Hands, Busy, Grants
  <2>5. Moves(o, "moving", opener'[o].node, TRUE) /\ opener'[o].node = opener[o].node
    BY <2>3, <2>4 DEF Moves
  <2>6. /\ Hands' /\ Releasing' /\ Paid' /\ Counted' /\ Copies' /\ Held' = Held
        /\ Grants' = Grants \cup {o}
    BY <2>1, <2>5, OpenerOnly DEF Busy
  <2>7. Permits'
    BY <1>1, <2>1, <2>4, <2>6, SamePermits
  <2> QED
    BY <2>6, <2>7 DEF Safe
<1> QED
  BY <1>2, <1>3, <1>4, <1>5

\* A node that is pushed has the list's reference, and no grant.
LEMMA PushSafe ==
    ASSUME Types, Safe, NEW n \in Nodes, NEW a \in Addrs, NEW b \in BOOLEAN, Push(n, a, b),
           socket'.copy = socket.copy, poll' = poll, ~ Locked',
           socket'.at # "serve" => socket.at # "serve",
           UNCHANGED opener \/ \E o \in Openers :
               /\ \A p \in Openers \ {o} : opener'[p] = opener[p]
               /\ opener'[o].at = "connected"
    PROVE  /\ Releasing' /\ Counted' /\ Copies' /\ Paid'
           /\ Hands' => Held' = Held
           /\ \A m \in alive : m # n /\ m \in alive' /\ node'[m] = node[m]
           /\ n \in alive' /\ node'[n].fInbound = b
           /\ ~ node'[n].fNetworkNode /\ ~ node'[n].grantOutbound
<1>1. /\ \A m \in Nodes : node'[m] = IF m = n THEN NewNode(a, b) ELSE node[m]
      /\ vNodes' = vNodes \union {n} /\ alive' = alive \union {n}
      /\ n \notin alive /\ ~ Locked /\ vNodes \subseteq alive /\ alive \subseteq Nodes
  BY PushNodes DEF Types, TypeOK
<1>2. /\ node'[n].nRefCount = 1 /\ node'[n].fInbound = b
      /\ ~ node'[n].fNetworkNode /\ ~ node'[n].grantOutbound
  BY <1>1, NewRecord
<1>3. \A m \in alive : m # n /\ m \in alive' /\ node'[m] = node[m]
  BY <1>1
<1>4. /\ Hands /\ Releasing /\ Paid /\ Counted /\ Copies
  BY DEF Safe
<1>5. Copies'
  BY <1>1, <1>4 DEF Copies
<1>6. Refs(n)' = 0 /\ \A m \in alive : Own(m)' = Own(m)
  BY <1>1, <1>3, <1>4 DEF Refs, Own, Copies
<1>7. Own(n)' = 1
  BY <1>2, <1>6 DEF Own
<1>8. \A m \in alive : Listed(m)' => Listed(m)
  BY <1>1 DEF Listed, Locked, Removing
<1>9. Counted'
  BY <1>1, <1>3, <1>4, <1>6, <1>7, <1>8 DEF Counted
<1>10. Releasing'
  BY DEF Releasing, Locked
<1>11. Paid'
  <2>1. ASSUME NEW o \in Openers, opener'[o].at = "granted", opener'[o].node \in vNodes'
        PROVE  /\ opener[o].at = "granted" /\ opener[o].node = opener'[o].node
               /\ opener[o].node \in vNodes
    <3>1. opener'[o] = opener[o]
      BY <2>1
    <3>2. opener[o].node \in alive
      BY <1>4, <2>1, <3>1 DEF Hands, InHand
    <3> QED
      BY <1>1, <2>1, <3>1, <3>2
  <2> QED
    BY <1>1, <1>2, <1>3, <1>4, <2>1, PaidKept
<1>12. ASSUME Hands' PROVE Held' = Held
  BY <1>1, <1>2, <1>3, <1>4, <1>12, HeldMeaning DEF Locked
<1> QED
  BY <1>1, <1>2, <1>3, <1>5, <1>9, <1>10, <1>11, <1>12

LEMMA ConnectSafe ==
    ASSUME Types, Safe, NEW o \in Openers, NEW n \in Nodes, Connect(o, n)
    PROVE  Safe'
<1>1. Hands /\ Permits
  BY DEF Safe
<1>2. Moves(o, "connected", n, opener[o].grant)
  BY OpenerMoves
<1>3. /\ opener[o].at = "connecting" /\ Push(n, opener[o].addr, FALSE)
      /\ UNCHANGED <<semOutbound, socket, poll>> /\ ~ Locked'
  BY DEF Connect, Push, Locked
<1>4. opener[o].addr \in Addrs /\ n \notin alive
  BY <1>3 DEF Types, TypeOK, OpenerType, Push
<1>5. /\ opener'[o].at = "connected" /\ opener'[o].node = n
      /\ opener'[o].grant = opener[o].grant
      /\ \A p \in Openers \ {o} : opener'[p] = opener[p]
  BY <1>2 DEF Moves
<1>6. /\ Releasing' /\ Counted' /\ Copies' /\ Paid'
      /\ Hands' => Held' = Held
      /\ \A m \in alive : m # n /\ m \in alive' /\ node'[m] = node[m]
      /\ n \in alive' /\ ~ node'[n].fInbound
      /\ ~ node'[n].fNetworkNode /\ ~ node'[n].grantOutbound
  BY <1>3, <1>4, <1>5, PushSafe
<1>7. Grants' = Grants
  BY <1>5 DEF Grants
<1>8. Hands'
  <2>1. /\ \A p \in Openers : opener'[p].at \notin {"found", "adding", "posting", "clearing"}
        /\ \A p \in Openers : opener'[p].grant <=> opener'[p].at \in Busy
    BY <1>1, <1>3, <1>5 DEF Hands, Busy
  <2>2. \A p \in Openers : opener'[p].at \in InHand =>
           /\ opener'[p].node \in alive'
           /\ ~ node'[opener'[p].node].fInbound /\ ~ node'[opener'[p].node].fNetworkNode
    BY <1>1, <1>5, <1>6 DEF Hands, InHand
  <2>3. \A p \in Openers : opener'[p].at \in {"connected", "moving"} =>
           ~ node'[opener'[p].node].grantOutbound
    BY <1>1, <1>5, <1>6 DEF Hands, InHand
  <2>4. \A p, q \in Openers :
           opener'[p].at \in InHand /\ opener'[q].at \in InHand
               /\ opener'[p].node = opener'[q].node => p = q
    BY <1>1, <1>4, <1>5 DEF Hands
  <2> QED
    BY <2>1, <2>2, <2>3, <2>4 DEF Hands
<1>9. Permits'
  BY <1>1, <1>3, <1>6, <1>7, <1>8, SamePermits
<1> QED
  BY <1>6, <1>8, <1>9 DEF Safe

LEMMA MoveSafe ==
    ASSUME Types, Safe, NEW o \in Openers, MoveGrant(o)
    PROVE  Safe'
<1> DEFINE n == opener[o].node
<1>1. /\ Hands /\ Permits /\ Releasing /\ Paid /\ Counted /\ Copies
      /\ vNodes \subseteq alive /\ alive \subseteq Nodes
  BY DEF Safe, Types, TypeOK
<1>2. Moves(o, "granted", n, FALSE)
  BY OpenerMoves
<1>3. /\ opener[o].at = "moving" /\ opener[o].at \notin Empty
      /\ UNCHANGED <<vNodes, alive, semOutbound, socket, poll>>
  BY DEF MoveGrant, Empty
<1>4. /\ \A m \in Nodes : m # n => node'[m] = node[m]
      /\ node'[n].nRefCount = node[n].nRefCount /\ node'[n].fInbound = node[n].fInbound
      /\ node'[n].fNetworkNode = node[n].fNetworkNode /\ node'[n].grantOutbound
  BY <1>3, OpenerNodes
<1>5. n \in alive /\ ~ node[n].grantOutbound
  BY <1>1, <1>3 DEF Hands, InHand
<1>6. /\ opener'[o].at = "granted" /\ opener'[o].node = n /\ opener'[o].grant = FALSE
      /\ \A p \in Openers \ {o} : opener'[p] = opener[p]
  BY <1>2 DEF Moves
<1> HIDE DEF n
<1>7. \A p \in Openers \ {o} : opener[p].at \in InHand => opener[p].node # n
  BY <1>1, <1>3 DEF Hands, InHand, n
<1>8. Hands'
  <2>1. /\ \A p \in Openers : opener'[p].at \notin {"found", "adding", "posting", "clearing"}
        /\ \A p \in Openers : opener'[p].grant <=> opener'[p].at \in Busy
    BY <1>1, <1>6 DEF Hands, Busy
  <2>2. \A p \in Openers : opener'[p].at \in InHand => opener[p].at \in InHand /\ opener'[p].node = opener[p].node
    BY <1>3, <1>6 DEF InHand, n
  <2>3. \A p \in Openers : opener'[p].at \in InHand =>
           /\ opener'[p].node \in alive'
           /\ ~ node'[opener'[p].node].fInbound /\ ~ node'[opener'[p].node].fNetworkNode
    BY <1>1, <1>3, <1>4, <2>2 DEF Hands
  <2>4. \A p \in Openers : opener'[p].at \in {"connected", "moving"} =>
           ~ node'[opener'[p].node].grantOutbound
    BY <1>1, <1>4, <1>6, <1>7 DEF Hands, InHand
  <2>5. \A p, q \in Openers :
           opener'[p].at \in InHand /\ opener'[q].at \in InHand
               /\ opener'[p].node = opener'[q].node => p = q
    BY <1>1, <2>2 DEF Hands
  <2> QED
    BY <2>1, <2>3, <2>4, <2>5 DEF Hands
<1>9. Releasing'
  BY <1>1, <1>3, <1>4, <1>5 DEF Releasing, Types, TypeOK, Removing
<1>10. Held' = Held \cup {n} /\ n \notin Held
  BY <1>1, <1>3, <1>4, <1>5, <1>8, HeldMeaning DEF Releasing
<1>11. o \in Grants /\ Grants' = Grants \ {o}
  BY <1>1, <1>3, <1>6 DEF Hands, Busy, Grants
<1>12. Permits'
  BY <1>1, <1>3, <1>10, <1>11, GivenPermit
<1>13. Paid'
  BY <1>1, <1>3, <1>4, <1>6 DEF Paid
<1>14. Counted' /\ Copies'
  <2>1. \A m \in alive : Own(m)' = Own(m)
    BY <1>1, <1>3, <1>4 DEF Own, Refs
  <2>2. Counted'
    BY <1>1, <1>3, <1>4, <2>1, CountedKept DEF Listed, Removing
  <2> QED
    BY <1>1, <1>3, <2>2 DEF Copies
<1> QED
  BY <1>8, <1>9, <1>12, <1>13, <1>14 DEF Safe

LEMMA MarkSafe ==
    ASSUME Types, Safe, NEW o \in Openers, MarkNetworkNode(o)
    PROVE  Safe'
<1> DEFINE n == opener[o].node
<1>1. /\ Hands /\ Permits /\ Releasing /\ Paid /\ Counted /\ Copies
      /\ vNodes \subseteq alive /\ alive \subseteq Nodes
  BY DEF Safe, Types, TypeOK
<1>2. Moves(o, "idle", NoNode, FALSE)
  BY OpenerMoves
<1>3. /\ opener[o].at = "granted" /\ opener[o].at \notin Empty
      /\ UNCHANGED <<vNodes, alive, semOutbound, socket, poll>>
  BY DEF MarkNetworkNode, Empty
<1>4. /\ \A m \in Nodes : m # n => node'[m] = node[m]
      /\ node'[n].nRefCount = node[n].nRefCount /\ node'[n].fInbound = node[n].fInbound
      /\ node'[n].fNetworkNode /\ node'[n].grantOutbound = node[n].grantOutbound
  BY <1>3, OpenerNodes
<1>5. n \in alive
  BY <1>1, <1>3 DEF Hands, InHand
<1>6. /\ opener'[o].at = "idle" /\ opener'[o].grant = FALSE
      /\ \A p \in Openers \ {o} : opener'[p] = opener[p]
  BY <1>2 DEF Moves
<1> HIDE DEF n
<1>7. \A p \in Openers \ {o} : opener[p].at \in InHand => opener[p].node # n
  BY <1>1, <1>3 DEF Hands, InHand, n
<1>8. Hands'
  BY <1>1, <1>3, <1>4, <1>6, <1>7 DEF Hands, InHand, Busy
<1>9. \A m \in alive : node'[m].grantOutbound = node[m].grantOutbound
  BY <1>1, <1>4
<1>10. Releasing'
  BY <1>1, <1>3, <1>9 DEF Releasing, Types, TypeOK, Removing
<1>11. Held' = Held
  BY <1>1, <1>3, <1>8, <1>9, HeldMeaning
<1>12. Grants' = Grants
  BY <1>1, <1>3, <1>6 DEF Hands, Busy, Grants
<1>13. Permits'
  BY <1>1, <1>3, <1>11, <1>12, SamePermits
<1>14. Paid'
  BY <1>1, <1>3, <1>4, <1>6, <1>9 DEF Paid, n
<1>15. Counted' /\ Copies'
  <2>1. \A m \in alive : Own(m)' = Own(m)
    BY <1>1, <1>3, <1>4 DEF Own, Refs
  <2>2. Counted'
    BY <1>1, <1>3, <1>4, <2>1, CountedKept DEF Listed, Removing
  <2> QED
    BY <1>1, <1>3, <2>2 DEF Copies
<1> QED
  BY <1>8, <1>10, <1>13, <1>14, <1>15 DEF Safe

\* The other places are those of an opener that was handed a node found.
LEMMA OpenSafe ==
    ASSUME Types, Safe, NEW o \in Openers, Open(o), handed = 0, handed' = 0
    PROVE  Safe'
<1>1. ~ FindExisting(o)
  BY DEF FindExisting
<1>2. ~ ReadCount(o) /\ ~ WriteCount(o) /\ ~ PostOld(o) /\ ~ ClearOld(o)
  BY DEF Safe, Hands, ReadCount, WriteCount, PostOld, ClearOld
<1> QED
  BY <1>1, <1>2, CallSafe, ConnectSafe, MoveSafe, MarkSafe DEF Open

-----------------------------------------------------------------------------
(* The other threads.  They leave the openers alone.                         *)

LEMMA OneTrySafe ==
    ASSUME Types, Safe, NEW n \in Nodes, NEW a \in Addrs, AddNodeOneTry(n, a)
    PROVE  Safe'
<1>1. Push(n, a, FALSE) /\ UNCHANGED <<semOutbound, opener, socket, poll>> /\ ~ Locked'
  BY DEF AddNodeOneTry, threads, Push, Locked
<1>2. Hands /\ Permits
  BY DEF Safe
<1>3. /\ Releasing' /\ Counted' /\ Copies' /\ Paid'
      /\ Hands' => Held' = Held
      /\ \A m \in alive : m \in alive' /\ node'[m] = node[m]
  BY <1>1, PushSafe
<1>4. Hands' /\ Grants' = Grants
  BY <1>1, <1>2, <1>3, HandsKept
<1>5. Permits'
  BY <1>1, <1>2, <1>3, <1>4, SamePermits
<1> QED
  BY <1>3, <1>4, <1>5 DEF Safe

LEMMA AcceptSafe ==
    ASSUME Types, Safe, NEW n \in Nodes, NEW a \in Addrs, AcceptInbound(n, a)
    PROVE  Safe'
<1>1. /\ Push(n, a, TRUE) /\ UNCHANGED <<semOutbound, opener, poll>>
      /\ socket'.at = "copy" /\ socket'.copy = socket.copy
      /\ socket.at = "accept"
  BY DEF AcceptInbound, Types, TypeOK, SocketType
<1>2. ~ Locked' /\ Hands /\ Permits
  BY <1>1 DEF Locked, Safe
<1>3. /\ Releasing' /\ Counted' /\ Copies' /\ Paid'
      /\ Hands' => Held' = Held
      /\ \A m \in alive : m \in alive' /\ node'[m] = node[m]
  BY <1>1, <1>2, PushSafe
<1>4. Hands' /\ Grants' = Grants
  BY <1>1, <1>2, <1>3, HandsKept
<1>5. Permits'
  BY <1>1, <1>2, <1>3, <1>4, SamePermits
<1> QED
  BY <1>3, <1>4, <1>5 DEF Safe

\* Steps that touch flags of nodes only, and leave the permits.
LEMMA QuietSafe ==
    ASSUME Types, Safe, Quiet, UNCHANGED <<alive, opener, semOutbound>>,
           vNodes' \subseteq vNodes,
           socket'.copy = socket.copy, poll'.copy = poll.copy,
           socket'.at = "serve" <=> socket.at = "serve",
           poll'.at = "idle" => poll.at = "idle",
           socket.at = "clearing" <=> socket'.at = "clearing",
           socket.at = "clearing" => socket'.node = socket.node,
           \A n \in alive : Listed(n)' => Listed(n),
           Releasing'
    PROVE  Safe'
<1>1. Hands /\ Permits /\ Paid /\ Counted /\ Copies /\ alive \subseteq Nodes /\ vNodes \subseteq alive
  BY DEF Safe, Types, TypeOK
<1>2. \A m \in alive : Same(node[m], node'[m])
  BY <1>1, QuietNodes
<1>3. Hands' /\ Grants' = Grants
  BY <1>1, <1>2, HandsKept DEF Same
<1>4. Held' = Held
  BY <1>1, <1>2, <1>3, HeldMeaning DEF Same
<1>5. Permits'
  BY <1>1, <1>3, <1>4, SamePermits
<1>6. Paid'
  BY <1>1, <1>2, PaidKept DEF Same
<1>7. Counted' /\ Copies'
  BY <1>1, QuietCounts
<1> QED
  BY <1>3, <1>5, <1>6, <1>7 DEF Safe

LEMMA ScanSafe ==
    ASSUME Types, Safe,
           \/ DisconnectNodes \/ ScanDone \/ AcceptNone
           \/ \E n \in Nodes : KeepNode(n) \/ RemoveNode(n) \/ ServeCloses(n)
    PROVE  Safe'
<1>1. socket \in SocketType /\ Quiet /\ Releasing
  BY DEF Types, TypeOK, Safe, Quiet
<1>2. UNCHANGED <<alive, opener, semOutbound, poll>> /\ vNodes' \subseteq vNodes
  BY DEF DisconnectNodes, ScanDone, AcceptNone, KeepNode, RemoveNode, ServeCloses, threads
<1>3. CASE DisconnectNodes \/ ScanDone \/ AcceptNone \/ \E n \in Nodes : KeepNode(n)
  <2>1. /\ socket'.copy = socket.copy /\ vNodes' = vNodes
        /\ socket.at \in {"disconnect", "scan", "accept"}
        /\ socket'.at \in {"scan", "delete", "copy"}
    BY <1>1, <1>3 DEF DisconnectNodes, ScanDone, AcceptNone, KeepNode, SocketType
  <2>2. Releasing' /\ \A n \in alive : Listed(n)' => Listed(n)
    BY <2>1 DEF Releasing, Listed, Removing
  <2> QED
    BY <1>1, <1>2, <2>1, <2>2, QuietSafe
<1>4. ASSUME NEW n \in Nodes, RemoveNode(n) PROVE Safe'
  <2>1. /\ socket'.copy = socket.copy /\ socket.at = "scan" /\ n \in socket.left
        /\ socket'.at = IF node[n].grantOutbound THEN "posting" ELSE "closing"
        /\ socket'.node = n /\ vNodes' = vNodes \ {n} /\ node' = node
    BY <1>1, <1>4 DEF RemoveNode, SocketType
  <2>2. n \in vNodes
    BY <2>1 DEF Types, TypeOK
  <2>3. Releasing' /\ \A m \in alive : Listed(m)' => Listed(m)
    BY <2>1, <2>2 DEF Releasing, Listed, Removing
  <2> QED
    BY <1>1, <1>2, <2>1, <2>3, QuietSafe
<1>5. ASSUME NEW n \in Nodes, ServeCloses(n) PROVE Safe'
  <2>1. socket' = socket /\ vNodes' = vNodes /\ socket.at = "serve"
    BY <1>5 DEF ServeCloses, threads
  <2>2. Releasing' /\ \A m \in alive : Listed(m)' => Listed(m)
    BY <2>1 DEF Releasing, Listed, Removing
  <2> QED
    BY <1>1, <1>2, <2>1, <2>2, QuietSafe
<1> QED
  BY <1>3, <1>4, <1>5

\* Release: the post returns the permit of a grant that is there.
LEMMA PostSafe ==
    ASSUME Types, Safe, PostGrant
    PROVE  Safe'
<1> DEFINE n == socket.node
<1>1. /\ Hands /\ Releasing /\ Permits /\ Paid /\ Counted /\ Copies
      /\ socket \in SocketType
  BY DEF Safe, Types, TypeOK
<1>2. /\ UNCHANGED <<vNodes, alive, node, opener, poll>> /\ semOutbound' = semOutbound + 1
      /\ socket.at = "posting" /\ socket'.at = "clearing"
      /\ socket'.node = n /\ socket'.copy = socket.copy
  BY <1>1 DEF PostGrant, SocketType
<1>3. n \in alive /\ node[n].grantOutbound
  BY <1>1, <1>2 DEF Types, TypeOK, Removing, Releasing
<1> HIDE DEF n
<1>4. Hands' /\ Grants' = Grants
  BY <1>1, <1>2, HandsKept
<1>5. {n} \subseteq Held /\ Held' = Held \ {n}
  BY <1>1, <1>2, <1>3, <1>4, HeldMeaning DEF n
<1>6. Cardinality({n}) = 1
  BY FS_Singleton
<1>7. Permits'
  BY <1>1, <1>2, <1>4, <1>5, <1>6, ReturnedPermits
<1>8. Releasing' /\ Paid'
  BY <1>1, <1>2 DEF Releasing, Paid, n
<1>9. Counted' /\ Copies'
  BY <1>1, <1>2 DEF Counted, Own, Refs, Listed, Removing, Copies, n
<1> QED
  BY <1>4, <1>7, <1>8, <1>9 DEF Safe

LEMMA ClearSafe ==
    ASSUME Types, Safe, ClearGrant
    PROVE  Safe'
<1> DEFINE n == socket.node
<1>1. /\ Hands /\ Releasing /\ Permits /\ Paid /\ Counted /\ Copies
      /\ socket \in SocketType /\ alive \subseteq Nodes /\ vNodes \subseteq alive
  BY DEF Safe, Types, TypeOK
<1>2. /\ UNCHANGED <<vNodes, alive, semOutbound, opener, poll>>
      /\ socket.at = "clearing" /\ Removing /\ socket'.at = "closing"
      /\ socket'.node = n /\ socket'.copy = socket.copy
  BY <1>1 DEF ClearGrant, SocketType, Removing
<1>3. /\ n \in alive /\ \A m \in Nodes : m # n => node'[m] = node[m]
      /\ node'[n].nRefCount = node[n].nRefCount /\ node'[n].fInbound = node[n].fInbound
      /\ node'[n].fNetworkNode = node[n].fNetworkNode /\ ~ node'[n].grantOutbound
  BY <1>2, RemovalNodes
<1>4. n \notin vNodes
  BY <1>2 DEF Types, TypeOK
<1> HIDE DEF n
<1>5. Hands' /\ Grants' = Grants
  BY <1>1, <1>2, <1>3, HandsKept
<1>6. Held' = Held
  BY <1>1, <1>2, <1>3, <1>5, HeldMeaning DEF n
<1>7. Permits'
  BY <1>1, <1>2, <1>5, <1>6, SamePermits
<1>8. Releasing'
  BY <1>2 DEF Releasing
<1>9. Paid'
  BY <1>1, <1>2, <1>3, <1>4, PaidKept
<1>10. \A m \in alive : Own(m)' = Own(m)
  BY <1>1, <1>2, <1>3 DEF Own, Refs
<1>11. Counted'
  BY <1>1, <1>2, <1>3, <1>10, CountedKept DEF Listed, Removing, n
<1>12. Copies'
  BY <1>1, <1>2 DEF Copies
<1> QED
  BY <1>5, <1>7, <1>8, <1>9, <1>11, <1>12 DEF Safe

\* The node's reference from the list goes, unless it is not marked yet: then
\* it stays for ever.
LEMMA CloseSafe ==
    ASSUME Types, Safe, CloseNode
    PROVE  Safe'
<1> PICK n : n = socket.node
  OBVIOUS
<1>1. /\ Hands /\ Releasing /\ Permits /\ Paid /\ Counted /\ Copies
      /\ socket \in SocketType /\ alive \subseteq Nodes /\ vNodes \subseteq alive
      /\ node \in [Nodes -> NodeType]
  BY DEF Safe, Types, TypeOK
<1>2. /\ UNCHANGED <<vNodes, alive, semOutbound, opener, poll>> /\ n = socket.node
      /\ socket.at = "closing" /\ Removing /\ socket'.at = "scan"
      /\ socket'.copy = socket.copy
  BY <1>1 DEF CloseNode, SocketType, Removing
<1>3. /\ n \in alive /\ \A m \in Nodes : m # n => node'[m] = node[m]
      /\ node'[n].nRefCount = IF node[n].fNetworkNode \/ node[n].fInbound
                              THEN node[n].nRefCount - 1 ELSE node[n].nRefCount
      /\ node'[n].fInbound = node[n].fInbound
      /\ node'[n].fNetworkNode = node[n].fNetworkNode
      /\ node'[n].grantOutbound = node[n].grantOutbound
  BY <1>2, RemovalNodes
<1>4. n \notin vNodes /\ Listed(n) /\ node[n].nRefCount \in Int
  BY <1>1, <1>2, <1>3 DEF Types, TypeOK, Listed, NodeType
<1>5. Hands' /\ Grants' = Grants
  BY <1>1, <1>2, <1>3, HandsKept
<1>6. Held' = Held
  BY <1>1, <1>2, <1>3, <1>5, HeldMeaning
<1>7. Permits'
  BY <1>1, <1>2, <1>5, <1>6, SamePermits
<1>8. Releasing'
  BY <1>2 DEF Releasing
<1>9. Paid'
  BY <1>1, <1>2, <1>3, PaidKept
<1>10. \A m \in alive : m # n => Own(m)' = Own(m)
  BY <1>1, <1>2, <1>3 DEF Own, Refs
<1>11. Own(n)' = IF node[n].fNetworkNode \/ node[n].fInbound THEN 0 ELSE 1
  <2>1. Own(n) = 1 /\ Own(n) = node[n].nRefCount - Refs(n)
    BY <1>1, <1>3, <1>4 DEF Counted, Own
  <2>2. Own(n)' = node'[n].nRefCount - Refs(n) /\ Refs(n) \in Int
    BY <1>2 DEF Own, Refs
  <2>3. CASE node[n].fNetworkNode \/ node[n].fInbound
    <3>1. node'[n].nRefCount = node[n].nRefCount - 1
      BY <1>3, <2>3
    <3> QED
      BY <1>4, <2>1, <2>2, <2>3, <3>1
  <2>4. CASE ~ (node[n].fNetworkNode \/ node[n].fInbound)
    <3>1. node'[n].nRefCount = node[n].nRefCount
      BY <1>3, <2>4
    <3> QED
      BY <1>4, <2>1, <2>2, <2>4, <3>1
  <2> QED
    BY <2>3, <2>4
<1>12. Counted'
  <2>1. \A m \in alive' : Listed(m)' => m # n /\ Listed(m)
    BY <1>2, <1>4 DEF Listed, Removing
  <2>2. ASSUME NEW m \in alive', m # n
        PROVE  /\ m \in alive /\ Own(m)' = Own(m) /\ node'[m] = node[m]
    BY <1>1, <1>2, <1>3, <1>10, <2>2
  <2> QED
    BY <1>1, <1>3, <1>11, <2>1, <2>2 DEF Counted
<1>13. Copies'
  BY <1>1, <1>2 DEF Copies
<1> QED
  BY <1>5, <1>7, <1>8, <1>9, <1>12, <1>13 DEF Safe

\* A node that is deleted has no reference left: no loop has copied it, and no
\* opener is still to move its grant to it or to mark it.
LEMMA DeletableFree ==
    ASSUME Types, Safe, NEW n \in Deletable
    PROVE  /\ n \in alive /\ n \notin vNodes
           /\ n \notin socket.copy /\ n \notin poll.copy
           /\ node[n].fInbound \/ node[n].fNetworkNode
<1>1. n \in alive /\ n \notin vNodes /\ node[n].nRefCount <= 0 /\ node[n].nRefCount \in Int
  BY DEF Deletable, Types, TypeOK, NodeType
<1>2. Own(n) \in {0, 1} /\ Own(n) = node[n].nRefCount - Refs(n)
  BY <1>1 DEF Safe, Counted, Own
<1>3. /\ Refs(n) \in {0, 1, 2}
      /\ n \in socket.copy \/ n \in poll.copy => Refs(n) \in {1, 2}
  BY DEF Refs
<1>4. Own(n) = 0 /\ Refs(n) = 0
  <2> HIDE DEF Own, Refs
  <2> QED
    BY <1>1, <1>2, <1>3
<1> QED
  BY <1>1, <1>3, <1>4 DEF Safe, Counted

LEMMA DeleteSafe ==
    ASSUME Types, Safe, DeleteNodes
    PROVE  Safe'
<1> DEFINE gone == {n \in Deletable : node[n].grantOutbound}
<1>1. /\ Hands /\ Releasing /\ Permits /\ Paid /\ Counted /\ Copies
      /\ socket \in SocketType /\ alive \subseteq Nodes /\ vNodes \subseteq alive
  BY DEF Safe, Types, TypeOK
<1>2. /\ UNCHANGED <<vNodes, opener, poll>> /\ alive' = alive \ Deletable
      /\ semOutbound' = semOutbound + Cardinality(gone)
      /\ socket.at = "delete" /\ socket'.at = "accept"
      /\ socket'.copy = socket.copy
  BY <1>1 DEF DeleteNodes, SocketType
<1>3. \A m \in alive' : m \in alive /\ m \notin Deletable /\ node'[m] = node[m]
  BY <1>1, <1>2, DeletedNodes
<1>4. \A n \in Deletable :
          /\ n \in alive /\ n \notin vNodes
          /\ n \notin socket.copy /\ n \notin poll.copy
          /\ node[n].fInbound \/ node[n].fNetworkNode
  BY DeletableFree
<1>5. Hands' /\ Grants' = Grants
  BY <1>1, <1>2, <1>3, <1>4, HandsKept
<1>6. gone \subseteq Held /\ Held' = Held \ gone
  BY <1>1, <1>2, <1>3, <1>4, <1>5, HeldMeaning
<1>7. Permits'
  <2> HIDE DEF gone
  <2> QED
    BY <1>1, <1>2, <1>5, <1>6, ReturnedPermits
<1>8. Releasing'
  BY <1>2 DEF Releasing
<1>9. vNodes \subseteq alive'
  BY <1>1, <1>2, <1>4
<1>10. Paid'
  BY <1>1, <1>2, <1>3, <1>9, PaidKept
<1>11. \A m \in alive' : Own(m)' = Own(m)
  BY <1>2, <1>3 DEF Own, Refs
<1>12. Counted'
  BY <1>1, <1>2, <1>3, <1>11, CountedKept DEF Listed, Removing
<1>13. Copies'
  BY <1>1, <1>2, <1>4 DEF Copies
<1> QED
  BY <1>5, <1>7, <1>8, <1>10, <1>12, <1>13 DEF Safe

\* A loop copies vNodes, or releases what it copied: its references change by
\* what its copy does.
LEMMA CopySafe ==
    ASSUME Types, Safe, UNCHANGED <<alive, vNodes, opener, semOutbound>>,
           NEW ns, NEW d \in {1, -1},
           node' = IF d = 1 THEN AddRefs(ns) ELSE ReleaseRefs(ns),
           \A n \in alive : Refs(n)' = IF n \in ns THEN Refs(n) + d ELSE Refs(n),
           (~ Removing /\ ~ Removing') \/ socket' = socket,
           Copies'
    PROVE  Safe'
<1>1. /\ Hands /\ Releasing /\ Permits /\ Paid /\ Counted
      /\ alive \subseteq Nodes /\ vNodes \subseteq alive /\ node \in [Nodes -> NodeType]
  BY DEF Safe, Types, TypeOK
<1>2. \A n \in Nodes :
          /\ node[n].nRefCount \in Int
          /\ node'[n].nRefCount = IF n \in ns THEN node[n].nRefCount + d
                                  ELSE node[n].nRefCount
          /\ node'[n].fInbound = node[n].fInbound
          /\ node'[n].fNetworkNode = node[n].fNetworkNode
          /\ node'[n].grantOutbound = node[n].grantOutbound
  BY <1>1, RefsChange
<1>3. Hands' /\ Grants' = Grants
  BY <1>1, <1>2, HandsKept
<1>4. Held' = Held
  <2>1. /\ socket.at = "clearing" <=> socket'.at = "clearing"
        /\ socket.at = "clearing" => socket'.node = socket.node
    BY DEF Removing
  <2>2. \A n \in alive : node'[n].grantOutbound = node[n].grantOutbound
    BY <1>1, <1>2
  <2> QED
    BY <1>1, <1>3, <2>1, <2>2, HeldMeaning
<1>5. Permits'
  BY <1>1, <1>3, <1>4, SamePermits
<1>6. Releasing'
  BY <1>1, <1>2 DEF Releasing, Removing, Types, TypeOK
<1>7. Paid'
  BY <1>1, <1>2, PaidKept
<1>8. ASSUME NEW n \in alive PROVE Own(n)' = Own(n)
  <2>1. Refs(n) \in Int /\ n \in Nodes
    BY <1>1 DEF Refs
  <2>2. /\ Own(n)' = node'[n].nRefCount - Refs(n)'
        /\ Own(n) = node[n].nRefCount - Refs(n)
    BY DEF Own
  <2> HIDE DEF Refs, Own
  <2>3. CASE n \in ns
    BY <1>2, <2>1, <2>2, <2>3
  <2>4. CASE n \notin ns
    BY <1>2, <2>1, <2>2, <2>4
  <2> QED
    BY <2>3, <2>4
<1>9. Counted'
  BY <1>1, <1>2, <1>8, CountedKept DEF Listed, Removing
<1> QED
  BY <1>3, <1>5, <1>6, <1>7, <1>9 DEF Safe

LEMMA SocketSafe ==
    ASSUME Types, Safe, SocketThread
    PROVE  Safe'
<1>1. Copies /\ socket \in SocketType /\ vNodes \subseteq alive
  BY DEF Safe, Types, TypeOK
<1>2. CASE CopyForService
  <2>1. /\ UNCHANGED <<alive, vNodes, opener, semOutbound, poll>> /\ node' = AddRefs(vNodes)
        /\ socket.at = "copy" /\ socket'.at = "serve" /\ socket'.copy = vNodes
    BY <1>1, <1>2 DEF CopyForService, SocketType
  <2>2. socket.copy = {} /\ Copies'
    BY <1>1, <2>1 DEF Copies
  <2>3. \A n \in alive : Refs(n)' = IF n \in vNodes THEN Refs(n) + 1 ELSE Refs(n)
    BY <2>1, <2>2 DEF Refs
  <2>4. node' = IF 1 = 1 THEN AddRefs(vNodes) ELSE ReleaseRefs(vNodes)
    BY <2>1
  <2> QED
    BY <2>1, <2>2, <2>3, <2>4, CopySafe DEF Removing
<1>3. CASE ServiceDone
  <2>1. /\ UNCHANGED <<alive, vNodes, opener, semOutbound, poll>>
        /\ node' = ReleaseRefs(socket.copy)
        /\ socket.at = "serve" /\ socket'.at = "disconnect" /\ socket'.copy = {}
    BY <1>1, <1>3 DEF ServiceDone, SocketType
  <2>2. Copies'
    BY <1>1, <2>1 DEF Copies
  <2>3. \A n \in alive : Refs(n)' = IF n \in socket.copy THEN Refs(n) + (-1) ELSE Refs(n)
    BY <2>1 DEF Refs
  <2>4. node' = IF -1 = 1 THEN AddRefs(socket.copy) ELSE ReleaseRefs(socket.copy)
    BY <2>1
  <2> QED
    BY <2>1, <2>2, <2>3, <2>4, CopySafe DEF Removing
<1> QED
  BY <1>2, <1>3, ScanSafe, PostSafe, ClearSafe, CloseSafe, DeleteSafe, AcceptSafe
     DEF SocketThread, Removal

LEMMA MessageSafe ==
    ASSUME Types, Safe, MessageThread
    PROVE  Safe'
<1>1. Copies /\ Releasing /\ poll \in PollType /\ vNodes \subseteq alive
  BY DEF Safe, Types, TypeOK
<1>2. CASE CopyForPoll
  <2>1. /\ UNCHANGED <<alive, vNodes, opener, semOutbound, socket>> /\ node' = AddRefs(vNodes)
        /\ poll.at = "idle" /\ poll'.at # "idle" /\ poll'.copy = vNodes
    BY <1>2 DEF CopyForPoll
  <2>2. poll.copy = {} /\ Copies'
    BY <1>1, <2>1 DEF Copies
  <2>3. \A n \in alive : Refs(n)' = IF n \in vNodes THEN Refs(n) + 1 ELSE Refs(n)
    BY <2>1, <2>2 DEF Refs
  <2>4. node' = IF 1 = 1 THEN AddRefs(vNodes) ELSE ReleaseRefs(vNodes)
    BY <2>1
  <2> QED
    BY <2>1, <2>2, <2>3, <2>4, CopySafe
<1>3. CASE PollDone
  <2>1. /\ UNCHANGED <<alive, vNodes, opener, semOutbound, socket>>
        /\ node' = ReleaseRefs(poll.copy)
        /\ poll'.at = "idle" /\ poll'.copy = {}
    BY <1>3 DEF PollDone
  <2>2. Copies'
    BY <1>1, <2>1 DEF Copies
  <2>3. \A n \in alive : Refs(n)' = IF n \in poll.copy THEN Refs(n) + (-1) ELSE Refs(n)
    BY <2>1 DEF Refs
  <2>4. node' = IF -1 = 1 THEN AddRefs(poll.copy) ELSE ReleaseRefs(poll.copy)
    BY <2>1
  <2> QED
    BY <2>1, <2>2, <2>3, <2>4, CopySafe
<1>4. ASSUME Quiet, UNCHANGED <<alive, vNodes, opener, semOutbound, socket>>,
             poll'.copy = poll.copy, poll'.at # "idle"
      PROVE  Safe'
  <2>1. \A n \in Nodes : Same(node[n], node'[n])
    BY <1>4, QuietNodes
  <2>2. Releasing'
    BY <1>1, <1>4, <2>1 DEF Releasing, Same, Types, TypeOK, Removing
  <2> QED
    BY <1>4, <2>2, QuietSafe DEF Listed, Removing
<1>5. CASE ChooseSync
  <2>1. /\ UNCHANGED <<alive, vNodes, opener, semOutbound, socket>>
        /\ poll'.copy = poll.copy /\ poll'.at # "idle"
    <3>1. CASE Candidates = {}
      BY <1>1, <1>5, <3>1 DEF ChooseSync, PollType
    <3>2. CASE Candidates # {}
      BY <1>1, <1>5, <3>2 DEF ChooseSync, PollType
    <3> QED
      BY <3>1, <3>2
  <2> QED
    BY <1>4, <1>5, <2>1 DEF Quiet
<1>6. CASE StartSync
  <2>1. /\ UNCHANGED <<alive, vNodes, opener, semOutbound, socket>>
        /\ poll'.copy = poll.copy /\ poll'.at # "idle"
    BY <1>1, <1>6 DEF StartSync, PollType
  <2> QED
    BY <1>4, <1>6, <2>1 DEF Quiet
<1>7. ASSUME NEW n \in Nodes, Poll(n) PROVE Safe'
  <2>1. /\ UNCHANGED <<alive, vNodes, opener, semOutbound, socket>>
        /\ poll'.copy = poll.copy /\ poll'.at # "idle"
    BY <1>1, <1>7 DEF Poll, PollQuiet, PollConnects, PollCloses, PollMarks, Polled, PollType
  <2> QED
    BY <1>4, <1>7, <2>1 DEF Quiet
<1> QED
  BY <1>2, <1>3, <1>5, <1>6, <1>7 DEF MessageThread

LEMMA NextInv ==
    ASSUME Inv, [Next]_vars
    PROVE  Inv'
<1>1. Types /\ Types'
  BY NextTypes DEF Inv
<1>2. ASSUME handed' = 0 PROVE Safe'
  <2>1. handed = 0
    <3>1. handed \in Nat /\ (handed' = handed \/ handed' = handed + 1)
      BY <1>1 DEF Types, TypeOK, Next, Open, SocketThread, Removal, MessageThread, Poll,
           OpenNetworkConnection, FindExisting, FindNone, ReadCount, WriteCount, Connect,
           ConnectFails, TestGrant, PostOld, ClearOld, MoveGrant, MarkNetworkNode,
           AddNodeOneTry, DisconnectNodes, KeepNode, RemoveNode, PostGrant, ClearGrant,
           CloseNode, ScanDone, DeleteNodes, AcceptInbound, AcceptNone, CopyForService,
           ServeCloses, ServiceDone, CopyForPoll, ChooseSync, StartSync, PollQuiet,
           PollConnects, PollCloses, PollMarks, PollDone, vars
    <3> QED
      BY <1>2, <3>1
  <2>2. Safe
    BY <2>1 DEF Inv
  <2>3. CASE UNCHANGED vars
    BY <2>2, <2>3 DEF vars, threads, Safe, Hands, Releasing, Grants, Permits, PermitsAccounted,
         Held, Posted, Paid, Refs, Own, Listed, Removing, Counted, Copies
  <2> QED
    BY <1>1, <1>2, <2>1, <2>2, <2>3, OpenSafe, OneTrySafe, SocketSafe, MessageSafe DEF Next
<1> QED
  BY <1>1, <1>2 DEF Inv

THEOREM NodesAccounted == Spec => []Inv
<1>1. Init => Inv
  BY InitTypes, InitSafe DEF Inv
<1>2. Inv /\ [Next]_vars => Inv'
  BY NextInv
<1> QED
  BY <1>1, <1>2, PTL DEF Spec

-----------------------------------------------------------------------------
(* What follows.                                                             *)

\* The grants of the openers and of the nodes account for every permit, while
\* nodes are removed, closed and deleted between the steps of MoveTo and of
\* Release, for any openers and with addnode onetry.
THEOREM PermitsAlwaysConserved == Spec => []PermitsConserved
<1>1. Inv => PermitsConserved
  BY DEF Inv, Safe, Permits, PermitsConserved
<1> QED
  BY NodesAccounted, <1>1, PTL

\* What is paid for is at most what the semaphore had to give.
LEMMA PaidBounds ==
    ASSUME Types, Safe
    PROVE  Cardinality(Opened) <= MaxOutbound
<1> DEFINE f == [o \in Grants |-> opener[o].node]
           owed == {opener[o].node : o \in Grants}
<1>1. /\ Hands /\ Paid
      /\ IsFiniteSet(Grants) /\ IsFiniteSet(Held)
      /\ semOutbound \in Nat /\ MaxOutbound \in Nat
      /\ semOutbound + Cardinality(Grants) + Cardinality(Held) = MaxOutbound
  BY NetAssumption DEF Safe, Permits, PermitsAccounted, Grants
<1>2. f \in Surjection(Grants, owed)
  BY DEF Surjection
<1>3. IsFiniteSet(owed) /\ Cardinality(owed) <= Cardinality(Grants)
  <2> HIDE DEF f, owed
  <2> QED
    BY <1>1, <1>2, FS_Surjection
<1>4. Opened \subseteq Held \cup owed
  <2> SUFFICES ASSUME NEW n \in Opened PROVE n \in Held \cup owed
    OBVIOUS
  <2>1. n \in vNodes /\ n \in alive /\ (socket.at = "clearing" => n # socket.node)
    BY DEF Types, TypeOK, Opened, Removing
  <2>2. CASE node[n].grantOutbound
    BY <1>1, <2>1, <2>2, HeldMeaning
  <2>3. ASSUME NEW o \in Openers, opener[o].at \in {"connected", "moving"}, opener[o].node = n
        PROVE  n \in owed
    BY <1>1, <2>3 DEF Hands, Busy, Grants
  <2> QED
    BY <1>1, <2>1, <2>2, <2>3 DEF Opened, Paid
<1>5. /\ IsFiniteSet(Held \cup owed)
      /\ Cardinality(Held \cup owed) <= Cardinality(Held) + Cardinality(owed)
  <2> HIDE DEF owed
  <2>1. /\ IsFiniteSet(Held \cup owed) /\ IsFiniteSet(Held \cap owed)
        /\ Cardinality(Held \cup owed)
               = Cardinality(Held) + Cardinality(owed) - Cardinality(Held \cap owed)
    BY <1>1, <1>3, FS_Union, FS_Subset
  <2>2. /\ Cardinality(Held) \in Nat /\ Cardinality(owed) \in Nat
        /\ Cardinality(Held \cap owed) \in Nat
    BY <1>1, <1>3, <2>1, FS_CardinalityType
  <2> QED
    BY <2>1, <2>2
<1>6. IsFiniteSet(Opened) /\ Cardinality(Opened) <= Cardinality(Held \cup owed)
  <2> HIDE DEF owed
  <2> QED
    BY <1>4, <1>5, FS_Subset
<1>7. /\ Cardinality(Opened) \in Nat /\ Cardinality(Held \cup owed) \in Nat
      /\ Cardinality(Held) \in Nat /\ Cardinality(owed) \in Nat
      /\ Cardinality(Grants) \in Nat
  <2> HIDE DEF owed
  <2> QED
    BY <1>1, <1>3, <1>5, <1>6, FS_CardinalityType
<1> HIDE DEF owed
<1> QED
  BY <1>1, <1>3, <1>5, <1>6, <1>7

\* The semaphore bounds the connections opened with a grant, for any openers at
\* any places and with addnode onetry, whose connections ask for no permit.
THEOREM OutboundAlwaysBounded == Spec => []OutboundBounded
<1>1. Inv => OutboundBounded
  BY PaidBounds DEF Inv, OutboundBounded
<1> QED
  BY NodesAccounted, <1>1, PTL

\* No node that a loop copied, or an opener is still to mark, is deleted, for
\* any openers and with addnode onetry, however nodes are closed, removed,
\* marked late, leaked and allocated again.
THEOREM CopiesNeverDeleted == Spec => []CopiesNotDeleted
<1>1. Inv => CopiesNotDeleted
  BY DEF Inv, Safe, Copies, Hands, InHand, CopiesNotDeleted, UsedNotDeleted
<1> QED
  BY NodesAccounted, <1>1, PTL
=============================================================================
