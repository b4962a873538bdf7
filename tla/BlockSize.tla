----------------------------- MODULE BlockSize -----------------------------
(* The largest block a node accepts, MAX_BLOCK_SIZE, and the chain state it  *)
(* depends on and decides about.  ConnectBlock first calls CheckBlock, which *)
(* compares the block with MAX_BLOCK_SIZE, and then ComputeBlockSize, which  *)
(* sets it to a multiple of the median of the last Past block sizes: a list  *)
(* that is kept up to date by taking out the size of the block Past lower,   *)
(* found by FindBlockByHeight, and putting in that of the new one.           *)
(*                                                                           *)
(* The actions are those of ChainState with the two calls in them.           *)
EXTENDS ChainState

CONSTANTS
    Size,           \* size of a block, as read from its file
    Past,           \* NUM_BLOCKS_FOR_MEDIAN_BLOCK
    Multiple,       \* MAX_BLOCK_SIZE_INCREASE_MULTIPLE
    MinBlockSize,   \* MIN_BLOCK_SIZE
    InitialLimit,   \* MAX_BLOCK_SIZE at the start
    UIntRange       \* 2^32

ASSUME SizeAssumption ==
    /\ Size \in [Block -> Nat]
    /\ Past \in Nat \ {0} /\ Multiple \in Nat \ {0}
    /\ MinBlockSize \in Nat /\ InitialLimit \in Nat /\ UIntRange \in Nat \ {0}

VARIABLES
    blocksizes,     \* the list of sizes
    sorted,         \* whether it has been sorted
    maxBlockSize,   \* MAX_BLOCK_SIZE
    lastFound,      \* pblockindexFBBHLast
    phase           \* of the list's history, see Noted

sizeVars == <<blocksizes, sorted, maxBlockSize, lastFound, phase>>

SizesOK ==
    /\ blocksizes \in Seq(Nat) /\ Len(blocksizes) \in {0, Past}
    /\ sorted \in BOOLEAN /\ maxBlockSize \in Nat
    /\ lastFound \in Block \cup {NoBlock}
    /\ phase \in {"fresh", "steady", "disturbed"}

Unset(sizes, isSorted, limit, last, ph) ==
    /\ sizes = <<>> /\ isSorted = FALSE /\ limit = InitialLimit
    /\ last = NoBlock /\ ph = "fresh"

SizedInit == Init /\ Unset(blocksizes, sorted, maxBlockSize, lastFound, phase)

-----------------------------------------------------------------------------
(* FindBlockByHeight                                                         *)

Distance(h, b) == IF h > Height[b] THEN h - Height[b] ELSE Height[b] - h

\* Where the search for height h starts: at an end of the chain, or at the
\* last block found if that is nearer.
SearchFrom(last, h) ==
    LET end == IF h < Height[best] \div 2 THEN Genesis ELSE best
    IN  IF last # NoBlock /\ Distance(h, end) > Distance(h, last) THEN last ELSE end

\* Down along pprev, or up along pnext: NoBlock is a null pointer that the
\* loop condition dereferences.
FindBlockByHeight(last, h) ==
    LET start == SearchFrom(last, h)
        up[n \in Nat] ==
            IF n <= Height[start] THEN start
            ELSE IF up[n - 1] = NoBlock THEN NoBlock ELSE pnext[up[n - 1]]
    IN  IF h <= Height[start] THEN Ancestor(start, h) ELSE up[h]

-----------------------------------------------------------------------------
(* ComputeBlockSize.  c is what it works on, alive tells that no null        *)
(* pointer was followed.                                                     *)

Calculator == [sizes |-> blocksizes, sorted |-> sorted, limit |-> maxBlockSize,
               last |-> lastFound, alive |-> TRUE]

RecentSizes(b) == [i \in 1..Past |-> Size[Ancestor(b, Height[b] + 1 - i)]]

\* Mutant: the size is appended.
Inserted_Last(s, x) == {Append(s, x)}

\* How many sizes of a list are smaller than x.
Smaller(s, x) == Cardinality({i \in DOMAIN s : s[i] < x})

\* insert at lower_bound, whose result is undefined unless the smaller sizes
\* come first.
Inserted(s, x) ==
    IF \A i, j \in DOMAIN s : (i < j /\ s[j] < x) => s[i] < x
    THEN {InsertAt(s, Smaller(s, x) + 1, x)}
    ELSE {InsertAt(s, i, x) : i \in 1 .. Len(s) + 1}

\* Mutant: a size that is not found is inserted nevertheless.
Replaced_Anyway(s, old, new) ==
    Inserted(IF old \in Range(s) THEN RemoveFirst(s, old) ELSE s, new)

Replaced(s, old, new) ==
    IF old \in Range(s) THEN Inserted(RemoveFirst(s, old), new) ELSE {s}

\* GetBlockSizes
GetBlockSizes(c, b) ==
    IF Height[b] < Past THEN {c}
    ELSE IF c.sizes = <<>> THEN {[c EXCEPT !.sizes = RecentSizes(b)]}
    ELSE LET first == FindBlockByHeight(c.last, Height[b] - Past) IN
         IF first = NoBlock THEN {[c EXCEPT !.alive = FALSE]}
         ELSE {[c EXCEPT !.sizes = s, !.last = first] :
                   s \in Replaced(c.sizes, Size[first], Size[b])}

NotLarger(s, x) == Cardinality({i \in DOMAIN s : s[i] <= x})

\* The k-th has less than k smaller ones, and k that are not larger.
Sorted(s) ==
    [k \in 1 .. Len(s) |->
        CHOOSE x \in Range(s) : Smaller(s, x) < k /\ k <= NotLarger(s, x)]

\* The median, rounded down.
Median(s) ==
    IF Past % 2 = 0
    THEN ((s[Past \div 2] + s[Past \div 2 + 1]) % UIntRange) \div 2
    ELSE s[Past \div 2 + 1]

\* "Absolute max block size will be 2^32-1 bytes".
LimitOf(median) ==
    LET product == (median * Multiple) % UIntRange
        limit == IF product < median THEN UIntRange - 1 ELSE product
    IN  IF median = 0 \/ limit < MinBlockSize THEN MinBlockSize ELSE limit

ComputeBlockSize(c, b) ==
    {LET sizes == IF d.sorted THEN d.sizes ELSE Sorted(d.sizes)
     IN  [d EXCEPT !.sizes = sizes, !.sorted = TRUE,
              !.limit = LimitOf(IF Len(sizes) = Past THEN Median(sizes) ELSE 0)] :
        d \in GetBlockSizes(c, b)}

-----------------------------------------------------------------------------
(* The steps.  A result pairs a view of ChainState with a calculator; there  *)
(* may be several, see Inserted.                                             *)

\* ConnectBlock: CheckBlock, ComputeBlockSize and the rest.
Connecting(results, b) ==
    UNION {IF ~ r.v.ok \/ ~ r.c.alive THEN {r}
           ELSE IF Size[b] > r.c.limit THEN {[v |-> [r.v EXCEPT !.ok = FALSE], c |-> r.c]}
           ELSE {[v |-> ConnectBlock(r.v, b), c |-> c] : c \in ComputeBlockSize(r.c, b)} :
               r \in results}

\* In a reorganization Velocity is tested as well, as in ConnectChecked.
ConnectingChecked(results, b) ==
    {[v |-> [r.v EXCEPT !.ok = @ /\ VelocityPasses(b)], c |-> r.c] :
        r \in Connecting(results, b)}

\* Mutant: the block found last outlives the change of the best block.
LastAfter_Kept(last) == last

\* pblockindexFBBHLast is forgotten with every new best block.
LastAfter(last) == IF best' # best THEN NoBlock ELSE last

Computed(c) ==
    /\ blocksizes' = c.sizes /\ sorted' = c.sorted /\ maxBlockSize' = c.limit
    /\ lastFound' = LastAfter(c.last)

Restart == Restarted /\ Unset(blocksizes', sorted', maxBlockSize', lastFound', phase')

\* The process goes on, or has followed a null pointer and is started again.
Survived(alive, Step) ==
    \/ alive /\ Step
    \/ ~ alive /\ Restart /\ UNCHANGED crashes

\* "steady": the list was filled and sorted by the first call, and since then
\* only children of the best block were connected, without a failure.
Noted(b, ok) ==
    phase' = IF ok /\ (phase = "steady" \/ (phase = "fresh" /\ Height[b] >= Past))
             THEN "steady" ELSE "disturbed"

\* CheckBlock compares a block's size on arrival (main.cpp:2714), and an orphan
\* reaches AcceptBlock later, when the limit may be another: any block may.
SizedAcceptBlock(b) == AcceptBlock(b) /\ UNCHANGED sizeVars

\* What follows ConnectBlock in every step.
Concluded(r, b, ok) == Computed(r.c) /\ Noted(b, ok)

SizedExtendBest ==
    /\ target # NoBlock /\ Parent[target] = best
    /\ \E r \in Connecting({[v |-> View, c |-> Calculator]}, target) :
           Survived(r.c.alive, Extended(r.v, target) /\ Concluded(r, target, r.v.ok))

SizedReorganize ==
    /\ target # NoBlock /\ Parent[target] # best /\ cursor = NoBlock
    /\ LET b == Intermediate(target) IN
          \/ /\ ~ MayReorganize(b)
             /\ Switched([View EXCEPT !.ok = FALSE], b) /\ UNCHANGED sizeVars
          \/ /\ MayReorganize(b)
             /\ \E r \in FoldLeft(ConnectingChecked,
                                  {[v |-> Unwound(b), c |-> Calculator]},
                                  Path(ForkOf(best, b), b)) :
                    Survived(r.c.alive, Switched(r.v, b) /\ Concluded(r, b, FALSE))

SizedConnectSecondary ==
    /\ target # NoBlock /\ cursor # NoBlock
    /\ LET b == Ancestor(target, Height[cursor] + 1) IN
       \E r \in Connecting({[v |-> View, c |-> Calculator]}, b) :
           Survived(r.c.alive, Continued(r.v, b) /\ Concluded(r, b, FALSE))

\* getblockhash, which looks up any height of the best chain.
LookUp(h) ==
    /\ Idle /\ h <= Height[best]
    /\ LET b == FindBlockByHeight(lastFound, h) IN
       Survived(b # NoBlock,
                /\ lastFound' = b
                /\ UNCHANGED <<vars, blocksizes, sorted, maxBlockSize, phase>>)

SizedCrash == crashes < MaxCrashes /\ crashes' = crashes + 1 /\ Restart

SizedNext ==
    \/ \E b \in Block \ {Genesis} : SizedAcceptBlock(b)
    \/ RefuseBlock /\ UNCHANGED sizeVars
    \/ SizedExtendBest \/ SizedReorganize \/ SizedConnectSecondary
    \/ \E t \in Tx : AcceptToMemoryPool(t) /\ UNCHANGED sizeVars
    \/ \E h \in Range(Height) : LookUp(h)
    \/ SizedCrash

SizedSpec == SizedInit /\ [][SizedNext]_<<vars, sizeVars>>

-----------------------------------------------------------------------------
\* While nothing but children of the best block were connected since the start
\* and the first of them found a full chain, the list that is kept by taking
\* out one size and putting in another gives the same limit as the sizes of the
\* last Past blocks: the comparison in CheckBlock depends on the chain only.
SteadyLimit ==
    (phase = "steady" /\ Idle) =>
        maxBlockSize = LimitOf(Median(Sorted(RecentSizes(best))))

\* "The maximum allowed size for a serialized block, in bytes (network rule)"
\* (main.h:36): nodes with the same best chain have the same limit.
NetworkRule ==
    (Idle /\ blocksizes # <<>>) =>
        maxBlockSize = LimitOf(Median(Sorted(RecentSizes(best))))

\* The last block SetBestChain has connected.
CurrentTip == IF cursor = NoBlock THEN best ELSE cursor

\* The next links lead from the genesis block to the tip.
NoGap(tip) == \A b \in Branch[tip] \ {Genesis} : pnext[Parent[b]] = b

\* What FindBlockByHeight returns at every height, to getblockhash and to the
\* ComputeBlockSize of every block connected, though the search may start at a
\* block found before.  A search that starts on the chain connected so far
\* returns its block, or a null pointer if the next links have a gap, as a
\* failed further block leaves one.  Only while further blocks are connected
\* may it start on the branch that Reorganize has taken out, where pindexBest
\* still is: then it returns that branch's block, or a null pointer above it.
BestChainFound ==
    \A h \in 0 .. Height[CurrentTip] :
        LET start == SearchFrom(lastFound, h)
            found == FindBlockByHeight(lastFound, h)
        IN  \/ /\ start \in Branch[CurrentTip]
               /\ \/ found = Ancestor(CurrentTip, h)
                  \/ found = NoBlock /\ ~ NoGap(CurrentTip)
            \/ /\ cursor # NoBlock /\ start \in Branch[best] \ Branch[CurrentTip]
               /\ found = IF h <= Height[start] THEN Ancestor(best, h) ELSE NoBlock
=============================================================================
