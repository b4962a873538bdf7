------------------------ MODULE ChainLedger_proofs -------------------------
(* What Reorganize makes of the database and the memory pool.  It folds      *)
(* DisconnectBlock and ConnectBlock over two paths of blocks; what each of   *)
(* them keeps is proved here for the fold by an induction of its own, and    *)
(* with it what the stored chain, its links, its money supply and the pool   *)
(* are after every step, for every tree of blocks.                           *)
EXTENDS ChainState_proofs

-----------------------------------------------------------------------------
(* Folds.  FoldLeft is defined by a function on all sets of positions: it    *)
(* exists as each step stays in a set U, and then a property V[i] of the     *)
(* first i steps holds of them all.                                          *)

\* The greatest of a non-empty set of positions.
LEMMA MaxOf ==
    ASSUME NEW n \in Nat, NEW s \in SUBSET (1..n), s # {}
    PROVE  Max(s) \in s /\ \A i \in s : i <= Max(s)
<1> DEFINE T == {n - i : i \in s}
<1>1. T \in SUBSET Nat /\ T # {}
  <2>1. \A i \in s : n - i \in Nat
    OBVIOUS
  <2> QED
    BY <2>1
<1>2. PICK x \in T : \A y \in T : x <= y
  <2> HIDE DEF T
  <2> QED
    BY <1>1, LeastNat
<1>3. PICK m \in s : x = n - m
  BY <1>2
<1>4. \A i \in s : m >= i
  <2> TAKE i \in s
  <2>1. n - m <= n - i
    BY <1>2, <1>3
  <2>2. m \in 1..n /\ i \in 1..n
    OBVIOUS
  <2> QED
    BY <2>1, <2>2
<1>5. \E m0 \in s : \A i \in s : m0 >= i
  BY <1>4
<1>6. Max(s) \in s /\ \A i \in s : Max(s) >= i
  BY <1>5 DEF Max
<1> QED
  BY <1>6

\* g folds F, from the front, over the numbers of every subset of 1..n.
IsFold(g, F, base, U, n) ==
    /\ g \in [SUBSET (1..n) -> U]
    /\ \A s \in SUBSET (1..n) :
           g[s] = IF s = {} THEN base ELSE F[<<g[s \ {Max(s)}], Max(s)>>]

LEMMA FoldExists ==
    ASSUME NEW U, NEW base \in U, NEW n \in Nat, NEW F \in [U \X (1..n) -> U]
    PROVE  \E g : IsFold(g, F, base, U, n)
<1> USE DEF IsFold
<1> DEFINE Folds(g, k) == IsFold(g, F, base, U, k)
           bad == {k \in 0..n : ~ \E g : Folds(g, k)}
<1>1. SUFFICES bad = {}
  <2>1. n \in 0..n
    OBVIOUS
  <2>2. \E g : Folds(g, n)
    BY <1>1, <2>1
  <2> QED
    BY <2>2
<1>2. SUFFICES ASSUME bad # {} PROVE FALSE
  OBVIOUS
<1>3. PICK k \in bad : \A j \in bad : k <= j
  <2>1. bad \in SUBSET Nat
    OBVIOUS
  <2> HIDE DEF bad
  <2> QED
    BY <1>2, <2>1, LeastNat
<1>4. k # 0
  <2> SUFFICES ASSUME k = 0 PROVE FALSE
    OBVIOUS
  <2> DEFINE g == [s \in SUBSET (1..0) |-> base]
  <2>1. Folds(g, 0)
    OBVIOUS
  <2> QED
    BY <2>1
<1>5. PICK f : Folds(f, k - 1)
  <2>1. k - 1 \in 0..n /\ ~ (k <= k - 1)
    BY <1>4
  <2> QED
    BY <1>3, <2>1
<1> DEFINE g == [s \in SUBSET (1..k) |->
                   IF k \in s THEN F[<<f[s \ {k}], k>>] ELSE f[s]]
<1>6. \A s \in SUBSET (1..k) : s \ {k} \in SUBSET (1..(k - 1))
  OBVIOUS
<1>7. g \in [SUBSET (1..k) -> U]
  <2> SUFFICES ASSUME NEW s \in SUBSET (1..k)
               PROVE  (IF k \in s THEN F[<<f[s \ {k}], k>>] ELSE f[s]) \in U
    OBVIOUS
  <2>1. CASE k \in s
    <3>1. f[s \ {k}] \in U
      BY <1>5, <1>6
    <3>2. k \in 1..n
      BY <1>4
    <3> QED
      BY <2>1, <3>1, <3>2
  <2>2. CASE k \notin s
    <3>1. s = s \ {k}
      BY <2>2
    <3>2. s \in SUBSET (1..(k - 1))
      BY <1>6, <3>1
    <3> QED
      BY <1>5, <2>2, <3>2
  <2> QED
    BY <2>1, <2>2
<1>8. ASSUME NEW s \in SUBSET (1..k)
      PROVE  g[s] = IF s = {} THEN base ELSE F[<<g[s \ {Max(s)}], Max(s)>>]
  <2>1. CASE k \in s
    <3>1. Max(s) = k
      <4>1. k \in Nat /\ s # {}
        BY <2>1
      <4>2. Max(s) \in s /\ k <= Max(s)
        BY <2>1, <4>1, MaxOf
      <4>3. Max(s) \in 1..k
        BY <4>2
      <4> QED
        BY <4>1, <4>2, <4>3
    <3>2. s \ {k} \in SUBSET (1..k) /\ k \notin s \ {k}
      OBVIOUS
    <3>3. g[s \ {k}] = f[s \ {k}]
      BY <3>2
    <3>4. g[s] = F[<<f[s \ {k}], k>>]
      BY <2>1
    <3> QED
      BY <2>1, <3>1, <3>3, <3>4
  <2>2. CASE k \notin s
    <3>1. s \in SUBSET (1..(k - 1)) /\ s \ {Max(s)} \in SUBSET (1..(k - 1))
      <4>1. s = s \ {k}
        BY <2>2
      <4> QED
        BY <1>6, <4>1
    <3>2. g[s] = f[s]
      BY <2>2
    <3>3. s \ {Max(s)} \in SUBSET (1..k) /\ k \notin s \ {Max(s)}
      BY <2>2
    <3>4. g[s \ {Max(s)}] = f[s \ {Max(s)}]
      BY <3>3
    <3> QED
      BY <1>5, <3>1, <3>2, <3>4
  <2> QED
    BY <2>1, <2>2
<1>9. Folds(g, k)
  <2> HIDE DEF g
  <2> QED
    BY <1>7, <1>8
<1>10. \E h : Folds(h, k)
  BY <1>9
<1> QED
  <2> HIDE DEF Folds, g
  <2> QED
    BY <1>10
\* The same in the form FoldLeft has it, for the two operators of Reorganize.
UnwindBody(g, base, blocks, n) ==
    [s \in SUBSET (1..n) |->
        IF s = {} THEN base
        ELSE LET m == Max(s) IN DisconnectBlock(g[s \ {m}], blocks[m])]

LEMMA UnwindExists ==
    ASSUME NEW U, NEW base \in U, NEW n \in Nat, NEW blocks,
           \A v \in U : \A i \in 1..n : DisconnectBlock(v, blocks[i]) \in U
    PROVE  \E g : g = UnwindBody(g, base, blocks, n)
<1> DEFINE F == [x \in U \X (1..n) |-> DisconnectBlock(x[1], blocks[x[2]])]
<1>1. F \in [U \X (1..n) -> U]
  OBVIOUS
<1>2. PICK g : IsFold(g, F, base, U, n)
  <2> HIDE DEF F
  <2> QED
    BY <1>1, FoldExists
<1>3. ASSUME NEW s \in SUBSET (1..n), s # {}
      PROVE  g[s] = DisconnectBlock(g[s \ {Max(s)}], blocks[Max(s)])
  <2>1. Max(s) \in 1..n
    BY <1>3, MaxOf
  <2>2. s \ {Max(s)} \in SUBSET (1..n)
    BY <1>3
  <2>3. g[s \ {Max(s)}] \in U
    BY <1>2, <2>2 DEF IsFold
  <2>4. F[<<g[s \ {Max(s)}], Max(s)>>] = DisconnectBlock(g[s \ {Max(s)}], blocks[Max(s)])
    BY <2>1, <2>3
  <2> QED
    BY <1>2, <1>3, <2>4 DEF IsFold
<1>4. g = UnwindBody(g, base, blocks, n)
  <2> HIDE DEF F
  <2> QED
    BY <1>2, <1>3 DEF IsFold, UnwindBody
<1> QED
  BY <1>4

LEMMA UnwindFold ==
    ASSUME NEW U, NEW base \in U, NEW n \in Nat, NEW blocks, DOMAIN blocks = 1..n,
           \A v \in U : \A i \in 1..n : DisconnectBlock(v, blocks[i]) \in U,
           NEW V, base \in V[0],
           \A i \in 1..n : \A v \in V[i - 1] :
               v \in U => DisconnectBlock(v, blocks[i]) \in V[i]
    PROVE  FoldLeft(DisconnectBlock, base, blocks) \in U \cap V[n]
<1> DEFINE Body(g) == UnwindBody(g, base, blocks, n)
           it == CHOOSE g : g = Body(g)
<1>1. \E g : g = Body(g)
  BY UnwindExists
<1> USE DEF UnwindBody
<1>2. it = Body(it)
  <2> HIDE DEF Body
  <2> QED
    BY <1>1
<1>3. FoldLeft(DisconnectBlock, base, blocks) = it[1..n]
  BY DEF FoldLeft, MapThenFoldSet
<1> HIDE DEF it
<1>4. it[{}] = base
  BY <1>2
<1>5. ASSUME NEW k \in 1..n
      PROVE  it[1..k] = DisconnectBlock(it[1..(k - 1)], blocks[k])
  <2>1. 1..k \in SUBSET (1..n) /\ 1..k # {} /\ k \in Nat
    <3>1. k \in Nat /\ k >= 1 /\ k <= n
      OBVIOUS
    <3>2. k \in 1..k
      BY <3>1
    <3>3. \A i \in 1..k : i \in 1..n
      BY <3>1
    <3> QED
      BY <3>1, <3>2, <3>3
  <2>2. Max(1..k) \in 1..k /\ k <= Max(1..k)
    <3>1. 1..k \in SUBSET (1..k)
      OBVIOUS
    <3>2. k \in 1..k
      BY <2>1
    <3>3. Max(1..k) \in 1..k /\ \A i \in 1..k : i <= Max(1..k)
      BY <2>1, <3>1, MaxOf
    <3> QED
      BY <3>2, <3>3
  <2>3. Max(1..k) = k
    BY <2>2
  <2>4. (1..k) \ {k} = 1..(k - 1)
    OBVIOUS
  <2>5. it[1..k] = DisconnectBlock(it[(1..k) \ {Max(1..k)}], blocks[Max(1..k)])
    BY <1>2, <2>1
  <2> QED
    BY <2>3, <2>4, <2>5
<1> HIDE DEF Body
<1> DEFINE bad == {k \in 0..n : it[1..k] \notin U \cap V[k]}
<1>6. bad = {}
  <2> SUFFICES ASSUME bad # {} PROVE FALSE
    OBVIOUS
  <2>1. PICK k \in bad : \A j \in bad : k <= j
    <3>1. bad \in SUBSET Nat
      OBVIOUS
    <3> HIDE DEF bad
    <3> QED
      BY <3>1, LeastNat
  <2>2. k # 0
    <3>1. 1..0 = {}
      OBVIOUS
    <3> QED
      BY <1>4, <3>1
  <2>3. k \in 1..n /\ k - 1 \in 0..n /\ ~ (k <= k - 1)
    BY <2>2
  <2>4. it[1..(k - 1)] \in U \cap V[k - 1]
    BY <2>1, <2>3
  <2>5. it[1..k] \in U \cap V[k]
    BY <1>5, <2>3, <2>4
  <2> QED
    BY <2>1, <2>5
<1>7. n \in 0..n
  OBVIOUS
<1> QED
  BY <1>3, <1>6, <1>7

ConnectBody(g, base, blocks, n) ==
    [s \in SUBSET (1..n) |->
        IF s = {} THEN base
        ELSE LET m == Max(s) IN ConnectChecked(g[s \ {m}], blocks[m])]

LEMMA ConnectExists ==
    ASSUME NEW U, NEW base \in U, NEW n \in Nat, NEW blocks,
           \A v \in U : \A i \in 1..n : ConnectChecked(v, blocks[i]) \in U
    PROVE  \E g : g = ConnectBody(g, base, blocks, n)
<1> DEFINE F == [x \in U \X (1..n) |-> ConnectChecked(x[1], blocks[x[2]])]
<1>1. F \in [U \X (1..n) -> U]
  OBVIOUS
<1>2. PICK g : IsFold(g, F, base, U, n)
  <2> HIDE DEF F
  <2> QED
    BY <1>1, FoldExists
<1>3. ASSUME NEW s \in SUBSET (1..n), s # {}
      PROVE  g[s] = ConnectChecked(g[s \ {Max(s)}], blocks[Max(s)])
  <2>1. Max(s) \in 1..n
    BY <1>3, MaxOf
  <2>2. s \ {Max(s)} \in SUBSET (1..n)
    BY <1>3
  <2>3. g[s \ {Max(s)}] \in U
    BY <1>2, <2>2 DEF IsFold
  <2>4. F[<<g[s \ {Max(s)}], Max(s)>>] = ConnectChecked(g[s \ {Max(s)}], blocks[Max(s)])
    BY <2>1, <2>3
  <2> QED
    BY <1>2, <1>3, <2>4 DEF IsFold
<1>4. g = ConnectBody(g, base, blocks, n)
  <2> HIDE DEF F
  <2> QED
    BY <1>2, <1>3 DEF IsFold, ConnectBody
<1> QED
  BY <1>4

LEMMA ConnectFold ==
    ASSUME NEW U, NEW base \in U, NEW n \in Nat, NEW blocks, DOMAIN blocks = 1..n,
           \A v \in U : \A i \in 1..n : ConnectChecked(v, blocks[i]) \in U,
           NEW V, base \in V[0],
           \A i \in 1..n : \A v \in V[i - 1] :
               v \in U => ConnectChecked(v, blocks[i]) \in V[i]
    PROVE  FoldLeft(ConnectChecked, base, blocks) \in U \cap V[n]
<1> DEFINE Body(g) == ConnectBody(g, base, blocks, n)
           it == CHOOSE g : g = Body(g)
<1>1. \E g : g = Body(g)
  BY ConnectExists
<1> USE DEF ConnectBody
<1>2. it = Body(it)
  <2> HIDE DEF Body
  <2> QED
    BY <1>1
<1>3. FoldLeft(ConnectChecked, base, blocks) = it[1..n]
  BY DEF FoldLeft, MapThenFoldSet
<1> HIDE DEF it
<1>4. it[{}] = base
  BY <1>2
<1>5. ASSUME NEW k \in 1..n
      PROVE  it[1..k] = ConnectChecked(it[1..(k - 1)], blocks[k])
  <2>1. 1..k \in SUBSET (1..n) /\ 1..k # {} /\ k \in Nat
    <3>1. k \in Nat /\ k >= 1 /\ k <= n
      OBVIOUS
    <3>2. k \in 1..k
      BY <3>1
    <3>3. \A i \in 1..k : i \in 1..n
      BY <3>1
    <3> QED
      BY <3>1, <3>2, <3>3
  <2>2. Max(1..k) \in 1..k /\ k <= Max(1..k)
    <3>1. 1..k \in SUBSET (1..k)
      OBVIOUS
    <3>2. k \in 1..k
      BY <2>1
    <3>3. Max(1..k) \in 1..k /\ \A i \in 1..k : i <= Max(1..k)
      BY <2>1, <3>1, MaxOf
    <3> QED
      BY <3>2, <3>3
  <2>3. Max(1..k) = k
    BY <2>2
  <2>4. (1..k) \ {k} = 1..(k - 1)
    OBVIOUS
  <2>5. it[1..k] = ConnectChecked(it[(1..k) \ {Max(1..k)}], blocks[Max(1..k)])
    BY <1>2, <2>1
  <2> QED
    BY <2>3, <2>4, <2>5
<1> HIDE DEF Body
<1> DEFINE bad == {k \in 0..n : it[1..k] \notin U \cap V[k]}
<1>6. bad = {}
  <2> SUFFICES ASSUME bad # {} PROVE FALSE
    OBVIOUS
  <2>1. PICK k \in bad : \A j \in bad : k <= j
    <3>1. bad \in SUBSET Nat
      OBVIOUS
    <3> HIDE DEF bad
    <3> QED
      BY <3>1, LeastNat
  <2>2. k # 0
    <3>1. 1..0 = {}
      OBVIOUS
    <3> QED
      BY <1>4, <3>1
  <2>3. k \in 1..n /\ k - 1 \in 0..n /\ ~ (k <= k - 1)
    BY <2>2
  <2>4. it[1..(k - 1)] \in U \cap V[k - 1]
    BY <2>1, <2>3
  <2>5. it[1..k] \in U \cap V[k]
    BY <1>5, <2>3, <2>4
  <2> QED
    BY <2>1, <2>5
<1>7. n \in 0..n
  OBVIOUS
<1> QED
  BY <1>3, <1>6, <1>7
-----------------------------------------------------------------------------
(* Forks and paths.                                                          *)

\* Two blocks of a branch at one height are the same.
LEMMA OnePerHeight ==
    ASSUME NEW b \in Block, NEW a \in Branch[b], NEW c \in Branch[b], Height[a] = Height[c]
    PROVE  a = c
<1>1. a \in Block /\ c \in Block /\ Height[a] \in Nat /\ Height[c] \in Nat
  BY BranchType
<1>2. a \in Branch[c]
  BY <1>1, BranchIsAChain
<1> QED
  BY <1>1, <1>2, AncestorsBelow

\* From the block below it, a block on the way to a tip.
LEMMA AncestorStep ==
    ASSUME NEW b \in Block, NEW h \in 1 .. Height[b]
    PROVE  LET a == Ancestor(b, h) IN
           /\ a \in Branch[b] /\ a \in Block \ {Genesis} /\ Height[a] = h
           /\ Parent[a] = Ancestor(b, h - 1)
<1> DEFINE a == Ancestor(b, h)
<1>1. Height[b] \in Nat
  BY BranchType
<1>2. h \in 0 .. Height[b] /\ h - 1 \in 0 .. Height[b] /\ h # 0
  BY <1>1
<1>3. a \in Branch[b] /\ a \in Block /\ Height[a] = h
  BY <1>2, AncestorOf
<1>4. a # Genesis
  BY <1>2, <1>3, TreeAssumption
<1>5. /\ Parent[a] \in Block /\ Branch[a] = Branch[Parent[a]] \cup {a}
      /\ Height[a] = Height[Parent[a]] + 1 /\ Height[Parent[a]] \in Nat
      /\ Parent[a] \in Branch[Parent[a]]
  BY <1>3, <1>4, BranchType
<1>6. Parent[a] \in Branch[b]
  BY <1>3, <1>5, BranchesNest
<1>7. Ancestor(b, h - 1) \in Branch[b] /\ Height[Ancestor(b, h - 1)] = h - 1
  BY <1>2, AncestorOf
<1>8. Height[Parent[a]] = h - 1
  BY <1>1, <1>3, <1>5
<1> HIDE DEF a
<1>9. Parent[a] = Ancestor(b, h - 1)
  BY <1>6, <1>7, <1>8, OnePerHeight
<1> QED
  BY <1>3, <1>4, <1>9 DEF a

LEMMA AncestorAt ==
    ASSUME NEW b \in Block, NEW a \in Branch[b]
    PROVE  Ancestor(b, Height[a]) = a /\ Height[a] \in 0 .. Height[b]
<1>1. a \in Block /\ Height[a] \in Nat /\ Height[b] \in Nat
  BY BranchType
<1>2. a = b \/ Height[a] < Height[b]
  BY AncestorsBelow
<1>3. Height[a] \in 0 .. Height[b]
  BY <1>1, <1>2
<1>4. Ancestor(b, Height[a]) \in Branch[b] /\ Height[Ancestor(b, Height[a])] = Height[a]
  BY <1>3, AncestorOf
<1> QED
  BY <1>3, <1>4, OnePerHeight

\* The fork is the tip of what two branches share.
LEMMA ForkIsTip ==
    ASSUME NEW a \in Block, NEW b \in Block
    PROVE  /\ ForkOf(a, b) \in Block
           /\ ForkOf(a, b) \in Branch[a] /\ ForkOf(a, b) \in Branch[b]
           /\ Branch[ForkOf(a, b)] = Branch[a] \cap Branch[b]
<1> DEFINE common == Branch[a] \cap Branch[b]
           T == {Height[a] - Height[c] : c \in common}
<1>1. common \subseteq Block /\ Genesis \in common
  BY BranchType, GenesisBelow
<1>2. \A c \in common : Height[c] \in Nat /\ Height[c] <= Height[a] /\ Height[a] \in Nat
  <2> TAKE c \in common
  <2>1. Height[c] \in 0 .. Height[a] /\ Height[a] \in Nat
    BY AncestorAt, BranchType
  <2> QED
    BY <2>1
<1>3. T \in SUBSET Nat /\ T # {}
  BY <1>1, <1>2
<1>4. PICK x \in T : \A y \in T : x <= y
  <2> HIDE DEF T
  <2> QED
    BY <1>3, LeastNat
<1>5. PICK f0 \in common : x = Height[a] - Height[f0]
  BY <1>4
<1>6. \A c \in common : Height[c] <= Height[f0]
  <2> TAKE c \in common
  <2>1. Height[a] - Height[f0] <= Height[a] - Height[c]
    BY <1>4, <1>5
  <2> QED
    BY <1>2, <2>1
<1> DEFINE f == ForkOf(a, b)
<1>7. f \in common /\ \A c \in common : Height[c] <= Height[f]
  BY <1>6 DEF ForkOf
<1> HIDE DEF f
<1>8. f \in Block /\ f \in Branch[a] /\ f \in Branch[b]
  BY <1>1, <1>7
<1>9. common \subseteq Branch[f]
  BY <1>7, <1>8, BranchIsAChain
<1>10. Branch[f] \subseteq common
  BY <1>8, BranchesNest
<1> QED
  BY <1>8, <1>9, <1>10 DEF f

\* The path from an ancestor up to a tip.
LEMMA PathBlocks ==
    ASSUME NEW to \in Block, NEW from \in Branch[to]
    PROVE  /\ Height[to] - Height[from] \in Nat /\ Height[from] \in Nat
           /\ DOMAIN Path(from, to) = 1 .. Height[to] - Height[from]
           /\ \A i \in 1 .. Height[to] - Height[from] :
                 LET c == Path(from, to)[i] IN
                 /\ c = Ancestor(to, Height[from] + i)
                 /\ c \in Block \ {Genesis} /\ c \in Branch[to]
                 /\ c \notin Branch[from]
                 /\ Parent[c] = Ancestor(to, Height[from] + i - 1)
<1>1. /\ from \in Block /\ Height[from] \in Nat /\ Height[to] \in Nat
      /\ Height[from] <= Height[to]
  <2>1. Height[from] \in 0 .. Height[to] /\ Height[to] \in Nat /\ from \in Block
    BY AncestorAt, BranchType
  <2> QED
    BY <2>1
<1>2. ASSUME NEW i \in 1 .. Height[to] - Height[from]
      PROVE  LET c == Path(from, to)[i] IN
             /\ c = Ancestor(to, Height[from] + i)
             /\ c \in Block \ {Genesis} /\ c \in Branch[to]
             /\ c \notin Branch[from]
             /\ Parent[c] = Ancestor(to, Height[from] + i - 1)
  <2> DEFINE c == Ancestor(to, Height[from] + i)
  <2>1. PICK h \in 1 .. Height[to] : h = Height[from] + i
    BY <1>1
  <2>2. /\ c \in Branch[to] /\ c \in Block \ {Genesis} /\ Height[c] = Height[from] + i
        /\ Parent[c] = Ancestor(to, Height[from] + i - 1)
    <3>1. /\ Ancestor(to, h) \in Branch[to] /\ Ancestor(to, h) \in Block \ {Genesis}
          /\ Height[Ancestor(to, h)] = h /\ Parent[Ancestor(to, h)] = Ancestor(to, h - 1)
      BY AncestorStep
    <3>2. h - 1 = Height[from] + i - 1
      BY <1>1, <2>1
    <3> HIDE DEF c
    <3> QED
      BY <2>1, <3>1, <3>2, Zenon DEF c
  <2>3. Path(from, to)[i] = c
    BY DEF Path
  <2>4. c \notin Branch[from]
    <3> SUFFICES ASSUME c \in Branch[from] PROVE FALSE
      OBVIOUS
    <3>1. Height[c] \in 0 .. Height[from]
      BY <1>1, AncestorAt
    <3> QED
      BY <1>1, <2>2, <3>1
  <2>5. Path(from, to)[i] = Ancestor(to, Height[from] + i)
    BY <2>3
  <2> QED
    BY <2>2, <2>4, <2>5
<1>3. Height[to] - Height[from] \in Nat
  BY <1>1
<1>4. DOMAIN Path(from, to) = 1 .. Height[to] - Height[from]
  BY DEF Path
<1> QED
  BY <1>1, <1>2, <1>3, <1>4

\* The same path from the tip down.
LEMMA ReversePath ==
    ASSUME NEW to \in Block, NEW from \in Branch[to]
    PROVE  LET n == Height[to] - Height[from]
               down == Reverse(Path(from, to))
           IN  /\ DOMAIN down = 1 .. n
               /\ \A i \in 1 .. n :
                     /\ down[i] = Ancestor(to, Height[to] - (i - 1))
                     /\ down[i] \in Block \ {Genesis} /\ down[i] \in Branch[to]
                     /\ Parent[down[i]] = Ancestor(to, Height[to] - i)
<1> DEFINE n == Height[to] - Height[from]
           path == Path(from, to)
           down == Reverse(path)
<1>1. n \in Nat /\ DOMAIN path = 1 .. n /\ Height[from] \in Nat
  BY PathBlocks
<1>2. Len(path) = n
  BY <1>1 DEF Path
<1>3. down = [i \in 1 .. n |-> path[n - i + 1]]
  BY <1>2 DEF Reverse
<1>4. ASSUME NEW i \in 1 .. n
      PROVE  /\ down[i] = Ancestor(to, Height[to] - (i - 1))
             /\ down[i] \in Block \ {Genesis} /\ down[i] \in Branch[to]
             /\ Parent[down[i]] = Ancestor(to, Height[to] - i)
  <2>1. n - i + 1 \in 1 .. n
    BY <1>1
  <2>2. down[i] = path[n - i + 1]
    BY <1>3
  <2>3. Height[to] \in Nat
    BY BranchType
  <2>4. /\ Height[from] + (n - i + 1) = Height[to] - (i - 1)
        /\ Height[from] + (n - i + 1) - 1 = Height[to] - i
    BY <1>1, <2>3
  <2>5. /\ path[n - i + 1] = Ancestor(to, Height[from] + (n - i + 1))
        /\ path[n - i + 1] \in Block \ {Genesis} /\ path[n - i + 1] \in Branch[to]
        /\ Parent[path[n - i + 1]] = Ancestor(to, Height[from] + (n - i + 1) - 1)
    BY <2>1, PathBlocks
  <2> HIDE DEF down, path, n
  <2> QED
    BY <2>2, <2>4, <2>5
<1> HIDE DEF path
<1> QED
  BY <1>3, <1>4 DEF path
-----------------------------------------------------------------------------
(* Views and their types.                                                    *)

ViewSet ==
    [ok : BOOLEAN, tx : [Tx -> Tx \cup {Absent, Unspent}],
     next : [Block -> Block \cup {NoBlock}],
     disk : [Block -> Nat], mem : [Block -> Nat]]

\* The tables of the database and of the block index have their types.
TableInv ==
    /\ WorkInv
    /\ dbNext \in [Block -> Block \cup {NoBlock}]
    /\ pnext \in [Block -> Block \cup {NoBlock}]
    /\ dbSupply \in [Block -> Nat] /\ moneySupply \in [Block -> Nat]
    /\ dbTx \in [Tx -> Tx \cup {Absent, Unspent}]

LEMMA ViewFields ==
    ASSUME NEW v \in ViewSet
    PROVE  /\ v.ok \in BOOLEAN /\ v.tx \in [Tx -> Tx \cup {Absent, Unspent}]
           /\ v.next \in [Block -> Block \cup {NoBlock}]
           /\ v.disk \in [Block -> Nat] /\ v.mem \in [Block -> Nat]
           /\ v = [ok |-> v.ok, tx |-> v.tx, next |-> v.next, disk |-> v.disk, mem |-> v.mem]
  BY DEF ViewSet

LEMMA ViewOfTables ==
    ASSUME TableInv
    PROVE  /\ View \in ViewSet /\ View.ok = TRUE /\ View.tx = dbTx /\ View.next = dbNext
           /\ View.disk = dbSupply /\ View.mem = moneySupply
  BY DEF TableInv, View, ViewSet

LEMMA ViewWithOk ==
    ASSUME NEW v \in ViewSet, NEW ok
    PROVE  [v EXCEPT !.ok = ok] =
               [ok |-> ok, tx |-> v.tx, next |-> v.next, disk |-> v.disk, mem |-> v.mem]
  BY DEF ViewSet

\* The fields of what DisconnectBlock makes of a view.
LEMMA DisconnectFields ==
    ASSUME NEW v \in ViewSet, NEW b \in Block \ {Genesis}
    PROVE  LET w == DisconnectBlock(v, b) IN
           /\ w \in ViewSet
           /\ w.ok = (v.ok /\ \A i \in SpentBy(TxsOf[b]) : v.tx[i] # Absent)
           /\ w.tx = Disconnected(v.tx, b)
           /\ w.next = [v.next EXCEPT ![Parent[b]] = NoBlock]
           /\ w.disk = [v.disk EXCEPT ![Parent[b]] = v.mem[Parent[b]]]
           /\ w.mem = v.mem
<1> DEFINE ok == v.ok /\ \A i \in SpentBy(TxsOf[b]) : v.tx[i] # Absent
           tx == Disconnected(v.tx, b)
           next == [v.next EXCEPT ![Parent[b]] = NoBlock]
           disk == [v.disk EXCEPT ![Parent[b]] = v.mem[Parent[b]]]
<1>1. Parent[b] \in Block
  BY TreeAssumption
<1>2. tx \in [Tx -> Tx \cup {Absent, Unspent}]
  <2>1. \A t \in Tx : v.tx[t] \in Tx \cup {Absent, Unspent}
    BY ViewFields
  <2> QED
    BY <2>1 DEF Disconnected
<1>3. next \in [Block -> Block \cup {NoBlock}]
  BY <1>1, ViewFields
<1>4. disk \in [Block -> Nat]
  BY <1>1, ViewFields
<1>5. ok \in BOOLEAN
  OBVIOUS
<1>6. DisconnectBlock(v, b) =
          [ok |-> ok, tx |-> tx, next |-> next, disk |-> disk, mem |-> v.mem]
  BY Zenon DEF DisconnectBlock
<1> HIDE DEF ok, tx, next, disk
<1>7. DisconnectBlock(v, b) \in ViewSet
  BY <1>2, <1>3, <1>4, <1>5, <1>6, ViewFields DEF ViewSet
<1>8. LET w == DisconnectBlock(v, b) IN
      w.ok = ok /\ w.tx = tx /\ w.next = next /\ w.disk = disk /\ w.mem = v.mem
  BY <1>6
<1> QED
  BY <1>7, <1>8 DEF ok, tx, next, disk

\* The fields of what ConnectBlock makes of a view, when it succeeds.
LEMMA ConnectFields ==
    ASSUME TableInv, NEW v \in ViewSet, NEW b \in Block \ {Genesis}
    PROVE  LET w == ConnectBlock(v, b)
               supply == v.mem[Parent[b]] + Mint[b]
           IN  /\ w \in ViewSet
               /\ ~ w.ok => w = [v EXCEPT !.ok = FALSE] /\ w.mem = v.mem
               /\ w.ok => /\ v.ok /\ b \notin Invalid /\ InputsAvailable(v.tx, b)
                          /\ w.tx = Connected(v.tx, b)
                          /\ w.next = [v.next EXCEPT ![b] = pnext[b], ![Parent[b]] = b]
                          /\ w.mem = [v.mem EXCEPT ![b] = supply]
                          /\ w.disk = [v.disk EXCEPT ![b] = supply,
                                                     ![Parent[b]] = v.mem[Parent[b]]]
<1> DEFINE supply == v.mem[Parent[b]] + Mint[b]
           tx == Connected(v.tx, b)
           next == [v.next EXCEPT ![b] = pnext[b], ![Parent[b]] = b]
           mem == [v.mem EXCEPT ![b] = supply]
           disk == [v.disk EXCEPT ![b] = supply, ![Parent[b]] = v.mem[Parent[b]]]
           good == v.ok /\ b \notin Invalid /\ InputsAvailable(v.tx, b)
<1>1. Parent[b] \in Block /\ Mint[b] \in Nat
  BY TreeAssumption, TxAssumption
<1>2. supply \in Nat /\ v.mem[Parent[b]] \in Nat
  BY <1>1, ViewFields
<1>3. tx \in [Tx -> Tx \cup {Absent, Unspent}]
  <2>1. \A t \in Tx : v.tx[t] \in Tx \cup {Absent, Unspent}
    BY ViewFields
  <2>2. ASSUME NEW t \in Tx, t \in SpentBy(TxsOf[b])
        PROVE  (CHOOSE u \in TxsOf[b] : t \in Inputs[u]) \in Tx
    <3>1. \E u \in TxsOf[b] : t \in Inputs[u]
      BY <2>2 DEF SpentBy
    <3>2. (CHOOSE u \in TxsOf[b] : t \in Inputs[u]) \in TxsOf[b]
      BY <3>1
    <3> QED
      BY <3>2, TxAssumption
  <2> QED
    BY <2>1, <2>2 DEF Connected
<1>4. next \in [Block -> Block \cup {NoBlock}]
  BY <1>1, ViewFields DEF TableInv
<1>5. mem \in [Block -> Nat] /\ disk \in [Block -> Nat]
  BY <1>1, <1>2, ViewFields
<1>6. CASE ~ good
  <2>1. ConnectBlock(v, b) = [v EXCEPT !.ok = FALSE]
    BY <1>6 DEF ConnectBlock
  <2>2. /\ ConnectBlock(v, b) \in ViewSet /\ ConnectBlock(v, b).ok = FALSE
        /\ ConnectBlock(v, b).mem = v.mem
    <3>1. [v EXCEPT !.ok = FALSE] =
              [ok |-> FALSE, tx |-> v.tx, next |-> v.next, disk |-> v.disk, mem |-> v.mem]
      BY ViewWithOk, Zenon
    <3> QED
      BY <2>1, <3>1, ViewFields DEF ViewSet
  <2> QED
    BY <2>1, <2>2
<1>7. CASE good
  <2>1. ConnectBlock(v, b) =
            [ok |-> TRUE, tx |-> tx, next |-> next, disk |-> disk, mem |-> mem]
    BY <1>7, Zenon DEF ConnectBlock
  <2> HIDE DEF tx, next, disk, mem
  <2>2. /\ ConnectBlock(v, b) \in ViewSet
        /\ ConnectBlock(v, b).ok = TRUE /\ ConnectBlock(v, b).tx = tx
        /\ ConnectBlock(v, b).next = next /\ ConnectBlock(v, b).mem = mem
        /\ ConnectBlock(v, b).disk = disk
    BY <1>3, <1>4, <1>5, <2>1, ViewFields DEF ViewSet
  <2> QED
    BY <1>7, <2>2 DEF tx, next, disk, mem
<1> QED
  BY <1>6, <1>7

LEMMA CheckedFields ==
    ASSUME TableInv, NEW v \in ViewSet, NEW b \in Block \ {Genesis}
    PROVE  LET w == ConnectBlock(v, b)
               x == ConnectChecked(v, b)
           IN  /\ x \in ViewSet /\ w \in ViewSet /\ (x.ok => w.ok)
               /\ x.tx = w.tx /\ x.next = w.next /\ x.disk = w.disk /\ x.mem = w.mem
<1> DEFINE w == ConnectBlock(v, b)
<1>1. w \in ViewSet
  BY ConnectFields
<1>2. ConnectChecked(v, b) = [w EXCEPT !.ok = @ /\ VelocityPasses(b)]
  BY DEF ConnectChecked
<1> DEFINE ok == w.ok /\ VelocityPasses(b)
<1>3. ConnectChecked(v, b) =
          [ok |-> ok, tx |-> w.tx, next |-> w.next, disk |-> w.disk, mem |-> w.mem]
  <2>1. [w EXCEPT !.ok = ok] =
            [ok |-> ok, tx |-> w.tx, next |-> w.next, disk |-> w.disk, mem |-> w.mem]
    <3> HIDE DEF w, ok
    <3> QED
      BY <1>1, ViewWithOk
  <2> QED
    BY <1>2, <2>1, Zenon
<1>4. ok \in BOOLEAN /\ (ok => w.ok)
  OBVIOUS
<1> HIDE DEF w, ok
<1>5. ConnectChecked(v, b) \in ViewSet
  BY <1>1, <1>3, <1>4, ViewFields DEF ViewSet
<1>6. LET x == ConnectChecked(v, b) IN
      /\ x.ok = ok /\ x.tx = w.tx /\ x.next = w.next /\ x.disk = w.disk /\ x.mem = w.mem
  BY <1>3
<1> QED
  BY <1>1, <1>4, <1>5, <1>6 DEF w
-----------------------------------------------------------------------------
(* What is in the transaction index after a reorganization was there before  *)
(* or is in a block of the new branch.                                       *)

Fresh(v, txs) ==
    v.ok => \A t \in Tx : v.tx[t] # Absent => dbTx[t] # Absent \/ t \in txs

LEMMA DisconnectFresh ==
    ASSUME NEW v \in ViewSet, NEW b \in Block \ {Genesis}, NEW txs, Fresh(v, txs)
    PROVE  Fresh(DisconnectBlock(v, b), txs)
<1> DEFINE w == DisconnectBlock(v, b)
<1>1. /\ w.ok = (v.ok /\ \A i \in SpentBy(TxsOf[b]) : v.tx[i] # Absent)
      /\ w.tx = Disconnected(v.tx, b)
  BY DisconnectFields
<1> HIDE DEF w
<1> SUFFICES ASSUME w.ok, NEW t \in Tx, w.tx[t] # Absent
             PROVE  dbTx[t] # Absent \/ t \in txs
  BY DEF Fresh, w
<1>2. v.ok /\ \A i \in SpentBy(TxsOf[b]) : v.tx[i] # Absent
  BY <1>1
<1>3. v.tx[t] # Absent
  BY <1>1, <1>2 DEF Disconnected
<1> QED
  BY <1>2, <1>3 DEF Fresh

LEMMA ConnectFresh ==
    ASSUME TableInv, NEW v \in ViewSet, NEW b \in Block \ {Genesis}, NEW txs,
           TxsOf[b] \subseteq txs, Fresh(v, txs)
    PROVE  Fresh(ConnectBlock(v, b), txs)
<1> DEFINE w == ConnectBlock(v, b)
<1>1. w.ok => /\ v.ok /\ InputsAvailable(v.tx, b)
              /\ w.tx = Connected(v.tx, b)
  BY ConnectFields
<1> HIDE DEF w
<1> SUFFICES ASSUME w.ok, NEW t \in Tx, w.tx[t] # Absent
             PROVE  dbTx[t] # Absent \/ t \in txs
  BY DEF Fresh, w
<1>2. CASE t \in SpentBy(TxsOf[b])
  <2>1. t \in TxsOf[b] \/ v.tx[t] = Unspent
    BY <1>1, <1>2 DEF InputsAvailable
  <2> QED
    BY <1>1, <2>1, ChainAssumption DEF Fresh
<1>3. CASE t \notin SpentBy(TxsOf[b])
  <2>1. t \in TxsOf[b] \/ w.tx[t] = v.tx[t]
    BY <1>1, <1>3 DEF Connected
  <2> QED
    BY <1>1, <2>1 DEF Fresh
<1> QED
  BY <1>2, <1>3

LEMMA CheckedFresh ==
    ASSUME TableInv, NEW v \in ViewSet, NEW b \in Block \ {Genesis}, NEW txs,
           TxsOf[b] \subseteq txs, Fresh(v, txs)
    PROVE  ConnectChecked(v, b) \in ViewSet /\ Fresh(ConnectChecked(v, b), txs)
<1>1. Fresh(ConnectBlock(v, b), txs)
  BY ConnectFresh
<1> DEFINE w == ConnectBlock(v, b)
           x == ConnectChecked(v, b)
<1>2. x \in ViewSet /\ (x.ok => w.ok) /\ x.tx = w.tx
  BY CheckedFields
<1> HIDE DEF w, x
<1> QED
  BY <1>1, <1>2 DEF Fresh, w, x

LEMMA UnwoundFresh ==
    ASSUME TableInv, NEW b \in Block, NEW txs
    PROVE  Unwound(b) \in ViewSet /\ Fresh(Unwound(b), txs)
<1> DEFINE f == ForkOf(best, b)
           n == Height[best] - Height[f]
           down == Reverse(Path(f, best))
           V == [i \in 0 .. n |-> {v \in ViewSet : Fresh(v, txs)}]
<1>1. best \in Block
  BY DEF TableInv, WorkInv
<1>2. f \in Branch[best]
  BY <1>1, ForkIsTip
<1>3. n \in Nat
  BY <1>1, <1>2, PathBlocks
<1>4. DOMAIN down = 1 .. n /\ \A i \in 1 .. n : down[i] \in Block \ {Genesis}
  BY <1>1, <1>2, ReversePath
<1>5. View \in ViewSet /\ View \in V[0]
  <2>1. View \in ViewSet /\ View.tx = dbTx
    BY ViewOfTables
  <2> QED
    BY <1>3, <2>1 DEF Fresh
<1> HIDE DEF f, n, down
<1>6. \A v \in ViewSet : \A i \in 1 .. n : DisconnectBlock(v, down[i]) \in ViewSet
  BY <1>4, DisconnectFields
<1>7. \A i \in 1 .. n : \A v \in V[i - 1] :
          v \in ViewSet => DisconnectBlock(v, down[i]) \in V[i]
  <2> SUFFICES ASSUME NEW i \in 1 .. n, NEW v \in V[i - 1]
               PROVE  DisconnectBlock(v, down[i]) \in V[i]
    OBVIOUS
  <2>1. i \in 0 .. n /\ i - 1 \in 0 .. n
    BY <1>3
  <2>2. v \in ViewSet /\ Fresh(v, txs)
    BY <2>1
  <2>3. Fresh(DisconnectBlock(v, down[i]), txs)
    BY <1>4, <2>2, DisconnectFresh
  <2> QED
    BY <1>6, <2>1, <2>2, <2>3
<1>8. n \in 0 .. n
  BY <1>3
<1> HIDE DEF V
<1>9. FoldLeft(DisconnectBlock, View, down) \in ViewSet \cap V[n]
  BY <1>3, <1>4, <1>5, <1>6, <1>7, UnwindFold
<1> QED
  BY <1>8, <1>9 DEF V, Unwound, down, f

LEMMA ReorganizedFresh ==
    ASSUME TableInv, NEW b \in Block
    PROVE  /\ Reorganized(b) \in ViewSet
           /\ Fresh(Reorganized(b), TxsIn(Branch[b] \ Branch[best]))
<1> DEFINE f == ForkOf(best, b)
           n == Height[b] - Height[f]
           up == Path(f, b)
           txs == TxsIn(Branch[b] \ Branch[best])
           V == [i \in 0 .. n |-> {v \in ViewSet : Fresh(v, txs)}]
<1>1. best \in Block
  BY DEF TableInv, WorkInv
<1>2. f \in Branch[b] /\ Branch[f] = Branch[best] \cap Branch[b]
  BY <1>1, ForkIsTip
<1>3. n \in Nat
  BY <1>2, PathBlocks
<1>4. DOMAIN up = 1 .. n
  BY <1>2, PathBlocks
<1>5. \A i \in 1 .. n : up[i] \in Block \ {Genesis} /\ TxsOf[up[i]] \subseteq txs
  <2> TAKE i \in 1 .. n
  <2>1. up[i] \in Block \ {Genesis} /\ up[i] \in Branch[b] /\ up[i] \notin Branch[f]
    BY <1>2, PathBlocks
  <2> HIDE DEF up
  <2>2. up[i] \in Branch[b] \ Branch[best]
    BY <1>2, <2>1
  <2> QED
    BY <2>1, <2>2 DEF TxsIn
<1>6. Unwound(b) \in ViewSet /\ Fresh(Unwound(b), txs)
  BY UnwoundFresh
<1>7. Unwound(b) \in V[0]
  BY <1>3, <1>6
<1> HIDE DEF f, n, up, txs
<1>8. \A v \in ViewSet : \A i \in 1 .. n : ConnectChecked(v, up[i]) \in ViewSet
  BY <1>5, CheckedFields
<1>9. \A i \in 1 .. n : \A v \in V[i - 1] :
          v \in ViewSet => ConnectChecked(v, up[i]) \in V[i]
  <2> SUFFICES ASSUME NEW i \in 1 .. n, NEW v \in V[i - 1]
               PROVE  ConnectChecked(v, up[i]) \in V[i]
    OBVIOUS
  <2>1. i \in 0 .. n /\ i - 1 \in 0 .. n
    BY <1>3
  <2>2. v \in ViewSet /\ Fresh(v, txs)
    BY <2>1
  <2>3. Fresh(ConnectChecked(v, up[i]), txs)
    BY <1>5, <2>2, CheckedFresh
  <2> QED
    BY <1>8, <2>1, <2>2, <2>3
<1>10. n \in 0 .. n
  BY <1>3
<1> HIDE DEF V
<1>11. FoldLeft(ConnectChecked, Unwound(b), up) \in ViewSet \cap V[n]
  BY <1>3, <1>4, <1>6, <1>7, <1>8, <1>9, ConnectFold
<1> QED
  BY <1>10, <1>11 DEF V, Reorganized, up, f, txs
-----------------------------------------------------------------------------
(* The type invariant and the memory pool.                                   *)

PoolInv == WorkInv /\ TypeOK /\ PoolUnconfirmed /\ PoolConflictFree

LEMMA TypesOfTables == ASSUME WorkInv, TypeOK PROVE TableInv
  BY DEF TypeOK, TableInv

LEMMA CommittedTypes ==
    ASSUME NEW v \in ViewSet, NEW b \in Block, Commit(v, b)
    PROVE  /\ dbBest' \in Block /\ dbNext' \in [Block -> Block \cup {NoBlock}]
           /\ dbSupply' \in [Block -> Nat] /\ moneySupply' \in [Block -> Nat]
           /\ dbTx' \in [Tx -> Tx \cup {Absent, Unspent}]
           /\ index' = index
  BY ViewFields DEF Commit

LEMMA AbortedTypes ==
    ASSUME NEW v \in ViewSet, Abort(v)
    PROVE  moneySupply' \in [Block -> Nat] /\ UNCHANGED <<index, dbBest, dbNext, dbSupply, dbTx>>
  BY ViewFields DEF Abort, dbVars

LEMMA RelinkedType ==
    ASSUME TypeOK, NEW b \in Block, NEW f \in Block
    PROVE  Relinked(f, b) \in [Block -> Block \cup {NoBlock}]
<1>1. ASSUME NEW c \in Block, c \in Branch[b], c # b
      PROVE  Ancestor(b, Height[c] + 1) \in Block
  BY <1>1, NextOnBranch
<1>2. \A c \in Block : pnext[c] \in Block \cup {NoBlock}
  BY DEF TypeOK
<1> QED
  BY <1>1, <1>2 DEF Relinked

LEMMA LinkedType ==
    ASSUME TypeOK, NEW b \in Block, NEW p
    PROVE  [pnext EXCEPT ![p] = b] \in [Block -> Block \cup {NoBlock}]
  BY DEF TypeOK

\* What a block confirms and what conflicts with it leaves the pool.
LEMMA ConfirmedLeave ==
    ASSUME NEW txs, NEW confirmed
    PROVE  /\ RemoveConfirmed(txs, confirmed) \subseteq txs
           /\ RemoveConfirmed(txs, confirmed) \cap confirmed = {}
  BY DEF RemoveConfirmed, RemoveRecursive

LEMMA ReadmittedFit ==
    ASSUME PoolConflictFree, NEW tx, NEW ts \in SUBSET Tx, NEW back \in Readmitted(pool, tx, ts)
    PROVE  /\ back \subseteq Tx
           /\ \A t \in back : tx[t] = Absent
           /\ \A t, u \in pool \cup back : t # u => Inputs[t] \cap Inputs[u] = {}
<1>1. /\ \A t \in back : t \in ts /\ PoolAccepts(pool, tx, t)
      /\ \A t, u \in back : t # u => Inputs[t] \cap Inputs[u] = {}
  BY DEF Readmitted
<1>2. \A t \in back : tx[t] = Absent /\ \A u \in pool : Inputs[u] \cap Inputs[t] = {}
  BY <1>1 DEF PoolAccepts
<1> QED
  BY <1>1, <1>2 DEF PoolConflictFree

\* A committed view in which only txs are new, and a pool without them.
LEMMA PoolStaysUnconfirmed ==
    ASSUME PoolUnconfirmed, pool \in SUBSET Tx, NEW v, v.ok, NEW txs, Fresh(v, txs), dbTx' = v.tx,
           \A t \in pool' : t \in Tx /\ t \notin txs /\ (t \in pool \/ v.tx[t] = Absent)
    PROVE  PoolUnconfirmed'
<1> SUFFICES ASSUME NEW t \in pool' PROVE v.tx[t] = Absent
  BY DEF PoolUnconfirmed
<1>1. CASE t \in pool
  <2>1. dbTx[t] = Absent
    BY <1>1 DEF PoolUnconfirmed
  <2> QED
    BY <2>1 DEF Fresh
<1> QED
  BY <1>1

LEMMA AttachedPool ==
    ASSUME PoolInv, NEW v \in ViewSet, NEW b \in Block, v.ok, Fresh(v, TxsOf[b]), Attached(v, b)
    PROVE  /\ pool' \in SUBSET Tx /\ PoolUnconfirmed' /\ PoolConflictFree'
           /\ pnext' \in [Block -> Block \cup {NoBlock}]
<1>1. pool \in SUBSET Tx /\ PoolUnconfirmed /\ PoolConflictFree /\ TypeOK
  BY DEF PoolInv, TypeOK
<1>2. pool' = pool \ TxsOf[b] /\ dbTx' = v.tx /\ pnext' = [pnext EXCEPT ![Parent[b]] = b]
  BY DEF Attached, Commit
<1>3. PoolUnconfirmed'
  BY <1>1, <1>2, PoolStaysUnconfirmed
<1>4. PoolConflictFree'
  BY <1>1, <1>2 DEF PoolConflictFree
<1> QED
  BY <1>1, <1>2, <1>3, <1>4, LinkedType

LEMMA FreshOfTables ==
    ASSUME TableInv, NEW txs
    PROVE  View \in ViewSet /\ Fresh(View, txs)
  BY ViewOfTables DEF Fresh

LEMMA AcceptPool ==
    ASSUME PoolInv, NEW b \in Block, AcceptBlock(b)
    PROVE  TypeOK' /\ PoolUnconfirmed' /\ PoolConflictFree'
  BY DEF PoolInv, AcceptBlock, TypeOK, PoolUnconfirmed, PoolConflictFree

LEMMA ExtendPool ==
    ASSUME PoolInv, ExtendBest
    PROVE  TypeOK' /\ PoolUnconfirmed' /\ PoolConflictFree'
<1> DEFINE v == ConnectBlock(View, target)
<1>1. WorkInv /\ TypeOK /\ PoolUnconfirmed /\ PoolConflictFree /\ TableInv
  BY TypesOfTables DEF PoolInv
<1>2. target \in Block /\ target # Genesis
  <2>1. target \in Block /\ ChainTrust[target] > ChainTrust[best] /\ best \in Block
    BY <1>1 DEF WorkInv, ExtendBest
  <2>2. ChainTrust[Genesis] <= ChainTrust[best]
    BY <2>1, GenesisBelow
  <2> QED
    BY <2>1, <2>2, TreeAssumption, TrustAssumption
<1>3. v \in ViewSet /\ Fresh(v, TxsOf[target])
  BY <1>1, <1>2, FreshOfTables, ConnectFields, ConnectFresh
<1>4. Extended(v, target)
  BY DEF ExtendBest
<1> HIDE DEF v
<1>5. CASE v.ok /\ Attached(v, target) /\ NewBest(target)
  <2>1. /\ pool' \in SUBSET Tx /\ PoolUnconfirmed' /\ PoolConflictFree'
        /\ pnext' \in [Block -> Block \cup {NoBlock}]
    BY <1>2, <1>3, <1>5, AttachedPool
  <2>2. Commit(v, target)
    BY <1>5 DEF Attached
  <2>3. TypeOK'
    BY <1>1, <1>2, <1>3, <1>4, <1>5, <2>1, <2>2, CommittedTypes
       DEF TypeOK, NewBest, Extended
  <2> QED
    BY <2>1, <2>3
<1>6. CASE ~ v.ok /\ Abort(v) /\ Refused /\ UNCHANGED <<pnext, pool>>
  <2>1. TypeOK'
    BY <1>1, <1>3, <1>4, <1>6, AbortedTypes DEF TypeOK, Refused, Extended
  <2>2. PoolUnconfirmed' /\ PoolConflictFree'
    BY <1>1, <1>6, <1>3, AbortedTypes DEF PoolUnconfirmed, PoolConflictFree
  <2> QED
    BY <2>1, <2>2
<1> QED
  BY <1>4, <1>5, <1>6 DEF Extended

LEMMA SecondaryPool ==
    ASSUME PoolInv, ConnectSecondary
    PROVE  TypeOK' /\ PoolUnconfirmed' /\ PoolConflictFree'
<1>1. WorkInv /\ TypeOK /\ PoolUnconfirmed /\ PoolConflictFree /\ TableInv
  BY TypesOfTables DEF PoolInv
<1>2. PICK b : b = Ancestor(target, Height[cursor] + 1)
  OBVIOUS
<1>3. b \in Block \ {Genesis} /\ target \in Block
  <2>1. target \in Block /\ cursor \in Branch[target] /\ cursor # target
    BY <1>1 DEF WorkInv, ConnectSecondary
  <2>2. b \in Block /\ ChainTrust[b] > ChainTrust[cursor] /\ cursor \in Block
    BY <1>2, <2>1, NextOnBranch, BranchType
  <2>3. ChainTrust[Genesis] <= ChainTrust[cursor]
    BY <2>2, GenesisBelow
  <2> QED
    BY <2>1, <2>2, <2>3, TreeAssumption, TrustAssumption
<1> DEFINE v == ConnectBlock(View, b)
<1>4. v \in ViewSet /\ Fresh(v, TxsOf[b])
  BY <1>1, <1>3, FreshOfTables, ConnectFields, ConnectFresh
<1>5. Continued(v, b)
  BY <1>2 DEF ConnectSecondary
<1> HIDE DEF v
<1>6. CASE v.ok /\ Attached(v, b) /\ Advanced(b)
  <2>1. /\ pool' \in SUBSET Tx /\ PoolUnconfirmed' /\ PoolConflictFree'
        /\ pnext' \in [Block -> Block \cup {NoBlock}]
    BY <1>3, <1>4, <1>6, AttachedPool
  <2>2. Commit(v, b)
    BY <1>6 DEF Attached
  <2>3. TypeOK'
    BY <1>1, <1>3, <1>4, <1>5, <1>6, <2>1, <2>2, CommittedTypes
       DEF TypeOK, Advanced, NewBest, Continued
  <2> QED
    BY <2>1, <2>3
<1>7. CASE ~ v.ok /\ Abort(v) /\ NewBest(target) /\ UNCHANGED <<pnext, pool>>
  <2>1. TypeOK'
    BY <1>1, <1>3, <1>4, <1>5, <1>7, AbortedTypes DEF TypeOK, NewBest, Continued
  <2>2. PoolUnconfirmed' /\ PoolConflictFree'
    BY <1>1, <1>4, <1>7, AbortedTypes DEF PoolUnconfirmed, PoolConflictFree
  <2> QED
    BY <2>1, <2>2
<1> QED
  BY <1>5, <1>6, <1>7 DEF Continued
LEMMA ReorganizePool ==
    ASSUME PoolInv, Reorganize
    PROVE  TypeOK' /\ PoolUnconfirmed' /\ PoolConflictFree'
<1>1. WorkInv /\ TypeOK /\ PoolUnconfirmed /\ PoolConflictFree /\ TableInv
  BY TypesOfTables DEF PoolInv
<1>2. PICK b : b = Intermediate(target)
  OBVIOUS
<1>3. b \in Block /\ best \in Block /\ target \in Block
  <2>1. target \in Block /\ best \in Block /\ ChainTrust[target] > ChainTrust[best]
    BY <1>1 DEF WorkInv, Reorganize
  <2> QED
    BY <1>2, <2>1, IntermediateIsHeavier
<1> DEFINE refused == [View EXCEPT !.ok = FALSE]
           v == IF MayReorganize(b) THEN Reorganized(b) ELSE refused
           txs == TxsIn(Branch[b] \ Branch[best])
<1>4. refused \in ViewSet /\ refused.ok = FALSE
  <2>1. View \in ViewSet
    BY <1>1, ViewOfTables
  <2>2. refused = [ok |-> FALSE, tx |-> View.tx, next |-> View.next,
                   disk |-> View.disk, mem |-> View.mem]
    BY <2>1, ViewWithOk, Zenon
  <2> QED
    BY <2>1, <2>2, ViewFields DEF ViewSet
<1>5. v \in ViewSet /\ (v.ok => Fresh(v, txs))
  <2> HIDE DEF refused, txs
  <2>1. Reorganized(b) \in ViewSet /\ Fresh(Reorganized(b), txs)
    BY <1>1, <1>3, ReorganizedFresh DEF txs
  <2> QED
    BY <1>4, <2>1
<1>6. Switched(v, b)
  BY <1>2 DEF Reorganize
<1> HIDE DEF v
<1>7. CASE v.ok
  <2>1. PICK back \in Readmitted(pool, v.tx, Resurrected(b)) :
            pool' = RemoveConfirmed(pool \cup back, txs)
    BY <1>6, <1>7 DEF Switched
  <2>2. Commit(v, b) /\ Advanced(b) /\ pnext' = Relinked(ForkOf(best, b), b)
        /\ UNCHANGED <<velocityFactor, crashes>>
    BY <1>6, <1>7 DEF Switched
  <2> HIDE DEF txs
  <2>3. Resurrected(b) \in SUBSET Tx
    <3>1. \A c \in Branch[best] : TxsOf[c] \subseteq Tx
      BY <1>3, BranchType, TxAssumption
    <3> QED
      BY <3>1 DEF Resurrected, TxsIn
  <2>4. /\ back \subseteq Tx
        /\ \A t \in back : v.tx[t] = Absent
        /\ \A t, u \in pool \cup back : t # u => Inputs[t] \cap Inputs[u] = {}
    BY <1>1, <2>1, <2>3, ReadmittedFit
  <2>5. pool' \subseteq pool \cup back /\ pool' \cap txs = {} /\ pool \in SUBSET Tx
    BY <1>1, <2>1, ConfirmedLeave DEF TypeOK
  <2>6. PoolUnconfirmed'
    <3>1. dbTx' = v.tx
      BY <2>2 DEF Commit
    <3> QED
      BY <1>1, <1>5, <1>7, <2>4, <2>5, <3>1, PoolStaysUnconfirmed
  <2>7. PoolConflictFree'
    BY <2>4, <2>5 DEF PoolConflictFree
  <2>8. pnext' \in [Block -> Block \cup {NoBlock}]
    <3>1. ForkOf(best, b) \in Block
      BY <1>3, ForkIsTip
    <3> QED
      BY <1>1, <1>3, <2>2, <3>1, RelinkedType
  <2>9. TypeOK'
    BY <1>1, <1>3, <1>5, <2>2, <2>4, <2>5, <2>8, CommittedTypes DEF TypeOK, Advanced, NewBest
  <2> QED
    BY <2>6, <2>7, <2>9
<1>8. CASE ~ v.ok
  <2>1. Abort(v) /\ Refused /\ UNCHANGED <<pnext, pool, velocityFactor, crashes>>
    BY <1>6, <1>8 DEF Switched
  <2>2. TypeOK'
    BY <1>1, <1>5, <2>1, AbortedTypes DEF TypeOK, Refused
  <2>3. PoolUnconfirmed' /\ PoolConflictFree'
    BY <1>1, <1>5, <2>1, AbortedTypes DEF PoolUnconfirmed, PoolConflictFree
  <2> QED
    BY <2>2, <2>3
<1> QED
  BY <1>7, <1>8

LEMMA AdmitPool ==
    ASSUME PoolInv, NEW t \in Tx, AcceptToMemoryPool(t)
    PROVE  TypeOK' /\ PoolUnconfirmed' /\ PoolConflictFree'
<1>1. TypeOK /\ PoolUnconfirmed /\ PoolConflictFree
  BY DEF PoolInv
<1>2. /\ pool' = pool \cup {t} /\ dbTx[t] = Absent
      /\ \A u \in pool : Inputs[u] \cap Inputs[t] = {}
      /\ UNCHANGED <<dbVars, best, pnext, moneySupply, velocityFactor, runVars>>
  BY DEF AcceptToMemoryPool, PoolAccepts
<1>3. TypeOK'
  BY <1>1, <1>2 DEF TypeOK, dbVars, runVars
<1>4. PoolUnconfirmed'
  BY <1>1, <1>2 DEF PoolUnconfirmed, dbVars
<1>5. PoolConflictFree'
  BY <1>1, <1>2 DEF PoolConflictFree
<1> QED
  BY <1>3, <1>4, <1>5

LEMMA CrashPool ==
    ASSUME PoolInv, Crash
    PROVE  TypeOK' /\ PoolUnconfirmed' /\ PoolConflictFree'
<1>1. /\ best' = dbBest /\ pnext' = dbNext /\ moneySupply' = dbSupply /\ pool' = {}
      /\ velocityFactor' = FALSE /\ target' = NoBlock /\ cursor' = NoBlock
      /\ crashes' = crashes + 1
      /\ UNCHANGED <<index, dbBest, dbNext, dbSupply, dbTx>>
  BY DEF Crash, Restarted, LoadBlockIndex, dbVars
<1>2. velocityFactor' \in BOOLEAN
  BY <1>1
<1>3. /\ best' \in Block /\ pnext' \in [Block -> Block \cup {NoBlock}]
      /\ moneySupply' \in [Block -> Nat] /\ pool' \in SUBSET Tx /\ crashes' \in Nat
      /\ target' \in Block \cup {NoBlock} /\ cursor' \in Block \cup {NoBlock}
  BY <1>1 DEF PoolInv, TypeOK
<1>4. /\ index' \in SUBSET Block /\ dbBest' \in Block
      /\ dbNext' \in [Block -> Block \cup {NoBlock}] /\ dbSupply' \in [Block -> Nat]
      /\ dbTx' \in [Tx -> Tx \cup {Absent, Unspent}]
  BY <1>1 DEF PoolInv, TypeOK
<1> QED
  BY <1>1, <1>2, <1>3, <1>4 DEF TypeOK, PoolUnconfirmed, PoolConflictFree

LEMMA InitPool == Init => PoolInv
<1> SUFFICES ASSUME Init PROVE PoolInv
  OBVIOUS
<1>1. WorkInv
  BY InitWork
<1>2. TypeOK
  BY TreeAssumption DEF Init, TypeOK
<1> QED
  BY <1>1, <1>2 DEF Init, PoolInv, PoolUnconfirmed, PoolConflictFree

LEMMA StepPool ==
    ASSUME PoolInv, [Next]_vars
    PROVE  PoolInv'
<1>1. WorkInv'
  BY StepWork DEF PoolInv
<1> SUFFICES TypeOK' /\ PoolUnconfirmed' /\ PoolConflictFree'
  BY <1>1 DEF PoolInv
<1>2. ASSUME NEW b \in Block \ {Genesis}, AcceptBlock(b)
      PROVE  TypeOK' /\ PoolUnconfirmed' /\ PoolConflictFree'
  BY <1>2, AcceptPool
<1>3. CASE RefuseBlock
  BY <1>3 DEF PoolInv, RefuseBlock, dbVars, runVars, TypeOK, PoolUnconfirmed, PoolConflictFree
<1>4. CASE ExtendBest
  BY <1>4, ExtendPool
<1>5. CASE Reorganize
  BY <1>5, ReorganizePool
<1>6. CASE ConnectSecondary
  BY <1>6, SecondaryPool
<1>7. ASSUME NEW t \in Tx, AcceptToMemoryPool(t)
      PROVE  TypeOK' /\ PoolUnconfirmed' /\ PoolConflictFree'
  BY <1>7, AdmitPool
<1>8. CASE Crash
  BY <1>8, CrashPool
<1>9. CASE UNCHANGED vars
  BY <1>9 DEF PoolInv, vars, dbVars, memVars, runVars, TypeOK, PoolUnconfirmed, PoolConflictFree
<1> QED
  BY <1>2, <1>3, <1>4, <1>5, <1>6, <1>7, <1>8, <1>9 DEF Next

LEMMA PoolAlwaysSound == Spec => []PoolInv
<1>1. PoolInv /\ [Next]_vars => PoolInv'
  BY StepPool
<1> QED
  BY <1>1, InitPool, PTL DEF Spec

\* Every variable of the best chain has its type, whatever SetBestChain and the
\* crashes between its commits do.
THEOREM ChainTypesAlwaysOK == Spec => []TypeOK
<1>1. PoolInv => TypeOK
  BY DEF PoolInv
<1> QED
  BY <1>1, PoolAlwaysSound, PTL

\* SetBestChain and Reorganize never leave a transaction in mempool.mapTx that
\* they have put in the transaction index (main.cpp:2150-2154, 2181-2182).
THEOREM ConfirmedLeavePool == Spec => []PoolUnconfirmed
<1>1. PoolInv => PoolUnconfirmed
  BY DEF PoolInv
<1> QED
  BY <1>1, PoolAlwaysSound, PTL

\* Two transactions of mempool.mapTx never spend one output, also after
\* Reorganize has given disconnected ones to AcceptToMemoryPool.
THEOREM PoolNeverDoubleSpends == Spec => []PoolConflictFree
<1>1. PoolInv => PoolConflictFree
  BY DEF PoolInv
<1> QED
  BY <1>1, PoolAlwaysSound, PTL
-----------------------------------------------------------------------------
(* The stored chain.  It is a good one as long as no round of "Connect       *)
(* further blocks" fails: after such a failure the best block in memory is   *)
(* the target although the database ends below it.                           *)

SecondaryConnects ==
    target # NoBlock /\ cursor # NoBlock =>
        ConnectBlock(View, Ancestor(target, Height[cursor] + 1)).ok

\* The transaction index holds what the branch of b has, and leaves unspent.
Recorded(tx, b) ==
    \A t \in Tx : /\ tx[t] = Absent <=> t \notin TxsIn(Branch[b])
                  /\ tx[t] = Unspent <=> t \in L!CoinsOf(b)

\* The next links lead along the branch of b and nowhere else.
Linked(next, b) ==
    /\ \A c \in Block : next[c] = NoBlock <=> c \notin Branch[b] \/ c = b
    /\ \A c \in Branch[b] \ {Genesis} : next[Parent[c]] = c

\* The supplies along the branch of b add up, in memory as on disk.
Supplied(disk, mem, b) ==
    /\ \A c \in Branch[b] : mem[c] = disk[c]
    /\ \A c \in Branch[b] \ {Genesis} : disk[c] = disk[Parent[c]] + Mint[c]

\* Every block of the branch of b has a valid history.
Sound(b) == \A a \in Branch[b] : L!ValidHistory(a)

LedgerInv ==
    /\ cursor = NoBlock => best = dbBest
    /\ Sound(dbBest)
    /\ Recorded(dbTx, dbBest)
    /\ Linked(dbNext, dbBest) /\ Linked(pnext, dbBest)
    /\ Supplied(dbSupply, moneySupply, dbBest)

\* What the definitions of Ledger say of a block.
LEMMA LedgerTerms ==
    ASSUME NEW b
    PROVE  LET txs == TxsIn(Branch[b]) IN
           /\ L!CoinsOf(b) = txs \ SpentBy(txs)
           /\ L!ValidHistory(b) <=>
                 /\ Branch[b] \cap Invalid = {}
                 /\ SpentBy(txs) \subseteq txs
                 /\ \A t, u \in txs : t # u => Inputs[t] \cap Inputs[u] = {}
  BY DEF L!CoinsOf, L!ValidHistory, L!TxsIn, L!SpentBy, TxsIn, SpentBy

\* A block's transactions are its parent's branch's and its own.
LEMMA BranchTxs ==
    ASSUME NEW b \in Block \ {Genesis}
    PROVE  LET p == Parent[b] IN
           /\ p \in Block /\ b \notin Branch[p] /\ p \in Branch[b] /\ p # b
           /\ Branch[b] = Branch[p] \cup {b}
           /\ TxsIn(Branch[b]) = TxsIn(Branch[p]) \cup TxsOf[b]
           /\ SpentBy(TxsIn(Branch[b])) = SpentBy(TxsIn(Branch[p])) \cup SpentBy(TxsOf[b])
           /\ b \notin Invalid => TxsIn(Branch[p]) \cap TxsOf[b] = {}
<1> DEFINE p == Parent[b]
<1>1. p \in Block /\ Branch[b] = Branch[p] \cup {b} /\ p \in Branch[p]
  BY BranchType
<1>2. Height[b] = Height[p] + 1 /\ Height[p] \in Nat
  BY <1>1, BranchType
<1>3. b \notin Branch[p] /\ p # b
  <2>1. p # b
    BY <1>2
  <2>2. b \in Branch[p] => Height[b] < Height[p]
    BY <1>1, <2>1, AncestorsBelow
  <2> QED
    BY <1>2, <2>1, <2>2
<1> HIDE DEF p
<1>4. TxsIn(Branch[b]) = TxsIn(Branch[p]) \cup TxsOf[b]
  BY <1>1 DEF TxsIn
<1>5. SpentBy(TxsIn(Branch[b])) = SpentBy(TxsIn(Branch[p])) \cup SpentBy(TxsOf[b])
  BY <1>4 DEF SpentBy
<1>6. b \notin Invalid => TxsIn(Branch[p]) \cap TxsOf[b] = {}
  <2> SUFFICES ASSUME b \notin Invalid, NEW t \in TxsIn(Branch[p]), t \in TxsOf[b]
               PROVE  FALSE
    OBVIOUS
  <2>1. PICK a \in Branch[p] : t \in TxsOf[a]
    BY DEF TxsIn
  <2>2. a \in Branch[b] \ {b} /\ TxsOf[a] \cap TxsOf[b] # {}
    BY <1>1, <1>3, <2>1
  <2> QED
    BY <2>2, RepeatAssumption
<1> QED
  BY <1>1, <1>3, <1>4, <1>5, <1>6 DEF p

\* Inputs and spent outputs are transactions.
LEMMA SpentIn ==
    ASSUME NEW txs, NEW i
    PROVE  i \in SpentBy(txs) <=> \E t \in txs : i \in Inputs[t]
  BY DEF SpentBy

LEMMA DisconnectRecorded ==
    ASSUME NEW b \in Block \ {Genesis}, L!ValidHistory(b), L!ValidHistory(Parent[b]),
           NEW tx, Recorded(tx, b)
    PROVE  Recorded(Disconnected(tx, b), Parent[b])
<1> DEFINE p == Parent[b]
           old == TxsIn(Branch[p])
           new == TxsOf[b]
<1>1. /\ TxsIn(Branch[b]) = old \cup new /\ old \cap new = {}
      /\ SpentBy(TxsIn(Branch[b])) = SpentBy(old) \cup SpentBy(new)
  <2>1. b \notin Invalid
    BY BranchType, LedgerTerms
  <2> QED
    BY <2>1, BranchTxs
<1>2. /\ SpentBy(old) \subseteq old
      /\ SpentBy(old) \cup SpentBy(new) \subseteq old \cup new
      /\ \A t, u \in old \cup new : t # u => Inputs[t] \cap Inputs[u] = {}
  BY <1>1, LedgerTerms
<1>3. SpentBy(old) \cap SpentBy(new) = {}
  <2> HIDE DEF old, new
  <2> SUFFICES ASSUME NEW i \in SpentBy(old), i \in SpentBy(new) PROVE FALSE
    OBVIOUS
  <2>1. PICK t \in old : i \in Inputs[t]
    BY SpentIn
  <2>2. PICK u \in new : i \in Inputs[u]
    BY SpentIn
  <2> QED
    BY <1>1, <1>2, <2>1, <2>2
<1> SUFFICES ASSUME NEW t \in Tx
             PROVE  /\ Disconnected(tx, b)[t] = Absent <=> t \notin old
                    /\ Disconnected(tx, b)[t] = Unspent <=> t \in old \ SpentBy(old)
  BY LedgerTerms DEF Recorded
<1>4. /\ tx[t] = Absent <=> t \notin old \cup new
      /\ tx[t] = Unspent <=> t \in (old \cup new) \ (SpentBy(old) \cup SpentBy(new))
  BY <1>1, LedgerTerms DEF Recorded
<1>5. Disconnected(tx, b)[t] = IF t \in new THEN Absent
                               ELSE IF t \in SpentBy(new) THEN Unspent ELSE tx[t]
  BY DEF Disconnected
<1> HIDE DEF old, new
<1> QED
  BY <1>1, <1>2, <1>3, <1>4, <1>5, ChainAssumption

LEMMA ConnectRecorded ==
    ASSUME NEW b \in Block \ {Genesis}, L!ValidHistory(Parent[b]), b \notin Invalid,
           NEW tx, Recorded(tx, Parent[b]), InputsAvailable(tx, b)
    PROVE  L!ValidHistory(b) /\ Recorded(Connected(tx, b), b)
<1> DEFINE p == Parent[b]
           old == TxsIn(Branch[p])
           new == TxsOf[b]
<1>1. /\ TxsIn(Branch[b]) = old \cup new /\ old \cap new = {}
      /\ SpentBy(TxsIn(Branch[b])) = SpentBy(old) \cup SpentBy(new)
      /\ Branch[b] = Branch[p] \cup {b} /\ p \in Block
  BY BranchTxs
<1>2. /\ SpentBy(old) \subseteq old
      /\ \A t, u \in old : t # u => Inputs[t] \cap Inputs[u] = {}
      /\ Branch[p] \cap Invalid = {}
  BY LedgerTerms
<1>3. /\ \A i \in SpentBy(new) : i \in new \/ tx[i] = Unspent
      /\ \A t, u \in new : t # u => Inputs[t] \cap Inputs[u] = {}
  BY DEF InputsAvailable
<1>4. SpentBy(new) \subseteq Tx
  BY TxAssumption DEF SpentBy
<1>5. \A t \in Tx : /\ tx[t] = Absent <=> t \notin old
                    /\ tx[t] = Unspent <=> t \in old \ SpentBy(old)
  BY LedgerTerms DEF Recorded
<1>6. \A i \in SpentBy(new) : i \in old \cup new /\ i \notin SpentBy(old)
  <2> HIDE DEF old, new
  <2> QED
    BY <1>1, <1>2, <1>3, <1>4, <1>5
<1>7. L!ValidHistory(b)
  <2>1. ASSUME NEW t \in old, NEW u \in new
        PROVE  Inputs[t] \cap Inputs[u] = {}
    <3> HIDE DEF old, new
    <3> SUFFICES ASSUME NEW i \in Inputs[t], i \in Inputs[u] PROVE FALSE
      OBVIOUS
    <3> QED
      BY <1>6, <2>1, SpentIn
  <2>2. \A t, u \in old \cup new : t # u => Inputs[t] \cap Inputs[u] = {}
    <3> HIDE DEF old, new
    <3> QED
      BY <1>2, <1>3, <2>1
  <2>3. Branch[b] \cap Invalid = {}
    BY <1>1, <1>2
  <2>4. SpentBy(TxsIn(Branch[b])) \subseteq TxsIn(Branch[b])
    <3> HIDE DEF old, new
    <3> QED
      BY <1>1, <1>2, <1>6
  <2> QED
    BY <1>1, <2>2, <2>3, <2>4, LedgerTerms
<1>8. Recorded(Connected(tx, b), b)
  <2>0. L!CoinsOf(b) = (old \cup new) \ (SpentBy(old) \cup SpentBy(new))
    BY <1>1, LedgerTerms
  <2> DEFINE c(t) == Connected(tx, b)[t]
  <2> SUFFICES ASSUME NEW t \in Tx
               PROVE  /\ c(t) = Absent <=> t \notin old \cup new
                      /\ c(t) = Unspent <=> t \in (old \cup new) \ (SpentBy(old) \cup SpentBy(new))
    <3> HIDE DEF old, new
    <3> QED
      BY <1>1, <2>0 DEF Recorded
  <2>1. CASE t \in SpentBy(new)
    <3>1. PICK w : w = (CHOOSE u \in new : t \in Inputs[u])
      OBVIOUS
    <3>2. w \in new
      BY <2>1, <3>1, SpentIn
    <3>3. Connected(tx, b)[t] = w
      BY <2>1, <3>1 DEF Connected
    <3>4. w \in Tx
      BY <3>2, TxAssumption
    <3> HIDE DEF old, new
    <3> QED
      BY <1>6, <2>1, <3>3, <3>4, ChainAssumption
  <2>2. CASE t \notin SpentBy(new)
    <3>1. Connected(tx, b)[t] = IF t \in new THEN Unspent ELSE tx[t]
      BY <2>2 DEF Connected
    <3> HIDE DEF old, new
    <3> QED
      BY <1>1, <1>2, <1>5, <2>2, <3>1, ChainAssumption
  <2> QED
    BY <2>1, <2>2
<1> QED
  BY <1>7, <1>8

\* No block of a branch, but the tip, has the tip as its parent.
LEMMA ParentsBelow ==
    ASSUME NEW p \in Block, NEW c \in Branch[p], c # Genesis
    PROVE  Parent[c] \in Block /\ Parent[c] \in Branch[p] /\ Parent[c] # p
<1>1. c \in Block /\ Height[c] \in 0 .. Height[p]
  BY BranchType, AncestorAt
<1>2. /\ Parent[c] \in Block /\ Height[c] = Height[Parent[c]] + 1
      /\ Parent[c] \in Branch[c]
  BY <1>1, BranchTxs, BranchType
<1>3. Height[Parent[c]] \in Nat /\ Height[p] \in Nat /\ Height[c] \in Nat
  BY <1>1, <1>2, BranchType
<1>4. Parent[c] \in Branch[p]
  BY <1>2, BranchesNest
<1>5. Height[Parent[c]] < Height[p]
  BY <1>1, <1>2, <1>3
<1> QED
  BY <1>2, <1>3, <1>4, <1>5

LEMMA DisconnectLinked ==
    ASSUME NEW b \in Block \ {Genesis},
           NEW next \in [Block -> Block \cup {NoBlock}], Linked(next, b)
    PROVE  Linked([next EXCEPT ![Parent[b]] = NoBlock], Parent[b])
<1> DEFINE p == Parent[b]
           after == [next EXCEPT ![p] = NoBlock]
<1>1. p \in Block /\ b \notin Branch[p] /\ p # b /\ Branch[b] = Branch[p] \cup {b}
  BY BranchTxs
<1>2. /\ \A c \in Block : next[c] = NoBlock <=> c \notin Branch[b] \/ c = b
      /\ \A c \in Branch[b] \ {Genesis} : next[Parent[c]] = c
  BY DEF Linked
<1>3. \A c \in Block : after[c] = IF c = p THEN NoBlock ELSE next[c]
  BY <1>1
<1>4. \A c \in Branch[p] \ {Genesis} : Parent[c] \in Block /\ Parent[c] # p
  BY <1>1, ParentsBelow
<1> HIDE DEF p, after
<1>5. \A c \in Block : after[c] = NoBlock <=> c \notin Branch[p] \/ c = p
  BY <1>1, <1>2, <1>3
<1>6. \A c \in Branch[p] \ {Genesis} : after[Parent[c]] = c
  BY <1>1, <1>2, <1>3, <1>4
<1> QED
  BY <1>5, <1>6 DEF Linked, p, after

LEMMA ExtendLinked ==
    ASSUME NEW b \in Block \ {Genesis}, NEW next, NEW after,
           Linked(next, Parent[b]), after[Parent[b]] = b,
           \A c \in Block : c # Parent[b] => after[c] = next[c]
    PROVE  Linked(after, b)
<1> DEFINE p == Parent[b]
<1>1. p \in Block /\ b \notin Branch[p] /\ p # b /\ Branch[b] = Branch[p] \cup {b} /\ p \in Branch[b]
  BY BranchTxs
<1>2. /\ \A c \in Block : next[c] = NoBlock <=> c \notin Branch[p] \/ c = p
      /\ \A c \in Branch[p] \ {Genesis} : next[Parent[c]] = c
  BY DEF Linked
<1>3. \A c \in Branch[p] \ {Genesis} : Parent[c] \in Block /\ Parent[c] # p
  BY <1>1, ParentsBelow
<1>4. after[p] = b /\ \A c \in Block : c # p => after[c] = next[c]
  OBVIOUS
<1>5. p = Parent[b]
  OBVIOUS
<1> HIDE DEF p
<1>6. \A c \in Block : after[c] = NoBlock <=> c \notin Branch[b] \/ c = b
  BY <1>1, <1>2, <1>4, ChainAssumption
<1>7. \A c \in Branch[b] \ {Genesis} : after[Parent[c]] = c
  BY <1>1, <1>2, <1>3, <1>4, <1>5
<1> QED
  BY <1>6, <1>7 DEF Linked

LEMMA ConnectLinked ==
    ASSUME NEW b \in Block \ {Genesis},
           NEW next \in [Block -> Block \cup {NoBlock}], Linked(next, Parent[b])
    PROVE  /\ Linked([next EXCEPT ![b] = NoBlock, ![Parent[b]] = b], b)
           /\ Linked([next EXCEPT ![Parent[b]] = b], b)
<1> DEFINE p == Parent[b]
           one == [next EXCEPT ![b] = NoBlock, ![Parent[b]] = b]
           two == [next EXCEPT ![Parent[b]] = b]
<1>1. p \in Block /\ b \notin Branch[p] /\ p # b
  BY BranchTxs
<1>2. next[b] = NoBlock
  BY <1>1 DEF Linked
<1>3. one[p] = b /\ \A c \in Block : c # p => one[c] = next[c]
  BY <1>1, <1>2
<1>4. two[p] = b /\ \A c \in Block : c # p => two[c] = next[c]
  BY <1>1
<1> HIDE DEF one, two
<1>5. Linked(one, b) /\ Linked(two, b)
  BY <1>3, <1>4, ExtendLinked
<1> QED
  BY <1>5 DEF one, two

\* Reorganize leaves the next links of the new branch alone.
LEMMA RelinkedLinks ==
    ASSUME best \in Block, NEW b \in Block, b \notin Branch[best],
           pnext \in [Block -> Block \cup {NoBlock}], Linked(pnext, best)
    PROVE  Linked(Relinked(ForkOf(best, b), b), b)
<1> DEFINE f == ForkOf(best, b)
           after == Relinked(f, b)
<1>1. /\ f \in Block /\ f \in Branch[best] /\ f \in Branch[b]
      /\ Branch[f] = Branch[best] \cap Branch[b]
  BY ForkIsTip
<1>2. /\ \A c \in Block : pnext[c] = NoBlock <=> c \notin Branch[best] \/ c = best
      /\ \A c \in Branch[best] \ {Genesis} : pnext[Parent[c]] = c
  BY DEF Linked
<1> HIDE DEF f
<1>3. ASSUME NEW c \in Block
      PROVE  after[c] =
               IF c \in Branch[b] /\ c # b /\ Height[c] >= Height[f]
               THEN Ancestor(b, Height[c] + 1)
               ELSE IF c \in Branch[best] /\ Height[c] >= Height[f] /\ c # best
                    THEN NoBlock ELSE pnext[c]
  BY DEF Relinked
<1> HIDE DEF after
<1>4. ASSUME NEW c \in Branch[b], c # b
      PROVE  /\ Ancestor(b, Height[c] + 1) \in Branch[b] \ {Genesis}
             /\ Parent[Ancestor(b, Height[c] + 1)] = c
             /\ Ancestor(b, Height[c] + 1) # NoBlock
  <2>1. c \in Block /\ Height[c] \in Nat /\ Height[b] \in Nat /\ Height[c] < Height[b]
    BY <1>4, BranchType, AncestorsBelow
  <2>2. PICK h : h = Height[c] + 1
    OBVIOUS
  <2>3. h \in 1 .. Height[b] /\ h - 1 = Height[c]
    BY <2>1, <2>2
  <2>4. /\ Ancestor(b, h) \in Branch[b] /\ Ancestor(b, h) \in Block \ {Genesis}
        /\ Parent[Ancestor(b, h)] = Ancestor(b, h - 1)
    BY <2>3, AncestorStep
  <2>5. Ancestor(b, Height[c]) = c
    BY AncestorAt
  <2> QED
    BY <2>2, <2>3, <2>4, <2>5, ChainAssumption
\* Below the fork both branches are the same.
<1>5. ASSUME NEW c \in Block, ~ (Height[c] >= Height[f])
      PROVE  c \in Branch[b] <=> c \in Branch[best]
  <2>1. Height[c] \in Nat /\ Height[f] \in Nat
    BY <1>1, BranchType
  <2>2. Height[c] <= Height[f]
    BY <1>5, <2>1
  <2>3. c \in Branch[b] => c \in Branch[f]
    BY <1>1, <2>2, BranchIsAChain
  <2>4. c \in Branch[best] => c \in Branch[f]
    BY <1>1, <2>2, BranchIsAChain
  <2> QED
    BY <1>1, <2>3, <2>4
<1>6. Height[b] >= Height[f] /\ Height[best] >= Height[f]
  <2>1. Height[f] \in 0 .. Height[b] /\ Height[f] \in 0 .. Height[best]
    BY <1>1, AncestorAt
  <2> QED
    BY <2>1
<1>7. \A c \in Block : after[c] = NoBlock <=> c \notin Branch[b] \/ c = b
  <2> TAKE c \in Block
  <2>1. CASE c \in Branch[b] /\ c # b /\ Height[c] >= Height[f]
    BY <1>3, <1>4, <2>1
  <2>2. CASE c \in Branch[b] /\ c # b /\ ~ (Height[c] >= Height[f])
    BY <1>2, <1>3, <1>5, <1>6, <2>2
  <2>3. CASE c = b
    BY <1>2, <1>3, <2>3
  <2>4. CASE c \notin Branch[b] /\ Height[c] >= Height[f]
    BY <1>2, <1>3, <2>4
  <2>5. CASE c \notin Branch[b] /\ ~ (Height[c] >= Height[f])
    BY <1>2, <1>3, <1>5, <2>5
  <2> QED
    BY <2>1, <2>2, <2>3, <2>4, <2>5
<1>8. \A c \in Branch[b] \ {Genesis} : after[Parent[c]] = c
  <2> TAKE c \in Branch[b] \ {Genesis}
  <2>1. /\ Parent[c] \in Block /\ Parent[c] \in Branch[b] /\ Parent[c] # b
        /\ c \in Block
    BY ParentsBelow, BranchType
  <2>2. Height[c] = Height[Parent[c]] + 1 /\ Height[Parent[c]] \in Nat
    BY <2>1, BranchType
  <2>3. CASE Height[Parent[c]] >= Height[f]
    <3>1. Ancestor(b, Height[c]) = c
      BY AncestorAt
    <3> QED
      BY <1>3, <2>1, <2>2, <2>3, <3>1
  <2>4. CASE ~ (Height[Parent[c]] >= Height[f])
    <3>1. after[Parent[c]] = pnext[Parent[c]]
      BY <1>3, <2>1, <2>4
    <3>2. c \in Branch[best]
      <4>1. Height[c] \in Nat /\ Height[f] \in Nat
        BY <1>1, <2>1, BranchType
      <4>2. Height[c] <= Height[f]
        BY <2>2, <2>4, <4>1
      <4>3. c \in Branch[f]
        BY <1>1, <4>2, BranchIsAChain
      <4> QED
        BY <1>1, <4>3
    <3> QED
      BY <1>2, <3>1, <3>2
  <2> QED
    BY <2>3, <2>4
<1> QED
  BY <1>7, <1>8 DEF Linked, after, f

LEMMA DisconnectSupplied ==
    ASSUME NEW b \in Block \ {Genesis}, NEW disk \in [Block -> Nat],
           NEW mem \in [Block -> Nat], Supplied(disk, mem, b)
    PROVE  Supplied([disk EXCEPT ![Parent[b]] = mem[Parent[b]]], mem, Parent[b])
<1> DEFINE p == Parent[b]
           after == [disk EXCEPT ![p] = mem[p]]
<1>1. p \in Block /\ p \in Branch[b] /\ Branch[p] \subseteq Branch[b]
  BY BranchTxs
<1>2. mem[p] = disk[p]
  BY <1>1 DEF Supplied
<1>3. after = disk
  BY <1>1, <1>2
<1> HIDE DEF after, p
<1>4. Supplied(disk, mem, p)
  BY <1>1 DEF Supplied
<1> QED
  BY <1>3, <1>4 DEF after, p

LEMMA ConnectSupplied ==
    ASSUME NEW b \in Block \ {Genesis}, NEW disk \in [Block -> Nat],
           NEW mem \in [Block -> Nat], Supplied(disk, mem, Parent[b]),
           NEW supply, supply = mem[Parent[b]] + Mint[b]
    PROVE  Supplied([disk EXCEPT ![b] = supply, ![Parent[b]] = mem[Parent[b]]],
                    [mem EXCEPT ![b] = supply], b)
<1> DEFINE p == Parent[b]
           d == [disk EXCEPT ![b] = supply, ![p] = mem[p]]
           m == [mem EXCEPT ![b] = supply]
<1>1. /\ p \in Block /\ b \notin Branch[p] /\ p # b /\ Branch[b] = Branch[p] \cup {b}
      /\ Branch[p] \subseteq Block
  BY BranchTxs, BranchType
<1>2. /\ \A c \in Branch[p] : mem[c] = disk[c]
      /\ \A c \in Branch[p] \ {Genesis} : disk[c] = disk[Parent[c]] + Mint[c]
      /\ p \in Branch[p]
  BY <1>1, BranchType DEF Supplied
<1>3. \A c \in Block : /\ d[c] = IF c = p THEN mem[p] ELSE IF c = b THEN supply ELSE disk[c]
                       /\ m[c] = IF c = b THEN supply ELSE mem[c]
  BY <1>1
<1>4. \A c \in Branch[p] \ {Genesis} : Parent[c] \in Branch[p]
  BY <1>1, ParentsBelow
<1>5. supply = mem[p] + Mint[b] /\ p = Parent[b]
  OBVIOUS
<1> HIDE DEF p, d, m
<1>6. \A c \in Branch[p] : d[c] = disk[c] /\ m[c] = mem[c] /\ c \in Block /\ c # b
  BY <1>1, <1>2, <1>3
<1>7. \A c \in Branch[b] : m[c] = d[c]
  BY <1>1, <1>2, <1>3, <1>6
<1>8. \A c \in Branch[b] \ {Genesis} : d[c] = d[Parent[c]] + Mint[c]
  <2> TAKE c \in Branch[b] \ {Genesis}
  <2>1. CASE c = b
    <3>1. d[b] = supply /\ d[p] = mem[p]
      BY <1>1, <1>3
    <3> QED
      BY <1>5, <2>1, <3>1
  <2>2. CASE c \in Branch[p]
    BY <1>2, <1>4, <1>6, <2>2
  <2> QED
    BY <1>1, <2>1, <2>2
<1> QED
  BY <1>7, <1>8 DEF Supplied, p, d, m
-----------------------------------------------------------------------------
(* The folds of Reorganize keep the stored chain good, block by block.       *)

GoodView(v, b) ==
    /\ Sound(b) /\ Recorded(v.tx, b) /\ Linked(v.next, b) /\ Supplied(v.disk, v.mem, b)

\* What ConnectBlock writes to the block index in memory, and an aborted
\* transaction leaves there, is not about the stored chain.
MemKept(v) == \A c \in Branch[dbBest] : v.mem[c] = moneySupply[c]

\* The view is that of a chain ending in b, unless a step has failed.
ViewAt(v, b) == (v.ok => GoodView(v, b)) /\ MemKept(v)

LEMMA SoundParent ==
    ASSUME NEW b \in Block \ {Genesis}, Sound(b)
    PROVE  Sound(Parent[b]) /\ L!ValidHistory(b) /\ L!ValidHistory(Parent[b])
<1>1. Branch[b] = Branch[Parent[b]] \cup {b} /\ Parent[b] \in Branch[Parent[b]]
  BY BranchType
<1> QED
  BY <1>1 DEF Sound

LEMMA DisconnectGood ==
    ASSUME NEW v \in ViewSet, NEW b \in Block \ {Genesis}, ViewAt(v, b)
    PROVE  ViewAt(DisconnectBlock(v, b), Parent[b])
<1> DEFINE w == DisconnectBlock(v, b)
<1>1. /\ w.ok => v.ok
      /\ w.tx = Disconnected(v.tx, b)
      /\ w.next = [v.next EXCEPT ![Parent[b]] = NoBlock]
      /\ w.disk = [v.disk EXCEPT ![Parent[b]] = v.mem[Parent[b]]]
      /\ w.mem = v.mem
  BY DisconnectFields
<1> HIDE DEF w
<1>2. MemKept(w)
  BY <1>1 DEF ViewAt, MemKept
<1>3. ASSUME w.ok
      PROVE  GoodView(w, Parent[b])
  <2>1. GoodView(v, b)
    BY <1>1, <1>3 DEF ViewAt
  <2>2. Sound(Parent[b]) /\ L!ValidHistory(b) /\ L!ValidHistory(Parent[b])
    BY <2>1, SoundParent DEF GoodView
  <2>3. Recorded(w.tx, Parent[b])
    BY <1>1, <2>1, <2>2, DisconnectRecorded DEF GoodView
  <2>4. Linked(w.next, Parent[b])
    BY <1>1, <2>1, ViewFields, DisconnectLinked DEF GoodView
  <2>5. Supplied(w.disk, w.mem, Parent[b])
    BY <1>1, <2>1, ViewFields, DisconnectSupplied DEF GoodView
  <2> QED
    BY <2>2, <2>3, <2>4, <2>5 DEF GoodView
<1> QED
  BY <1>2, <1>3 DEF ViewAt, w

LEMMA ConnectGood ==
    ASSUME TableInv, Linked(pnext, dbBest), NEW v \in ViewSet, NEW b \in Block \ {Genesis},
           b \notin Branch[dbBest], ViewAt(v, Parent[b])
    PROVE  ViewAt(ConnectBlock(v, b), b)
<1> DEFINE w == ConnectBlock(v, b)
           p == Parent[b]
           supply == v.mem[p] + Mint[b]
<1>1. /\ w \in ViewSet
      /\ ~ w.ok => w.mem = v.mem
      /\ w.ok => /\ v.ok /\ b \notin Invalid /\ InputsAvailable(v.tx, b)
                 /\ w.tx = Connected(v.tx, b)
                 /\ w.next = [v.next EXCEPT ![b] = pnext[b], ![p] = b]
                 /\ w.mem = [v.mem EXCEPT ![b] = supply]
                 /\ w.disk = [v.disk EXCEPT ![b] = supply, ![p] = v.mem[p]]
  BY ConnectFields
<1>2. p \in Block /\ Branch[b] = Branch[p] \cup {b}
  BY BranchTxs
<1>3. pnext[b] = NoBlock
  BY DEF Linked
<1>4. PICK s : s = supply
  OBVIOUS
<1>5. v.mem \in [Block -> Nat] /\ v.disk \in [Block -> Nat]
      /\ v.next \in [Block -> Block \cup {NoBlock}]
  BY ViewFields
<1> HIDE DEF w
<1>6. MemKept(w)
  <2>1. MemKept(v) /\ Branch[dbBest] \subseteq Block
    BY BranchType DEF ViewAt, TableInv, WorkInv
  <2>2. CASE w.ok
    <3>1. w.mem = [v.mem EXCEPT ![b] = s]
      BY <1>1, <1>4, <2>2
    <3> HIDE DEF supply
    <3> QED
      BY <1>5, <2>1, <3>1 DEF MemKept
  <2>3. CASE ~ w.ok
    BY <1>1, <2>1, <2>3 DEF MemKept
  <2> QED
    BY <2>2, <2>3
<1>7. ASSUME w.ok
      PROVE  GoodView(w, b)
  <2>1. GoodView(v, p) /\ b \notin Invalid /\ InputsAvailable(v.tx, b)
    BY <1>1, <1>7 DEF ViewAt
  <2>2. L!ValidHistory(p)
    BY <1>2, <2>1, BranchType DEF GoodView, Sound
  <2>3. L!ValidHistory(b) /\ Recorded(w.tx, b)
    BY <1>1, <1>7, <2>1, <2>2, ConnectRecorded DEF GoodView
  <2>4. Sound(b)
    BY <1>2, <2>1, <2>3 DEF GoodView, Sound
  <2>5. Linked(w.next, b)
    <3>1. Linked(v.next, p) /\ w.next = [v.next EXCEPT ![b] = pnext[b], ![p] = b]
      BY <1>1, <1>7, <2>1 DEF GoodView
    <3>2. Linked([v.next EXCEPT ![b] = NoBlock, ![p] = b], b)
      BY <1>5, <3>1, ConnectLinked
    <3> QED
      BY <1>3, <3>1, <3>2, Zenon
  <2>6. Supplied(w.disk, w.mem, b)
    <3>1. /\ Supplied(v.disk, v.mem, p)
          /\ w.mem = [v.mem EXCEPT ![b] = s]
          /\ w.disk = [v.disk EXCEPT ![b] = s, ![p] = v.mem[p]]
          /\ s = v.mem[p] + Mint[b]
      BY <1>1, <1>4, <1>7, <2>1 DEF GoodView
    <3> HIDE DEF supply
    <3> QED
      BY <1>5, <3>1, ConnectSupplied
  <2> QED
    BY <2>3, <2>4, <2>5, <2>6 DEF GoodView
<1> QED
  BY <1>6, <1>7 DEF ViewAt, w

LEMMA CheckedGood ==
    ASSUME TableInv, Linked(pnext, dbBest), NEW v \in ViewSet, NEW b \in Block \ {Genesis},
           b \notin Branch[dbBest], ViewAt(v, Parent[b])
    PROVE  ViewAt(ConnectChecked(v, b), b)
<1> DEFINE w == ConnectBlock(v, b)
           x == ConnectChecked(v, b)
<1>1. ViewAt(w, b)
  BY ConnectGood
<1>2. (x.ok => w.ok) /\ x.tx = w.tx /\ x.next = w.next /\ x.disk = w.disk /\ x.mem = w.mem
  BY CheckedFields
<1> HIDE DEF w, x
<1> QED
  BY <1>1, <1>2 DEF ViewAt, GoodView, MemKept, x

LEMMA UnwoundGood ==
    ASSUME TableInv, best = dbBest, ViewAt(View, best), NEW b \in Block
    PROVE  Unwound(b) \in ViewSet /\ ViewAt(Unwound(b), ForkOf(best, b))
<1> DEFINE f == ForkOf(best, b)
           n == Height[best] - Height[f]
           down == Reverse(Path(f, best))
           V == [i \in 0 .. n |-> {v \in ViewSet : ViewAt(v, Ancestor(best, Height[best] - i))}]
<1>1. best \in Block
  BY DEF TableInv, WorkInv
<1>2. f \in Branch[best]
  BY <1>1, ForkIsTip
<1>3. n \in Nat /\ Height[best] \in Nat /\ Height[f] \in Nat
  BY <1>1, <1>2, PathBlocks, BranchType
<1>4. /\ DOMAIN down = 1 .. n
      /\ \A i \in 1 .. n : /\ down[i] = Ancestor(best, Height[best] - (i - 1))
                           /\ down[i] \in Block \ {Genesis}
                           /\ Parent[down[i]] = Ancestor(best, Height[best] - i)
  BY <1>1, <1>2, ReversePath
<1>5. Ancestor(best, Height[best]) = best /\ Ancestor(best, Height[f]) = f
  BY <1>1, <1>2, AncestorAt, BranchType
<1>6. Height[best] - 0 = Height[best] /\ Height[best] - n = Height[f]
  BY <1>3
<1>7. View \in ViewSet
  BY ViewOfTables
<1> HIDE DEF f, n, down
<1>8. 0 \in 0 .. n /\ n \in 0 .. n
  BY <1>3
<1>9. View \in V[0]
  <2>1. ViewAt(View, Ancestor(best, Height[best] - 0))
    BY <1>5, <1>6
  <2> QED
    BY <1>7, <1>8, <2>1
<1>10. \A v \in ViewSet : \A i \in 1 .. n : DisconnectBlock(v, down[i]) \in ViewSet
  BY <1>4, DisconnectFields
<1>11. \A i \in 1 .. n : \A v \in V[i - 1] :
          v \in ViewSet => DisconnectBlock(v, down[i]) \in V[i]
  <2> SUFFICES ASSUME NEW i \in 1 .. n, NEW v \in V[i - 1]
               PROVE  DisconnectBlock(v, down[i]) \in V[i]
    OBVIOUS
  <2>1. i \in 0 .. n /\ i - 1 \in 0 .. n
    BY <1>3
  <2>2. v \in ViewSet /\ ViewAt(v, down[i])
    BY <1>4, <2>1
  <2>3. ViewAt(DisconnectBlock(v, down[i]), Ancestor(best, Height[best] - i))
    BY <1>4, <2>2, DisconnectGood
  <2> QED
    BY <1>10, <2>1, <2>2, <2>3
<1> HIDE DEF V
<1>12. FoldLeft(DisconnectBlock, View, down) \in ViewSet \cap V[n]
  BY <1>3, <1>4, <1>7, <1>9, <1>10, <1>11, UnwindFold
<1>13. Unwound(b) \in ViewSet /\ Unwound(b) \in V[n]
  BY <1>12 DEF Unwound, down, f
<1>14. ViewAt(Unwound(b), Ancestor(best, Height[best] - n))
  BY <1>8, <1>13 DEF V
<1> QED
  BY <1>5, <1>6, <1>13, <1>14 DEF f

LEMMA ReorganizedGood ==
    ASSUME TableInv, best = dbBest, Linked(pnext, dbBest), ViewAt(View, best), NEW b \in Block
    PROVE  Reorganized(b) \in ViewSet /\ ViewAt(Reorganized(b), b)
<1> DEFINE f == ForkOf(best, b)
           n == Height[b] - Height[f]
           up == Path(f, b)
           V == [i \in 0 .. n |-> {v \in ViewSet : ViewAt(v, Ancestor(b, Height[f] + i))}]
<1>1. best \in Block
  BY DEF TableInv, WorkInv
<1>2. f \in Branch[b] /\ Branch[f] = Branch[best] \cap Branch[b]
  BY <1>1, ForkIsTip
<1>3. n \in Nat /\ Height[b] \in Nat /\ Height[f] \in Nat
  BY <1>2, PathBlocks, BranchType
<1>4. /\ DOMAIN up = 1 .. n
      /\ \A i \in 1 .. n : /\ up[i] = Ancestor(b, Height[f] + i)
                           /\ up[i] \in Block \ {Genesis}
                           /\ up[i] \in Branch[b] /\ up[i] \notin Branch[f]
                           /\ Parent[up[i]] = Ancestor(b, Height[f] + i - 1)
  <2>1. f \in Branch[b]
    BY <1>2
  <2> HIDE DEF f
  <2>2. /\ DOMAIN Path(f, b) = 1 .. Height[b] - Height[f]
        /\ \A i \in 1 .. Height[b] - Height[f] :
              LET c == Path(f, b)[i] IN
              /\ c = Ancestor(b, Height[f] + i)
              /\ c \in Block \ {Genesis} /\ c \in Branch[b]
              /\ c \notin Branch[f]
              /\ Parent[c] = Ancestor(b, Height[f] + i - 1)
    BY ONLY <2>1, PathBlocks, b \in Block
  <2> QED
    BY ONLY <2>2
<1>5. Ancestor(b, Height[b]) = b /\ Ancestor(b, Height[f]) = f
  BY <1>2, AncestorAt, BranchType
<1>6. Height[f] + 0 = Height[f] /\ Height[f] + n = Height[b]
  BY <1>3
<1>7. Unwound(b) \in ViewSet /\ ViewAt(Unwound(b), f)
  BY UnwoundGood
<1> HIDE DEF f, n, up
<1>8. 0 \in 0 .. n /\ n \in 0 .. n
  BY <1>3
<1>9. Unwound(b) \in V[0]
  <2>1. ViewAt(Unwound(b), Ancestor(b, Height[f] + 0))
    BY <1>5, <1>6, <1>7
  <2> QED
    BY <1>7, <1>8, <2>1
<1>10. \A v \in ViewSet : \A i \in 1 .. n : ConnectChecked(v, up[i]) \in ViewSet
  BY <1>4, CheckedFields
<1>11. \A i \in 1 .. n : \A v \in V[i - 1] :
          v \in ViewSet => ConnectChecked(v, up[i]) \in V[i]
  <2> SUFFICES ASSUME NEW i \in 1 .. n, NEW v \in V[i - 1]
               PROVE  ConnectChecked(v, up[i]) \in V[i]
    OBVIOUS
  <2>1. i \in 0 .. n /\ i - 1 \in 0 .. n
    BY <1>3
  <2>2. Height[f] + (i - 1) = Height[f] + i - 1
    BY <1>3
  <2>3. v \in ViewSet /\ ViewAt(v, Parent[up[i]])
    BY <1>4, <2>1, <2>2
  <2>4. up[i] \notin Branch[dbBest]
    BY <1>2, <1>4
  <2>5. ViewAt(ConnectChecked(v, up[i]), Ancestor(b, Height[f] + i))
    BY <1>4, <2>3, <2>4, CheckedGood
  <2> QED
    BY <1>10, <2>1, <2>3, <2>5
<1> HIDE DEF V
<1>12. FoldLeft(ConnectChecked, Unwound(b), up) \in ViewSet \cap V[n]
  BY <1>3, <1>4, <1>7, <1>9, <1>10, <1>11, ConnectFold
<1>13. Reorganized(b) \in ViewSet /\ Reorganized(b) \in V[n]
  BY <1>12 DEF Reorganized, up, f
<1>14. ViewAt(Reorganized(b), Ancestor(b, Height[f] + n))
  BY <1>8, <1>13 DEF V
<1> QED
  BY <1>5, <1>6, <1>13, <1>14
-----------------------------------------------------------------------------
(* The steps keep the stored chain good.                                     *)

LEMMA StoredView ==
    ASSUME PoolInv, LedgerInv
    PROVE  TableInv /\ View \in ViewSet /\ ViewAt(View, dbBest)
<1>1. TableInv
  BY TypesOfTables DEF PoolInv
<1> QED
  BY <1>1, ViewOfTables DEF LedgerInv, ViewAt, GoodView, MemKept

LEMMA CommittedLedger ==
    ASSUME NEW v, NEW b, v.ok, ViewAt(v, b), Commit(v, b), Linked(pnext', b),
           cursor' = NoBlock => best' = b
    PROVE  LedgerInv'
<1>1. dbBest' = b /\ dbTx' = v.tx /\ dbNext' = v.next /\ dbSupply' = v.disk /\ moneySupply' = v.mem
  BY DEF Commit
<1>2. Sound(b) /\ Recorded(v.tx, b) /\ Linked(v.next, b) /\ Supplied(v.disk, v.mem, b)
  BY DEF ViewAt, GoodView
<1>3. Sound(dbBest')
  BY <1>1, <1>2
<1>4. Recorded(dbTx', dbBest')
  BY <1>1, <1>2
<1>5. Linked(dbNext', dbBest') /\ Linked(pnext', dbBest')
  BY <1>1, <1>2
<1>6. Supplied(dbSupply', moneySupply', dbBest')
  BY <1>1, <1>2
<1> QED
  BY <1>1, <1>3, <1>4, <1>5, <1>6 DEF LedgerInv

LEMMA AbortedLedger ==
    ASSUME PoolInv, LedgerInv, NEW v, ViewAt(v, dbBest) \/ MemKept(v), Abort(v), pnext' = pnext,
           cursor' = NoBlock => best' = dbBest
    PROVE  LedgerInv'
<1>1. /\ dbBest' = dbBest /\ dbTx' = dbTx /\ dbNext' = dbNext /\ dbSupply' = dbSupply
      /\ moneySupply' = v.mem
  BY DEF Abort, dbVars
<1>2. \A c \in Branch[dbBest] : v.mem[c] = moneySupply[c]
  BY DEF ViewAt, MemKept
<1>3. Supplied(dbSupply, v.mem, dbBest)
  BY <1>2 DEF LedgerInv, Supplied
<1>4. Supplied(dbSupply', moneySupply', dbBest')
  BY <1>1, <1>3
<1>5. Sound(dbBest') /\ Recorded(dbTx', dbBest') /\ Linked(dbNext', dbBest') /\ Linked(pnext', dbBest')
  BY <1>1 DEF LedgerInv
<1> QED
  BY <1>1, <1>4, <1>5 DEF LedgerInv

LEMMA ExtendLedger ==
    ASSUME PoolInv, LedgerInv, ExtendBest
    PROVE  LedgerInv'
<1> DEFINE v == ConnectBlock(View, target)
<1>1. WorkInv /\ TypeOK /\ TableInv /\ View \in ViewSet /\ ViewAt(View, dbBest)
  BY StoredView DEF PoolInv
<1>2. best = dbBest /\ target \in Block /\ target # Genesis /\ Parent[target] = dbBest
  <2>1. /\ target \in Block /\ ChainTrust[target] > ChainTrust[best] /\ best \in Block
        /\ Parent[target] = best
    BY <1>1 DEF WorkInv, ExtendBest
  <2>2. ChainTrust[Genesis] <= ChainTrust[best]
    BY <2>1, GenesisBelow
  <2>3. cursor = NoBlock
    BY <1>1, <2>1 DEF WorkInv
  <2> QED
    BY <2>1, <2>2, <2>3, TreeAssumption, TrustAssumption DEF LedgerInv
<1>3. target \notin Branch[dbBest]
  BY <1>2, BranchTxs
<1>4. Linked(pnext, dbBest) /\ pnext \in [Block -> Block \cup {NoBlock}]
  BY <1>1 DEF LedgerInv, TypeOK
<1>5. ViewAt(v, target)
  BY <1>1, <1>2, <1>3, <1>4, ConnectGood
<1>6. Extended(v, target)
  BY DEF ExtendBest
<1> HIDE DEF v
<1>7. CASE v.ok /\ Attached(v, target) /\ NewBest(target)
  <2>1. Linked(pnext', target)
    BY <1>2, <1>4, <1>7, ConnectLinked DEF Attached
  <2> QED
    BY <1>5, <1>7, <2>1, CommittedLedger DEF Attached, NewBest
<1>8. CASE ~ v.ok /\ Abort(v) /\ Refused /\ UNCHANGED <<pnext, pool>>
  <2>1. MemKept(v)
    BY <1>5 DEF ViewAt
  <2> QED
    BY <1>2, <1>8, <2>1, AbortedLedger DEF Refused
<1> QED
  BY <1>6, <1>7, <1>8 DEF Extended

LEMMA ReorganizeLedger ==
    ASSUME PoolInv, LedgerInv, Reorganize
    PROVE  LedgerInv'
<1>1. WorkInv /\ TypeOK /\ TableInv /\ View \in ViewSet /\ ViewAt(View, dbBest)
  BY StoredView DEF PoolInv
<1>2. PICK b : b = Intermediate(target)
  OBVIOUS
<1>3. /\ b \in Block /\ best \in Block /\ target \in Block /\ best = dbBest
      /\ ChainTrust[b] > ChainTrust[best]
  <2>1. target \in Block /\ best \in Block /\ ChainTrust[target] > ChainTrust[best]
    BY <1>1 DEF WorkInv, Reorganize
  <2>2. best = dbBest
    BY DEF LedgerInv, Reorganize
  <2> QED
    BY <1>2, <2>1, <2>2, IntermediateIsHeavier
<1>4. b \notin Branch[best]
  <2>1. b \in Branch[best] => b = best \/ ChainTrust[b] < ChainTrust[best]
    BY <1>3, AncestorsBelow
  <2>2. ChainTrust[b] \in Nat /\ ChainTrust[best] \in Nat
    BY <1>3, BranchType
  <2> QED
    BY <1>3, <2>1, <2>2
<1>5. Linked(pnext, dbBest) /\ pnext \in [Block -> Block \cup {NoBlock}]
  BY <1>1 DEF LedgerInv, TypeOK
<1> DEFINE refused == [View EXCEPT !.ok = FALSE]
           v == IF MayReorganize(b) THEN Reorganized(b) ELSE refused
<1>6. refused.ok = FALSE /\ MemKept(refused)
  <2>1. refused = [ok |-> FALSE, tx |-> View.tx, next |-> View.next,
                   disk |-> View.disk, mem |-> View.mem]
    BY <1>1, ViewWithOk, Zenon
  <2>2. refused.mem = View.mem /\ refused.ok = FALSE
    BY <2>1
  <2> HIDE DEF refused
  <2> QED
    BY <1>1, <2>2 DEF ViewAt, MemKept
<1>7. (v.ok => ViewAt(v, b)) /\ MemKept(v)
  <2>1. ViewAt(Reorganized(b), b)
    BY <1>1, <1>3, <1>5, ReorganizedGood
  <2>2. MemKept(Reorganized(b))
    BY <2>1 DEF ViewAt
  <2> HIDE DEF refused
  <2>3. CASE MayReorganize(b)
    <3>1. v = Reorganized(b)
      BY <2>3
    <3> QED
      BY <2>1, <2>2, <3>1
  <2>4. CASE ~ MayReorganize(b)
    <3>1. v = refused
      BY <2>4
    <3> QED
      BY <1>6, <3>1
  <2> QED
    BY <2>3, <2>4
<1>8. Switched(v, b)
  BY <1>2 DEF Reorganize
<1> HIDE DEF v
<1>9. CASE v.ok
  <2>1. Commit(v, b) /\ Advanced(b) /\ pnext' = Relinked(ForkOf(best, b), b)
    BY <1>8, <1>9 DEF Switched
  <2>2. Linked(pnext', b)
    BY <1>3, <1>4, <1>5, <2>1, RelinkedLinks
  <2>3. cursor' = NoBlock => best' = b
    BY <1>3, <2>1, ChainAssumption DEF Advanced, NewBest
  <2> QED
    BY <1>7, <1>9, <2>1, <2>2, <2>3, CommittedLedger
<1>10. CASE ~ v.ok
  <2>1. Abort(v) /\ Refused /\ UNCHANGED <<pnext, pool>>
    BY <1>8, <1>10 DEF Switched
  <2> QED
    BY <1>3, <1>7, <2>1, AbortedLedger DEF Refused
<1> QED
  BY <1>9, <1>10

LEMMA SecondaryLedger ==
    ASSUME PoolInv, LedgerInv, SecondaryConnects, ConnectSecondary
    PROVE  LedgerInv'
<1>1. WorkInv /\ TypeOK /\ TableInv /\ View \in ViewSet /\ ViewAt(View, dbBest)
  BY StoredView DEF PoolInv
<1>2. PICK b : b = Ancestor(target, Height[cursor] + 1)
  OBVIOUS
<1>3. /\ target \in Block /\ cursor \in Branch[target] /\ cursor # target /\ cursor = dbBest
      /\ dbBest \in Block
  BY <1>1 DEF WorkInv, ConnectSecondary
<1>4. b \in Block \ {Genesis} /\ Parent[b] = dbBest
  <2>1. Height[cursor] \in Nat /\ Height[target] \in Nat /\ Height[cursor] < Height[target]
    BY <1>3, BranchType, AncestorsBelow
  <2>2. PICK h : h = Height[cursor] + 1
    OBVIOUS
  <2>3. h \in 1 .. Height[target] /\ h - 1 = Height[cursor]
    BY <2>1, <2>2
  <2>4. Ancestor(target, h) \in Block \ {Genesis} /\ Parent[Ancestor(target, h)] = Ancestor(target, h - 1)
    BY <1>3, <2>3, AncestorStep
  <2>5. Ancestor(target, Height[cursor]) = cursor
    BY <1>3, AncestorAt
  <2> QED
    BY <1>2, <1>3, <2>2, <2>3, <2>4, <2>5
<1>5. b \notin Branch[dbBest]
  BY <1>4, BranchTxs
<1>6. Linked(pnext, dbBest) /\ pnext \in [Block -> Block \cup {NoBlock}]
  BY <1>1 DEF LedgerInv, TypeOK
<1> DEFINE v == ConnectBlock(View, b)
<1>7. ViewAt(v, b)
  BY <1>1, <1>4, <1>5, <1>6, ConnectGood
<1>8. Continued(v, b) /\ v.ok
  BY <1>2 DEF ConnectSecondary, SecondaryConnects
<1> HIDE DEF v
<1>9. Attached(v, b) /\ Advanced(b)
  BY <1>8 DEF Continued
<1>10. Linked(pnext', b)
  BY <1>4, <1>6, <1>9, ConnectLinked DEF Attached
<1>11. cursor' = NoBlock => best' = b
  BY <1>3, <1>4, <1>9, ChainAssumption DEF Advanced, NewBest
<1> QED
  BY <1>7, <1>8, <1>9, <1>10, <1>11, CommittedLedger DEF Attached

LEMMA SameLedger ==
    ASSUME LedgerInv, UNCHANGED <<dbBest, dbNext, dbSupply, dbTx, best, pnext, moneySupply, cursor>>
    PROVE  LedgerInv'
  BY DEF LedgerInv

LEMMA CrashLedger ==
    ASSUME LedgerInv, Crash
    PROVE  LedgerInv'
<1>1. /\ best' = dbBest /\ pnext' = dbNext /\ moneySupply' = dbSupply
      /\ UNCHANGED <<dbBest, dbNext, dbSupply, dbTx>>
  BY DEF Crash, Restarted, LoadBlockIndex, dbVars
<1>2. Supplied(dbSupply, dbSupply, dbBest)
  BY DEF LedgerInv, Supplied
<1>3. Supplied(dbSupply', moneySupply', dbBest')
  BY <1>1, <1>2
<1>4. Sound(dbBest') /\ Recorded(dbTx', dbBest') /\ Linked(dbNext', dbBest') /\ Linked(pnext', dbBest')
  BY <1>1 DEF LedgerInv
<1> QED
  BY <1>1, <1>3, <1>4 DEF LedgerInv

LEMMA InitLedger == Init => LedgerInv
<1> SUFFICES ASSUME Init PROVE LedgerInv
  OBVIOUS
<1>1. TxsIn(Branch[Genesis]) = {} /\ SpentBy({}) = {}
  BY TreeAssumption, TxAssumption DEF TxsIn, SpentBy
<1>2. Sound(Genesis)
  <2>1. Branch[Genesis] \cap Invalid = {}
    BY TreeAssumption, TxAssumption
  <2>2. L!ValidHistory(Genesis)
    BY <1>1, <2>1, LedgerTerms
  <2> QED
    BY <2>2, TreeAssumption DEF Sound
<1>3. Recorded(dbTx, Genesis)
  BY <1>1, LedgerTerms, ChainAssumption DEF Init, Recorded
<1>4. Linked(dbNext, Genesis)
  BY TreeAssumption DEF Init, Linked
<1>5. Supplied(dbSupply, moneySupply, Genesis)
  BY TreeAssumption DEF Init, Supplied
<1> QED
  BY <1>2, <1>3, <1>4, <1>5 DEF Init, LedgerInv

LEMMA StepLedger ==
    ASSUME PoolInv, LedgerInv, SecondaryConnects, [Next]_vars
    PROVE  LedgerInv'
<1>1. ASSUME NEW b \in Block \ {Genesis}, AcceptBlock(b)
      PROVE  LedgerInv'
  BY <1>1, SameLedger DEF AcceptBlock
<1>2. CASE RefuseBlock
  BY <1>2, SameLedger DEF RefuseBlock, dbVars, runVars
<1>3. CASE ExtendBest
  BY <1>3, ExtendLedger
<1>4. CASE Reorganize
  BY <1>4, ReorganizeLedger
<1>5. CASE ConnectSecondary
  BY <1>5, SecondaryLedger
<1>6. ASSUME NEW t \in Tx, AcceptToMemoryPool(t)
      PROVE  LedgerInv'
  BY <1>6, SameLedger DEF AcceptToMemoryPool, dbVars, runVars
<1>7. CASE Crash
  BY <1>7, CrashLedger
<1>8. CASE UNCHANGED vars
  BY <1>8, SameLedger DEF vars, dbVars, memVars, runVars
<1> QED
  BY <1>1, <1>2, <1>3, <1>4, <1>5, <1>6, <1>7, <1>8 DEF Next
-----------------------------------------------------------------------------
(* What follows for every behaviour.                                         *)

LEMMA LedgerAlwaysSound == Spec /\ []SecondaryConnects => [](PoolInv /\ LedgerInv)
<1>1. Init => PoolInv /\ LedgerInv
  BY InitPool, InitLedger
<1>2. PoolInv /\ LedgerInv /\ SecondaryConnects /\ [Next]_vars => (PoolInv /\ LedgerInv)'
  BY StepPool, StepLedger
<1> QED
  BY <1>1, <1>2, PTL DEF Spec

\* A walk along pnext and IsInMainChain agree with pindexBest whenever cs_main
\* is free, as long as SetBestChain's secondary connections succeed.
THEOREM NextLinksAlwaysFollowBest == Spec /\ []SecondaryConnects => []NextLinksFollowBest
<1>1. PoolInv /\ LedgerInv => NextLinksFollowBest
  <2> SUFFICES ASSUME PoolInv, LedgerInv, Idle PROVE NextLinksFollowBest
    BY DEF NextLinksFollowBest
  <2>1. best = dbBest /\ best \in Block
    BY DEF PoolInv, WorkInv, LedgerInv, Idle
  <2>2. Branch[best] \subseteq Block /\ best \in Branch[best]
    BY <2>1, BranchType
  <2>3. Linked(pnext, best)
    BY <2>1 DEF LedgerInv
  <2> QED
    BY <2>2, <2>3 DEF Linked, NextLinksFollowBest, LinksFollowBest
<1> QED
  BY <1>1, LedgerAlwaysSound, PTL

\* nMoneySupply of the stored records adds up along the stored chain, though a
\* failed reorganization leaves sums of its own in memory.
THEOREM SupplyAlwaysAddsUp == Spec /\ []SecondaryConnects => []SupplyAddsUp
<1>1. LedgerInv => SupplyAddsUp
  BY DEF LedgerInv, Supplied, SupplyAddsUp
<1> QED
  BY <1>1, LedgerAlwaysSound, PTL

\* The best block in memory is the stored one whenever cs_main is free: only a
\* failed secondary connection makes main.cpp:2246's comment untrue.
THEOREM BestStaysStored == Spec /\ []SecondaryConnects => []BestIsStored
<1>1. PoolInv /\ LedgerInv => BestIsStored
  BY DEF PoolInv, WorkInv, LedgerInv, BestIsStored, Idle
<1> QED
  BY <1>1, LedgerAlwaysSound, PTL

LEMMA RecordedCoins ==
    ASSUME NEW b \in Block, NEW tx, Recorded(tx, b), Sound(b)
    PROVE  {t \in Tx : tx[t] = Unspent} = L!CoinsOf(b) /\ L!ValidHistory(b)
<1>1. \A c \in Branch[b] : TxsOf[c] \subseteq Tx
  BY BranchType, TxAssumption
<1>2. TxsIn(Branch[b]) \subseteq Tx
  BY <1>1 DEF TxsIn
<1>3. L!CoinsOf(b) \subseteq Tx
  BY <1>2, LedgerTerms
<1> QED
  BY <1>3, BranchType DEF Recorded, Sound

\* The coin database is what the best block's history leaves unspent, that
\* history is valid, and both change in one step to those of a heavier block.
THEOREM LedgerIsAtomic == Spec /\ []SecondaryConnects => AtomicLedger
<1> DEFINE coins == {t \in Tx : dbTx[t] = Unspent}
<1>1. Init => L!Init
  <2> SUFFICES ASSUME Init PROVE L!Init
    OBVIOUS
  <2>1. /\ Recorded(dbTx, dbBest) /\ Sound(dbBest) /\ dbBest = Genesis
        /\ dbBest \in Block
    BY InitLedger, TreeAssumption DEF Init, LedgerInv
  <2> QED
    BY <2>1, RecordedCoins DEF L!Init
<1>2. ASSUME PoolInv, LedgerInv, PoolInv', LedgerInv', [Next]_vars
      PROVE  [L!Next]_<<dbBest, coins>>
  <2>1. coins = L!CoinsOf(dbBest)
    BY <1>2, RecordedCoins DEF PoolInv, WorkInv, LedgerInv
  <2>2. coins' = L!CoinsOf(dbBest') /\ L!ValidHistory(dbBest') /\ dbBest' \in Block
    <3>1. dbBest' \in Block /\ Recorded(dbTx', dbBest') /\ Sound(dbBest')
      BY <1>2 DEF PoolInv, WorkInv, LedgerInv
    <3> QED
      BY <3>1, RecordedCoins
  <2>3. CASE dbBest' = dbBest
    BY <2>1, <2>2, <2>3
  <2>4. CASE dbBest' # dbBest
    <3>1. ChainTrust[dbBest'] > ChainTrust[dbBest]
      BY <1>2, <2>4, StepWork DEF PoolInv, Heavier
    <3>2. PICK b \in Block : b = dbBest'
      BY <2>2
    <3>3. L!Adopt(b)
      BY <2>2, <3>1, <3>2 DEF L!Adopt
    <3> QED
      BY <3>3 DEF L!Next
  <2> QED
    BY <2>3, <2>4
<1> HIDE DEF coins
<1>3. PoolInv /\ LedgerInv /\ (PoolInv /\ LedgerInv)' /\ [Next]_vars => [L!Next]_<<dbBest, coins>>
  BY <1>2
<1> QED
  BY <1>1, <1>3, LedgerAlwaysSound, PTL DEF Spec, AtomicLedger, L!Spec, coins
=============================================================================
