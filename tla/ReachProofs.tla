----------------------------- MODULE ReachProofs -----------------------------
(***************************************************************************)
(* Where control can go in the blocks that lowering builds: that           *)
(* definitely_returns of the analysis is sound for them, and that          *)
(* definitions dominate uses.                                              *)
(*                                                                         *)
(* The first argument keeps a set of blocks that contains the entry block  *)
(* and the successors of its members; whatever the search from the entry   *)
(* block finds is in it.  After statements that definitely return, the     *)
(* current block is outside the set, with every block that the activations *)
(* above still wait for, unless it has ended.                              *)
(*                                                                         *)
(* The second keeps a relation that says which blocks are over which, and  *)
(* what each activation may rely on to be over the block it goes on in.    *)
(* While phis collapse, it keeps the relation without the activations.     *)
(***************************************************************************)
EXTENDS ValueProofs, WellFoundedInduction

-----------------------------------------------------------------------------
(***************************************************************************)
(* Induction over the natural numbers, from their order being well         *)
(* founded, and the search of ReachableAvoiding.                           *)
(***************************************************************************)

LEMMA LessIsWellFounded ==
  IsWellFoundedOn({s \in Nat \X Nat : s[1] < s[2]}, Nat)
BY NatLessThanWellFounded DEF OpToRel

LEMMA NatSteps ==
  ASSUME NEW S \in SUBSET Nat, 0 \in S, \A n \in S : n + 1 \in S
  PROVE  S = Nat
<1> SUFFICES ASSUME S # Nat PROVE FALSE
  OBVIOUS
<1> DEFINE R == {s \in Nat \X Nat : s[1] < s[2]}
<1>1. \E n \in Nat \ S : \A m \in Nat \ S : ~(<<m, n>> \in R)
  <2>1. IsWellFoundedOn(R, Nat)
    BY LessIsWellFounded
  <2> HIDE DEF R
  <2>2. Nat \ S # {} /\ Nat \ S \subseteq Nat
    OBVIOUS
  <2> QED
    BY <2>1, <2>2, WFMin
<1>2. PICK n \in Nat \ S : \A m \in Nat \ S : ~(m < n)
  BY <1>1
<1>3. n # 0
  BY <1>2
<1>4. n - 1 \in Nat /\ n - 1 < n
  BY <1>3
<1>5. n - 1 \in S
  BY <1>2, <1>4
<1>6. (n - 1) + 1 \in S
  BY <1>5
<1> QED
  BY <1>2, <1>4, <1>6

\* One round of the search: the blocks found so far and their successors.
Wider(bs, d, before) ==
  before \cup ((UNION { ToSet(bs[p].succ) : p \in before }) \ {d})

\* f lists the blocks found after 0, 1, ... n rounds.
Search(bs, d, n, f) ==
  f = [k \in 0 .. n |-> IF k = 0 THEN {1} \ {d} ELSE Wider(bs, d, f[k - 1])]

\* The recursive definition in ReachableAvoiding has a solution.
LEMMA SearchExists ==
  ASSUME NEW bs, NEW d, NEW n \in Nat
  PROVE  \E f : Search(bs, d, n, f)
<1> DEFINE S == {m \in Nat : \E f : Search(bs, d, m, f)}
<1>1. 0 \in S
  <2> DEFINE f == [k \in 0 .. 0 |-> {1} \ {d}]
  <2>1. f = [k \in 0 .. 0 |->
               IF k = 0 THEN {1} \ {d} ELSE Wider(bs, d, f[k - 1])]
    OBVIOUS
  <2> QED
    BY <2>1 DEF Search
<1>2. ASSUME NEW m \in S PROVE m + 1 \in S
  <2>1. PICK f : Search(bs, d, m, f)
    OBVIOUS
  <2> DEFINE g == [k \in 0 .. m + 1 |->
                     IF k = m + 1 THEN Wider(bs, d, f[m]) ELSE f[k]]
             h == [k \in 0 .. m + 1 |->
                     IF k = 0 THEN {1} \ {d} ELSE Wider(bs, d, g[k - 1])]
  <2>2. ASSUME NEW k \in 0 .. m + 1 PROVE g[k] = h[k]
    <3>1. CASE k = 0
      BY <3>1, <2>1 DEF Search
    <3>2. CASE k = m + 1
      <4>1. k # 0 /\ k - 1 = m /\ m \in 0 .. m + 1 /\ m # m + 1
        BY <3>2
      <4>2. g[m] = f[m]
        BY <4>1
      <4>3. h[k] = Wider(bs, d, g[m])
        BY <4>1
      <4>4. g[k] = Wider(bs, d, f[m])
        BY <3>2
      <4> QED
        BY <4>2, <4>3, <4>4
    <3>3. CASE k # 0 /\ k # m + 1
      <4>1. k \in 0 .. m /\ k - 1 \in 0 .. m + 1 /\ k - 1 # m + 1
        BY <3>3
      <4>2. g[k] = f[k] /\ g[k - 1] = f[k - 1]
        BY <4>1
      <4>3. f[k] = Wider(bs, d, f[k - 1])
        BY <2>1, <3>3, <4>1 DEF Search
      <4>4. h[k] = Wider(bs, d, g[k - 1])
        BY <3>3
      <4> QED
        BY <4>2, <4>3, <4>4
    <3> QED
      BY <3>1, <3>2, <3>3
  <2>3. g = h
    BY <2>2
  <2>4. Search(bs, d, m + 1, g)
    BY <2>3 DEF Search
  <2> QED
    BY <2>4
<1> QED
  <2> HIDE DEF S
  <2>1. S \in SUBSET Nat
    BY DEF S
  <2>2. S = Nat
    BY <1>1, <1>2, <2>1, NatSteps
  <2> QED
    BY <2>2 DEF S

LEMMA SearchInside ==
  ASSUME NEW bs, NEW d, NEW n \in Nat, NEW f, Search(bs, d, n, f), NEW L,
         {1} \ {d} \subseteq L,
         \A b \in L : ToSet(bs[b].succ) \ {d} \subseteq L
  PROVE  f[n] \subseteq L
<1> DEFINE S == {m \in Nat : m <= n => f[m] \subseteq L}
<1>1. 0 \in S
  BY DEF Search
<1>2. ASSUME NEW m \in S PROVE m + 1 \in S
  <2> SUFFICES ASSUME m + 1 <= n PROVE f[m + 1] \subseteq L
    OBVIOUS
  <2>1. m + 1 \in 0 .. n /\ m + 1 # 0 /\ (m + 1) - 1 = m /\ m <= n
    OBVIOUS
  <2>2. f[m + 1] = Wider(bs, d, f[m])
    BY <2>1 DEF Search
  <2>3. f[m] \subseteq L
    BY <2>1
  <2>4. ASSUME NEW x, x \in (UNION { ToSet(bs[p].succ) : p \in f[m] }) \ {d}
        PROVE  x \in L
    <3>1. PICK p \in f[m] : x \in ToSet(bs[p].succ)
      BY <2>4
    <3>2. ToSet(bs[p].succ) \ {d} \subseteq L
      BY <3>1, <2>3
    <3> QED
      BY <3>1, <3>2, <2>4
  <2> QED
    BY <2>2, <2>3, <2>4 DEF Wider
<1> QED
  <2> HIDE DEF S
  <2>1. S \in SUBSET Nat
    BY DEF S
  <2>2. S = Nat
    BY <1>1, <1>2, <2>1, NatSteps
  <2> QED
    BY <2>2 DEF S

\* The blocks that are found lie in every set that holds the entry block and
\* the successors of its members, d left aside.
LEMMA ReachableInside ==
  ASSUME NEW bs, NEW d, Len(bs) \in Nat, NEW L,
         {1} \ {d} \subseteq L,
         \A b \in L : ToSet(bs[b].succ) \ {d} \subseteq L
  PROVE  ReachableAvoiding(bs, d) \subseteq L
<1> DEFINE f == CHOOSE g : Search(bs, d, Len(bs), g)
<1>1. Search(bs, d, Len(bs), f)
  BY SearchExists
<1>2. ReachableAvoiding(bs, d) = f[Len(bs)]
  BY DEF ReachableAvoiding, Search, Wider
<1> HIDE DEF f
<1>3. f[Len(bs)] \subseteq L
  BY <1>1, SearchInside
<1> QED
  BY <1>2, <1>3

-----------------------------------------------------------------------------
(***************************************************************************)
(* The invariant.                                                          *)
(***************************************************************************)

\* live holds the entry block and every block that a member branches to.
Closed(live) ==
  /\ 1 \in live /\ live \subseteq 1 .. Len(blocks)
  /\ \A b \in live : \A i \in DOMAIN blocks[b].succ :
       blocks[b].succ[i] \in live

\* Control does not reach what is built in the activations from i on.
Shut(live, i) ==
  /\ cur \notin live
  /\ \A j \in DOMAIN ctrl : j >= i => \A b \in live : ~Awaits(ctrl[j], b)

RetsKind == ListKind \cup {"NOELSE"}

LoopKind == {"HEADER", "WHILECOND", "LOOP"}

\* After a list that definitely returns the current block has ended or
\* everything is shut; a loop whose header is not live is shut; the merge of
\* an if is live only when one of its branches may go on.
FrameLive(live, i) ==
  LET f == ctrl[i]
  IN  /\ f.kind \in RetsKind /\ f.rets /\ ~dropped =>
           \/ i = Len(ctrl) /\ blocks[cur].terminated
           \/ Shut(live, i + 1)
      /\ f.kind \in LoopKind => f.header \in live \/ Shut(live, i)
      /\ f.kind = "THEN" => f.merge \notin live
      /\ f.kind \in {"ELSE", "NOELSE"} /\ f.then.rets /\ ~dropped =>
           f.merge \notin live
      /\ f.kind = "MERGE" /\ f.then.rets /\ f.else.rets /\ ~dropped =>
           cur \notin live

Live(live) == Closed(live) /\ \A i \in DOMAIN ctrl : FrameLive(live, i)

LiveInv == status = "lowering" => \E live : Live(live)

-----------------------------------------------------------------------------
(***************************************************************************)
(* A step that leaves the first k activations running and adds edges from  *)
(* the current block to the blocks of T.                                   *)
(***************************************************************************)

\* The only new edges lead from the current block to T.
NewEdges(T) ==
  /\ Len(blocks) <= Len(blocks')
  /\ T \subseteq 1 .. Len(blocks')
  /\ \A x \in 1 .. Len(blocks') : \A i \in DOMAIN blocks'[x].succ :
       \/ /\ x \in 1 .. Len(blocks) /\ i \in DOMAIN blocks[x].succ
          /\ blocks'[x].succ[i] = blocks[x].succ[i]
       \/ x = cur /\ blocks'[x].succ[i] \in T

\* Blocks that are new or that the innermost activation gives up.
Fresh(k, b) == b > Len(blocks) \/ Handed(k, b)

Turn(k) ==
  /\ Keeps(k)
  /\ Len(ctrl) \in {k, k + 1} /\ Len(ctrl') \in {k, k + 1}
  /\ k = Len(ctrl) => Top.kind \notin {"MERGE", "HEADER", "NOELSE"}
  /\ cur' = cur \/ Fresh(k, cur')
  /\ Len(ctrl') = k + 1 =>
       \A b \in 1 .. Len(blocks') : Awaits(ctrl'[k + 1], b) => Fresh(k, b)

\* A kept list that definitely returns did so before, or is the innermost
\* activation again.
Returning(k, M) ==
  \A i \in 1 .. k :
    ctrl'[i].kind \in ListKind /\ ctrl'[i].rets /\ ~dropped' =>
      \/ /\ ctrl[i].rets /\ ~dropped
         /\ i = Len(ctrl) => ~blocks[cur].terminated
      \/ i = Len(ctrl') /\ (blocks'[cur'].terminated \/ cur' \notin M)

Spread(L, T) == L \cup (IF cur \in L THEN T ELSE {})

LEMMA TurnKind ==
  ASSUME TypeOK, NEW k, Turn(k), NEW i \in 1 .. k
  PROVE  /\ ctrl[i].kind \notin {"MERGE", "HEADER", "NOELSE"}
         /\ i \in 1 .. Len(ctrl) /\ i \in 1 .. Len(ctrl')
         /\ Alike(ctrl[i], ctrl'[i])
<1>1. /\ i \in 1 .. Len(ctrl) /\ i \in 1 .. Len(ctrl')
      /\ Alike(ctrl[i], ctrl'[i]) /\ k \in Nat /\ Len(ctrl) \in Nat
  <2>1. /\ k \in Nat /\ Len(ctrl) \in {k, k + 1} /\ Len(ctrl') \in {k, k + 1}
        /\ Alike(ctrl[i], ctrl'[i])
    BY DEF Turn, Keeps
  <2>2. i \in 1 .. Len(ctrl) /\ i \in 1 .. Len(ctrl') /\ Len(ctrl) \in Nat
    BY <2>1
  <2> QED
    BY <2>1, <2>2
<1>2. ctrl[i].kind \notin {"MERGE", "HEADER", "NOELSE"}
  <2>1. CASE i = Len(ctrl)
    <3>1. k = Len(ctrl) /\ Top = ctrl[i]
      BY <1>1, <2>1, StackFrames DEF Turn
    <3> QED
      BY <3>1 DEF Turn
  <2>2. CASE i # Len(ctrl)
    <3>1. i \in 1 .. Len(ctrl) - 1
      BY <1>1, <2>2
    <3>2. ctrl[i].kind \in ListKind \cup ExprKind
      BY <3>1, NotBelow
    <3> QED
      BY <3>2 DEF ListKind, ExprKind
  <2> QED
    BY <2>1, <2>2
<1> QED
  BY <1>1, <1>2

LEMMA FreshIsNotLive ==
  ASSUME TypeOK, NEW k, NEW L, Closed(L), Shut(L, k + 1),
         NEW b, Fresh(k, b), Len(ctrl) \in {k, k + 1}, k \in Nat
  PROVE  b \notin L
<1>1. CASE b > Len(blocks)
  <2>1. Len(blocks) \in Nat
    BY StackFrames
  <2>2. L \subseteq 1 .. Len(blocks)
    BY DEF Closed
  <2>3. b \notin 1 .. Len(blocks)
    BY <1>1, <2>1
  <2> QED
    BY <2>2, <2>3
<1>2. CASE Handed(k, b)
  <2>1. /\ Len(ctrl) = k + 1 /\ Len(ctrl) \in DOMAIN ctrl
        /\ Top = ctrl[Len(ctrl)] /\ Awaits(Top, b) /\ Len(ctrl) >= k + 1
    BY <1>2, StackFrames DEF Handed
  <2> QED
    BY <2>1 DEF Shut
<1> QED
  BY <1>1, <1>2 DEF Fresh

\* What is shut stays shut, and no block becomes live.
LEMMA ShutKept ==
  ASSUME TypeOK, TypeOK', NEW k, Turn(k), NEW L, Closed(L),
         Len(blocks) <= Len(blocks'),
         NEW i \in 1 .. k + 1, Shut(L, i)
  PROVE  Shut(L, i)'
<1>1. /\ k \in Nat /\ Len(ctrl) \in {k, k + 1} /\ Len(ctrl') \in {k, k + 1}
      /\ Len(ctrl) \in Nat /\ DOMAIN ctrl = 1 .. Len(ctrl)
  BY StackFrames DEF Turn, Keeps
<1>a. k \in Nat /\ \A j \in DOMAIN ctrl : j \in Nat
  <2>1. k \in Nat
    BY DEF Turn, Keeps
  <2>2. DOMAIN ctrl = 1 .. Len(ctrl) /\ Len(ctrl) \in Nat
    BY StackFrames
  <2> QED
    BY <2>1, <2>2
<1>2. Shut(L, k + 1)
  <2>1. ASSUME NEW j \in DOMAIN ctrl, j >= k + 1 PROVE j >= i
    <3>1. j \in Int /\ i \in Int /\ i <= k + 1 /\ k \in Int
      BY <1>a
    <3> QED
      BY <2>1, <3>1
  <2> QED
    BY <2>1 DEF Shut
<1>3. \A b : Fresh(k, b) => b \notin L
  BY <1>1, <1>2, FreshIsNotLive
<1>4. cur' \notin L
  BY <1>3 DEF Turn, Shut
<1>5. ASSUME NEW j \in DOMAIN ctrl', j >= i, NEW b \in L, Awaits(ctrl'[j], b)
      PROVE  FALSE
  <2>a. DOMAIN ctrl' = 1 .. Len(ctrl')
    <3>1. StackType'
      BY DEF TypeOK
    <3> QED
      BY <3>1 DEF StackType
  <2>1. CASE j \in 1 .. k
    <3>1. /\ ctrl[j].kind # "HEADER" /\ j \in DOMAIN ctrl
          /\ Alike(ctrl[j], ctrl'[j])
      BY <1>1, <2>1, TurnKind
    <3>2. Awaits(ctrl[j], b)
      BY <1>5, <3>1, AlikeAwaits
    <3> QED
      BY <1>5, <3>1, <3>2 DEF Shut
  <2>2. CASE j = k + 1 /\ Len(ctrl') = k + 1
    <3>1. b \in 1 .. Len(blocks')
      <4>1. Len(blocks) \in Nat /\ b \in 1 .. Len(blocks)
        BY StackFrames DEF Closed
      <4>2. Len(blocks') \in Nat
        BY DEF TypeOK, IRType
      <4> QED
        BY <4>1, <4>2
    <3>2. Fresh(k, b)
      BY <1>5, <2>2, <3>1 DEF Turn
    <3> QED
      BY <1>3, <3>2
  <2>3. j \in 1 .. k \/ (j = k + 1 /\ Len(ctrl') = k + 1)
    <3> DEFINE l == Len(ctrl')
    <3>1. j \in 1 .. l /\ l \in {k, k + 1} /\ k \in Nat
      BY <1>1, <2>a
    <3> HIDE DEF l
    <3>2. j \in 1 .. k \/ (j = k + 1 /\ l = k + 1)
      BY <3>1
    <3> QED
      BY <3>2 DEF l
  <2> QED
    BY <2>1, <2>2, <2>3
<1> QED
  BY <1>4, <1>5 DEF Shut

\* Where the new edges may lead.
Allowed(k, L, T) == \A t \in T : Fresh(k, t) \/ (cur \in L => t \in L)

\* A block of T that was not live is new, or it was still waiting.
LEMMA NewlyLive ==
  ASSUME TypeOK, Lowering, NEW k \in Nat, NEW L, NEW T, Allowed(k, L, T),
         NEW b \in Spread(L, T), b \notin L, b \in 1 .. Len(blocks)
  PROVE  Handed(k, b) /\ blocks[b].succ = << >> /\ cur \in L
<1>1. cur \in L /\ b \in T
  BY DEF Spread
<1>2. ~(b > Len(blocks))
  <2>1. Len(blocks) \in Nat
    BY StackFrames
  <2> QED
    BY <2>1
<1>3. Handed(k, b)
  BY <1>1, <1>2 DEF Allowed, Fresh
<1>4. Idle(blocks[b])
  BY <1>3, HandedApart
<1> QED
  BY <1>1, <1>3, <1>4 DEF Idle

LEMMA ClosedKept ==
  ASSUME TypeOK, Lowering, NEW k \in Nat, NEW L, Closed(L), NEW T,
         NewEdges(T), Allowed(k, L, T), Len(blocks') \in Nat,
         NEW M, M = Spread(L, T)
  PROVE  Closed(M)'
<1>1. L \subseteq 1 .. Len(blocks) /\ 1 \in L /\ L \subseteq M
  BY DEF Closed, Spread
<1>2. M \subseteq 1 .. Len(blocks')
  <2>1. Len(blocks) \in Nat /\ Len(blocks) <= Len(blocks')
    BY StackFrames DEF NewEdges
  <2>2. 1 .. Len(blocks) \subseteq 1 .. Len(blocks')
    BY <2>1
  <2>3. T \subseteq 1 .. Len(blocks')
    BY DEF NewEdges
  <2> QED
    BY <1>1, <2>2, <2>3 DEF Spread
<1>3. ASSUME NEW b \in M, NEW i \in DOMAIN blocks'[b].succ
      PROVE  blocks'[b].succ[i] \in M
  <2>1. \/ /\ b \in 1 .. Len(blocks) /\ i \in DOMAIN blocks[b].succ
           /\ blocks'[b].succ[i] = blocks[b].succ[i]
        \/ b = cur /\ blocks'[b].succ[i] \in T
    BY <1>2 DEF NewEdges
  <2>2. CASE b = cur /\ blocks'[b].succ[i] \in T
    BY <2>2 DEF Spread
  <2>3. CASE /\ b \in 1 .. Len(blocks) /\ i \in DOMAIN blocks[b].succ
             /\ blocks'[b].succ[i] = blocks[b].succ[i]
    <3>1. CASE b \in L
      <4>1. blocks[b].succ[i] \in L
        BY <2>3, <3>1 DEF Closed
      <4> QED
        BY <1>1, <2>3, <4>1
    <3>2. CASE b \notin L
      <4>1. blocks[b].succ = << >>
        BY <2>3, <3>2, NewlyLive
      <4> QED
        BY <2>3, <4>1
    <3> QED
      BY <3>1, <3>2
  <2> QED
    BY <2>1, <2>2, <2>3
<1> QED
  BY <1>1, <1>2, <1>3 DEF Closed

\* A block that a kept activation waits for does not become live.
LEMMA AwaitedStaysOut ==
  ASSUME TypeOK, Lowering, NEW k, Turn(k), NEW L, NEW T, Allowed(k, L, T),
         NEW i \in 1 .. k, NEW b, Awaits(ctrl[i], b), b \notin L
  PROVE  b \notin Spread(L, T)
<1> SUFFICES ASSUME b \in Spread(L, T) PROVE FALSE
  OBVIOUS
<1>1. k \in Nat /\ i \in 1 .. Len(ctrl) /\ i # k + 1
  <2>1. k \in Nat
    BY DEF Turn, Keeps
  <2>2. i # k + 1
    BY <2>1
  <2> QED
    BY <2>1, <2>2, TurnKind
<1>2. b \in 1 .. Len(blocks)
  BY <1>1, FrameBlocks
<1>3. Handed(k, b)
  BY <1>1, <1>2, NewlyLive
<1> QED
  BY <1>1, <1>2, <1>3, HandedApart

LEMMA FramesKept ==
  ASSUME TypeOK, TypeOK', Lowering, NEW k, Turn(k), NEW L, Live(L), NEW T,
         Allowed(k, L, T), NEW M, M = Spread(L, T),
         Len(blocks) <= Len(blocks'), Returning(k, M), dropped => dropped',
         NEW i \in 1 .. k
  PROVE  FrameLive(M, i)'
<1> DEFINE f == ctrl[i]
           g == ctrl'[i]
<1>1. /\ f.kind \notin {"MERGE", "HEADER", "NOELSE"} /\ Alike(f, g)
      /\ i \in 1 .. Len(ctrl) /\ i \in 1 .. Len(ctrl')
  BY TurnKind
<1>2. Closed(L) /\ FrameLive(L, i)
  BY <1>1, StackFrames DEF Live
<1>3. k \in Nat /\ i \in 1 .. k + 1 /\ i + 1 \in 1 .. k + 1
  <2>1. k \in Nat
    BY DEF Turn, Keeps
  <2> QED
    BY <2>1
<1>4. ASSUME NEW j \in 1 .. k + 1, Shut(L, j)
      PROVE  Shut(M, j)'
  <2>1. cur \notin L
    BY <1>4 DEF Shut
  <2>2. M = L
    BY <2>1 DEF Spread
  <2>3. Shut(L, j)'
    BY <1>2, <1>4, ShutKept
  <2> QED
    BY <2>2, <2>3
<1>5. g.kind = f.kind
  BY <1>1 DEF Alike
<1>6. ASSUME g.kind \in RetsKind, g.rets, ~dropped'
      PROVE  \/ i = Len(ctrl') /\ blocks'[cur'].terminated
             \/ Shut(M, i + 1)'
  <2>1. g.kind \in ListKind
    BY <1>1, <1>5, <1>6 DEF RetsKind
  <2>2. \/ /\ ctrl[i].rets /\ ~dropped
           /\ i = Len(ctrl) => ~blocks[cur].terminated
        \/ i = Len(ctrl') /\ (blocks'[cur'].terminated \/ cur' \notin M)
    BY <1>6, <2>1 DEF Returning
  <2>3. CASE /\ ctrl[i].rets /\ ~dropped
             /\ i = Len(ctrl) => ~blocks[cur].terminated
    <3>1. Shut(L, i + 1)
      BY <1>2, <1>5, <1>6, <2>3 DEF FrameLive
    <3> QED
      BY <1>3, <1>4, <3>1
  <2>4. CASE i = Len(ctrl') /\ cur' \notin M
    <3>1. DOMAIN ctrl' = 1 .. Len(ctrl')
      <4>1. StackType'
        BY DEF TypeOK
      <4> QED
        BY <4>1 DEF StackType
    <3>2. \A j \in DOMAIN ctrl' : ~(j >= i + 1)
      BY <2>4, <3>1
    <3> QED
      BY <2>4, <3>2 DEF Shut
  <2> QED
    BY <2>2, <2>3, <2>4
<1>7. ASSUME g.kind \in LoopKind
      PROVE  g.header \in M \/ Shut(M, i)'
  <2>1. f.kind \in {"WHILECOND", "LOOP"} /\ g.header = f.header
    BY <1>1, <1>5, <1>7 DEF LoopKind, Alike
  <2>2. f.header \in L \/ Shut(L, i)
    BY <1>2, <2>1 DEF FrameLive, LoopKind
  <2> QED
    BY <1>3, <1>4, <2>1, <2>2 DEF Spread
<1>8. ASSUME g.kind = "THEN"
      PROVE  g.merge \notin M
  <2>1. f.kind = "THEN" /\ g.merge = f.merge
    BY <1>1, <1>5, <1>8 DEF Alike
  <2>2. f.merge \notin L /\ Awaits(ctrl[i], f.merge)
    BY <1>2, <2>1 DEF FrameLive, Awaits
  <2> QED
    BY <2>1, <2>2, AwaitedStaysOut
<1>9. ASSUME g.kind \in {"ELSE", "NOELSE"}, g.then.rets, ~dropped'
      PROVE  g.merge \notin M
  <2>1. f.kind = "ELSE" /\ g.merge = f.merge /\ g.then = f.then
    BY <1>1, <1>5, <1>9 DEF Alike
  <2>2. f.merge \notin L /\ Awaits(ctrl[i], f.merge)
    BY <1>2, <1>9, <2>1 DEF FrameLive, Awaits
  <2> QED
    BY <2>1, <2>2, AwaitedStaysOut
<1>10. g.kind # "MERGE"
  BY <1>1, <1>5
<1> QED
  BY <1>6, <1>7, <1>8, <1>9, <1>10 DEF FrameLive

\* The invariant after a step that goes on with the lowering.
LEMMA LiveStep ==
  ASSUME TypeOK, TypeOK', Lowering, NEW k, Turn(k), NEW L, Live(L), NEW T,
         NewEdges(T), Allowed(k, L, T), NEW M, M = Spread(L, T),
         Returning(k, M), dropped => dropped',
         Len(ctrl') = k + 1 => FrameLive(M, k + 1)'
  PROVE  LiveInv'
<1>1. k \in Nat /\ Len(ctrl') \in {k, k + 1}
  BY DEF Turn, Keeps
<1>2. Closed(M)'
  <2>1. Len(blocks') \in Nat
    BY DEF TypeOK, IRType
  <2> QED
    BY <1>1, <2>1, ClosedKept DEF Live
<1>3. DOMAIN ctrl' = 1 .. Len(ctrl')
  <2>1. StackType'
    BY DEF TypeOK
  <2> QED
    BY <2>1 DEF StackType
<1>4. ASSUME NEW i \in DOMAIN ctrl' PROVE FrameLive(M, i)'
  <2>1. CASE i \in 1 .. k
    BY <2>1, FramesKept DEF NewEdges
  <2>2. CASE i = k + 1 /\ Len(ctrl') = k + 1
    BY <2>2
  <2>3. i \in 1 .. k \/ (i = k + 1 /\ Len(ctrl') = k + 1)
    <3> DEFINE l == Len(ctrl')
    <3>1. i \in 1 .. l /\ l \in {k, k + 1} /\ k \in Nat
      BY <1>1, <1>3
    <3> HIDE DEF l
    <3>2. i \in 1 .. k \/ (i = k + 1 /\ l = k + 1)
      BY <3>1
    <3> QED
      BY <3>2 DEF l
  <2> QED
    BY <2>1, <2>2, <2>3
<1>5. Live(M)'
  BY <1>2, <1>4 DEF Live
<1> QED
  BY <1>5 DEF LiveInv

-----------------------------------------------------------------------------
(***************************************************************************)
(* What the changes of the stack do to lists that definitely return.       *)
(***************************************************************************)

\* The conditions of Turn that do not depend on the blocks.
Shape(k) ==
  /\ Keeps(k)
  /\ Len(ctrl) \in {k, k + 1} /\ Len(ctrl') \in {k, k + 1}
  /\ k = Len(ctrl) => Top.kind \notin {"MERGE", "HEADER", "NOELSE"}

LEMMA ReceiveReturning ==
  ASSUME TypeOK, NEW o, Receive(o), Top.kind \in ExprKind, NEW M,
         dropped => dropped'
  PROVE  /\ Shape(Len(ctrl)) /\ Returning(Len(ctrl), M)
         /\ Len(ctrl') = Len(ctrl)
<1>1. /\ Keeps(Len(ctrl)) /\ Len(ctrl') = Len(ctrl)
      /\ \A i \in 1 .. Len(ctrl) - 1 : ctrl'[i] = ctrl[i]
      /\ Alike(Top, ctrl'[Len(ctrl)])
  BY ReceiveShape
<1>2. Len(ctrl) \in Nat /\ Top = ctrl[Len(ctrl)]
  BY StackFrames
<1>3. Shape(Len(ctrl))
  BY <1>1, <1>2 DEF Shape, ExprKind
<1>4. ASSUME NEW i \in 1 .. Len(ctrl), ctrl'[i].kind \in ListKind,
             ctrl'[i].rets, ~dropped'
      PROVE  ctrl[i].rets /\ ~dropped /\ i # Len(ctrl)
  <2>1. ctrl'[Len(ctrl)].kind \in ExprKind
    BY <1>1 DEF Alike
  <2>2. i # Len(ctrl)
    BY <1>4, <2>1 DEF ListKind, ExprKind
  <2>3. i \in 1 .. Len(ctrl) - 1
    BY <1>2, <2>2
  <2> QED
    BY <1>1, <1>4, <2>2, <2>3
<1> QED
  BY <1>1, <1>3, <1>4 DEF Returning

LEMMA PushReturning ==
  ASSUME TypeOK, NEW f, Push(f), ~blocks[cur].terminated, NEW M,
         Top.kind \in ListKind \cup ExprKind, dropped => dropped'
  PROVE  /\ Shape(Len(ctrl)) /\ Returning(Len(ctrl), M)
         /\ Len(ctrl') = Len(ctrl) + 1 /\ ctrl'[Len(ctrl) + 1] = f
<1>1. /\ Keeps(Len(ctrl)) /\ Len(ctrl') = Len(ctrl) + 1
      /\ \A i \in 1 .. Len(ctrl) : ctrl'[i] = ctrl[i]
      /\ ctrl'[Len(ctrl) + 1] = f
  BY PushShape
<1>2. Shape(Len(ctrl))
  BY <1>1 DEF Shape, ListKind, ExprKind
<1> QED
  BY <1>1, <1>2 DEF Returning

LEMMA ReplaceTop ==
  ASSUME TypeOK, NEW f, Replace(f), NEW k, k = Len(ctrl) - 1
  PROVE  /\ Shape(k) /\ Len(ctrl') = k + 1 /\ ctrl'[k + 1] = f
         /\ \A i \in 1 .. k : ctrl'[i] = ctrl[i]
<1>1. /\ Keeps(k) /\ Len(ctrl') = Len(ctrl)
      /\ \A i \in 1 .. k : ctrl'[i] = ctrl[i]
      /\ ctrl'[Len(ctrl)] = f
  BY ReplaceShape
<1>2. Len(ctrl) \in Nat /\ Len(ctrl) = k + 1
  BY StackFrames
<1>3. Shape(k)
  BY <1>1, <1>2 DEF Shape
<1> QED
  BY <1>1, <1>2, <1>3

LEMMA ReplaceReturning ==
  ASSUME TypeOK, NEW f, Replace(f), NEW M, dropped => dropped'
  PROVE  /\ Shape(Len(ctrl) - 1) /\ Returning(Len(ctrl) - 1, M)
         /\ Len(ctrl') = Len(ctrl) /\ ctrl'[Len(ctrl)] = f
<1>1. /\ Keeps(Len(ctrl) - 1) /\ Len(ctrl') = Len(ctrl)
      /\ \A i \in 1 .. Len(ctrl) - 1 : ctrl'[i] = ctrl[i]
      /\ ctrl'[Len(ctrl)] = f
  BY ReplaceShape
<1>2. Len(ctrl) \in Nat
  BY StackFrames
<1>3. Shape(Len(ctrl) - 1)
  BY <1>1, <1>2 DEF Shape
<1>4. \A i \in 1 .. Len(ctrl) - 1 : i # Len(ctrl)
  BY <1>2
<1> QED
  BY <1>1, <1>3, <1>4 DEF Returning

LEMMA PopReturning ==
  ASSUME TypeOK, Top.kind # "FBODY", Pop, NEW M, dropped => dropped'
  PROVE  /\ Shape(Len(ctrl) - 1) /\ Returning(Len(ctrl) - 1, M)
         /\ Len(ctrl') = Len(ctrl) - 1
<1>1. /\ Keeps(Len(ctrl) - 1) /\ Len(ctrl') = Len(ctrl) - 1
      /\ \A i \in 1 .. Len(ctrl) - 1 : ctrl'[i] = ctrl[i]
  BY PopShape
<1>2. Len(ctrl) \in Nat
  BY StackFrames
<1>3. Shape(Len(ctrl) - 1)
  BY <1>1, <1>2 DEF Shape
<1>4. \A i \in 1 .. Len(ctrl) - 1 : i # Len(ctrl)
  BY <1>2
<1> QED
  BY <1>1, <1>3, <1>4 DEF Returning

LEMMA ReturnReturning ==
  ASSUME TypeOK, NEW o, Return(o), NEW M, dropped => dropped',
         \/ Top.kind \in OperandKind
         \/ Top.kind = "CALL" /\ ctrl[Len(ctrl) - 1].kind \notin ListKind
  PROVE  /\ Shape(Len(ctrl) - 1) /\ Returning(Len(ctrl) - 1, M)
         /\ Len(ctrl') = Len(ctrl) - 1
<1>1. /\ ctrl[Len(ctrl) - 1].kind \in ExprKind /\ Top.kind # "FBODY"
      /\ Len(ctrl) - 1 \in Nat /\ Len(ctrl) >= 2
  BY OperandCaller
<1>2. /\ Keeps(Len(ctrl) - 1) /\ Len(ctrl') = Len(ctrl) - 1
      /\ \A i \in 1 .. Len(ctrl) - 2 : ctrl'[i] = ctrl[i]
  BY <1>1, ReturnShape
<1>3. Len(ctrl) \in Nat
  BY StackFrames
<1>4. Shape(Len(ctrl) - 1)
  BY <1>2, <1>3 DEF Shape
<1>5. ASSUME NEW i \in 1 .. Len(ctrl) - 1, ctrl'[i].kind \in ListKind,
             ctrl'[i].rets, ~dropped'
      PROVE  ctrl[i].rets /\ ~dropped /\ i # Len(ctrl)
  <2>1. Len(ctrl) - 1 \in 1 .. Len(ctrl) - 1
    BY <1>1
  <2>2. ctrl'[Len(ctrl) - 1].kind \in ExprKind
    BY <1>1, <1>2, <2>1 DEF Keeps, Alike
  <2>3. i # Len(ctrl) - 1
    BY <1>5, <2>2 DEF ListKind, ExprKind
  <2>4. i \in 1 .. Len(ctrl) - 2 /\ i # Len(ctrl)
    BY <1>3, <2>3
  <2> QED
    BY <1>2, <1>5, <2>4
<1> QED
  BY <1>2, <1>4, <1>5 DEF Returning

LEMMA EndReturning ==
  ASSUME TypeOK, Top.kind \in StatementKind, NEW r, EndStatement(r), NEW M,
         dropped => dropped',
         r /\ ~dropped' => blocks'[cur'].terminated \/ cur' \notin M
  PROVE  /\ Shape(Len(ctrl) - 1) /\ Returning(Len(ctrl) - 1, M)
         /\ Len(ctrl') = Len(ctrl) - 1
<1>1. /\ ctrl[Len(ctrl) - 1].kind \in ListKind /\ Top.kind # "FBODY"
      /\ Len(ctrl) - 1 \in Nat /\ Len(ctrl) - 1 \in 1 .. Len(ctrl)
  BY StatementCaller
<1>2. /\ Keeps(Len(ctrl) - 1) /\ Len(ctrl') = Len(ctrl) - 1
      /\ \A i \in 1 .. Len(ctrl) - 2 : ctrl'[i] = ctrl[i]
      /\ ctrl'[Len(ctrl) - 1].rets = (ctrl[Len(ctrl) - 1].rets \/ r)
  BY <1>1, EndShape
<1>3. Len(ctrl) \in Nat
  BY StackFrames
<1>4. Shape(Len(ctrl) - 1)
  BY <1>2, <1>3 DEF Shape
<1>5. ASSUME NEW i \in 1 .. Len(ctrl) - 1, ctrl'[i].rets, ~dropped'
      PROVE  \/ ctrl[i].rets /\ ~dropped /\ i # Len(ctrl)
             \/ i = Len(ctrl') /\ (blocks'[cur'].terminated \/ cur' \notin M)
  <2>1. CASE i = Len(ctrl) - 1
    <3>1. ctrl[i].rets \/ r
      BY <1>2, <1>5, <2>1
    <3>2. i # Len(ctrl) /\ i = Len(ctrl')
      BY <1>2, <1>3, <2>1
    <3> QED
      BY <1>5, <3>1, <3>2
  <2>2. CASE i # Len(ctrl) - 1
    <3>1. i \in 1 .. Len(ctrl) - 2 /\ i # Len(ctrl)
      BY <1>3, <2>2
    <3> QED
      BY <1>2, <1>5, <3>1
  <2> QED
    BY <2>1, <2>2
<1> QED
  BY <1>2, <1>4, <1>5 DEF Returning

-----------------------------------------------------------------------------
(***************************************************************************)
(* Steps that add no edge.                                                 *)
(***************************************************************************)

SameSucc ==
  /\ Len(blocks') = Len(blocks)
  /\ \A x \in 1 .. Len(blocks) : blocks'[x].succ = blocks[x].succ

LEMMA QuietLive ==
  ASSUME TypeOK, TypeOK', FlowInv, LiveInv, status = "lowering",
         NEW k, Shape(k), SameSucc, cur' = cur, dropped => dropped',
         Len(ctrl') = k + 1 =>
           \A b \in 1 .. Len(blocks') : Awaits(ctrl'[k + 1], b) => Fresh(k, b),
         \A L : Live(L) =>
           /\ Returning(k, L)
           /\ Len(ctrl') = k + 1 => FrameLive(L, k + 1)'
  PROVE  LiveInv'
<1>1. PICK L : Live(L)
  BY DEF LiveInv
<1>2. Lowering
  BY InLowering
<1>3. Turn(k)
  BY DEF Turn, Shape
<1> DEFINE T == {}
<1>4. NewEdges(T)
  <2>1. Len(blocks) \in Nat
    BY StackFrames
  <2> QED
    BY <2>1 DEF NewEdges, SameSucc
<1>5. Allowed(k, L, T) /\ L = Spread(L, T)
  BY DEF Allowed, Spread
<1> HIDE DEF T
<1> QED
  BY <1>1, <1>2, <1>3, <1>4, <1>5, LiveStep

LEMMA EdgesKept ==
  ASSUME UNCHANGED blocks
  PROVE  SameSucc
BY DEF SameSucc

LEMMA EmitSucc ==
  ASSUME TypeOK, NEW b \in 1 .. Len(blocks), NEW instr,
         blocks' = Emit(blocks, b, instr)
  PROVE  SameSucc
<1>1. Emitted(blocks, blocks', b, instr)
  BY EmitShape
<1> QED
  BY <1>1 DEF Emitted, SameSucc

\* A statement that fails is not lowered further.
LEMMA StoppedLive ==
  ASSUME status' # "lowering"
  PROVE  LiveInv'
BY DEF LiveInv

LEMMA FailLive ==
  ASSUME NEW e \in Error, Fail(e)
  PROVE  LiveInv'
<1>1. status' # "lowering"
  BY DEF Fail, Error, UnboundAssignment, AssignmentTypes, NoValue,
         AfterReturn, NoReturn, ReturnType, OperandTypes, ArgumentTypes,
         WhileType
<1> QED
  BY <1>1, StoppedLive

\* An operand arrives.
LEMMA ReceiveLive ==
  ASSUME TypeOK, TypeOK', FlowInv, LiveInv, status = "lowering",
         NEW o, Receive(o), Top.kind \in ExprKind,
         UNCHANGED <<runVars, irVars>>
  PROVE  LiveInv'
<1>1. UNCHANGED <<blocks, cur, dropped>>
  BY DEF runVars, irVars
<1>2. /\ Shape(Len(ctrl)) /\ Len(ctrl') = Len(ctrl)
      /\ \A L : Returning(Len(ctrl), L)
  BY <1>1, ReceiveReturning
<1>3. Len(ctrl') # Len(ctrl) + 1
  BY <1>2, StackFrames
<1> QED
  BY <1>1, <1>2, <1>3, EdgesKept, QuietLive

\* The call of something that waits for no block.
LEMMA PushLive ==
  ASSUME TypeOK, TypeOK', FlowInv, LiveInv, status = "lowering",
         NEW f, Push(f), f.kind \in FreeKind, f.kind \in ListKind => ~f.rets,
         Top.kind \in ListKind \cup ExprKind, ~blocks[cur].terminated,
         UNCHANGED <<runVars, irVars>>
  PROVE  LiveInv'
<1> PICK k : k = Len(ctrl)
  OBVIOUS
<1>1. UNCHANGED <<blocks, cur, dropped>>
  BY DEF runVars, irVars
<1>2. /\ Shape(k) /\ Len(ctrl') = k + 1
      /\ \A L : Returning(k, L)
      /\ ctrl'[k + 1] = f
  BY <1>1, PushReturning
<1>3. \A b : ~Awaits(f, b)
  BY FreeFrame
<1>4. \A L : FrameLive(L, k + 1)'
  <2>1. f.kind \notin {"NOELSE", "HEADER", "WHILECOND", "LOOP", "THEN",
                       "ELSE", "MERGE"}
    BY DEF FreeKind
  <2>2. f.kind \in RetsKind => ~f.rets
    BY <2>1 DEF RetsKind
  <2> QED
    BY <1>2, <2>1, <2>2 DEF FrameLive, LoopKind
<1> QED
  BY <1>1, <1>2, <1>3, <1>4, EdgesKept, QuietLive

LEMMA LeafLive ==
  ASSUME TypeOK, TypeOK', FlowInv, LiveInv, NEW t, Wanting(t),
         NEW o, Receive(o),
         UNCHANGED <<runVars, irVars, nameVars, semVars, fuel>>
  PROVE  LiveInv'
BY ReceiveLive DEF Wanting

LEMMA BeginExprLive ==
  ASSUME TypeOK, TypeOK', FlowInv, LiveInv, NEW t, Wanting(t), NEW f,
         BeginExpr(f), f.kind \in {"BINARY", "NOT", "CALL", "LEFT"}
  PROVE  LiveInv'
<1>1. /\ status = "lowering" /\ Top.kind \in ExprKind /\ Push(f)
      /\ UNCHANGED <<runVars, irVars>>
  BY DEF Wanting, BeginExpr
<1>2. ~blocks[cur].terminated
  BY <1>1, InLowering DEF ListKind, ExprKind
<1>3. f.kind \in FreeKind /\ f.kind \notin ListKind
  BY DEF FreeKind, ListKind
<1> QED
  BY <1>1, <1>2, <1>3, PushLive

\* An operator, a connective or a call returns its operand.
LEMMA ComputeLive ==
  ASSUME TypeOK, TypeOK', FlowInv, LiveInv, status = "lowering",
         \/ Top.kind \in OperandKind
         \/ Top.kind = "CALL" /\ ctrl[Len(ctrl) - 1].kind \notin ListKind,
         NEW o, Return(o), SameSucc, cur' = cur, dropped => dropped'
  PROVE  LiveInv'
<1>1. /\ Shape(Len(ctrl) - 1) /\ Len(ctrl') = Len(ctrl) - 1
      /\ \A L : Returning(Len(ctrl) - 1, L)
  BY ReturnReturning
<1>2. Len(ctrl') # (Len(ctrl) - 1) + 1
  BY <1>1, StackFrames
<1> QED
  BY <1>1, <1>2, QuietLive

\* A statement ends where it is.
LEMMA EndLive ==
  ASSUME TypeOK, TypeOK', FlowInv, LiveInv, status = "lowering",
         Top.kind \in StatementKind, NEW r, EndStatement(r),
         SameSucc, cur' = cur, dropped => dropped',
         \A L : Live(L) /\ r /\ ~dropped' =>
           blocks'[cur].terminated \/ cur \notin L
  PROVE  LiveInv'
<1>1. /\ Shape(Len(ctrl) - 1) /\ Len(ctrl') = Len(ctrl) - 1
      /\ \A L : Live(L) => Returning(Len(ctrl) - 1, L)
  <2>1. ASSUME NEW L, Live(L)
        PROVE  Returning(Len(ctrl) - 1, L)
    BY <2>1, EndReturning
  <2>2. Shape(Len(ctrl) - 1) /\ Len(ctrl') = Len(ctrl) - 1
    <3>1. PICK L : Live(L)
      BY DEF LiveInv
    <3> QED
      BY <3>1, EndReturning
  <2> QED
    BY <2>1, <2>2
<1>2. Len(ctrl') # (Len(ctrl) - 1) + 1
  BY <1>1, StackFrames
<1> QED
  BY <1>1, <1>2, QuietLive

LEMMA PopLive ==
  ASSUME TypeOK, TypeOK', FlowInv, LiveInv, status = "lowering",
         Top.kind # "FBODY", Pop, SameSucc, cur' = cur, dropped => dropped'
  PROVE  LiveInv'
<1>1. /\ Shape(Len(ctrl) - 1) /\ Len(ctrl') = Len(ctrl) - 1
      /\ \A L : Returning(Len(ctrl) - 1, L)
  BY PopReturning
<1>2. Len(ctrl') # (Len(ctrl) - 1) + 1
  BY <1>1, StackFrames
<1> QED
  BY <1>1, <1>2, QuietLive

LEMMA FinishBinaryLive ==
  ASSUME TypeOK, TypeOK', FlowInv, LiveInv, FinishBinary
  PROVE  LiveInv'
<1> DEFINE type == ResultType(Top.op, Top.args[1].type)
           o    == Result(Top.target, type)
<1>1. Top.kind = "BINARY" /\ status = "lowering"
  BY DEF FinishBinary, Active
<1>2. \/ Fail(OperandTypes)
      \/ /\ blocks' = Emit(blocks, cur, Instruction(Top.op, o, Top.args))
         /\ Return(o) /\ UNCHANGED <<runVars, cur>>
  BY DEF FinishBinary
<1>3. CASE Fail(OperandTypes)
  BY <1>3, FailLive DEF Error
<1>4. CASE /\ blocks' = Emit(blocks, cur, Instruction(Top.op, o, Top.args))
           /\ Return(o) /\ UNCHANGED <<runVars, cur>>
  <2>1. SameSucc
    BY <1>4, EmitSucc, StackFrames
  <2> QED
    BY <1>1, <1>4, <2>1, ComputeLive DEF OperandKind, runVars
<1> QED
  BY <1>2, <1>3, <1>4

LEMMA FinishNotLive ==
  ASSUME TypeOK, TypeOK', FlowInv, LiveInv, FinishNot
  PROVE  LiveInv'
<1> DEFINE o == Result(Top.target, "BOOL")
<1>1. Top.kind = "NOT" /\ status = "lowering"
  BY DEF FinishNot, Active
<1>2. \/ Fail(OperandTypes)
      \/ /\ blocks' = Emit(blocks, cur, Instruction("NOT", o, Top.args))
         /\ Return(o) /\ UNCHANGED <<runVars, cur>>
  BY DEF FinishNot
<1>3. CASE Fail(OperandTypes)
  BY <1>3, FailLive DEF Error
<1>4. CASE /\ blocks' = Emit(blocks, cur, Instruction("NOT", o, Top.args))
           /\ Return(o) /\ UNCHANGED <<runVars, cur>>
  <2>1. SameSucc
    BY <1>4, EmitSucc, StackFrames
  <2> QED
    BY <1>1, <1>4, <2>1, ComputeLive DEF OperandKind, runVars
<1> QED
  BY <1>2, <1>3, <1>4

LEMMA FinishCallLive ==
  ASSUME TypeOK, TypeOK', FlowInv, LiveInv, FinishCall
  PROVE  LiveInv'
<1> DEFINE o == IF Top.ret = "VOID" THEN NoOperand
                ELSE Result(Top.target, Top.ret)
<1>1. /\ Top.kind = "CALL" /\ status = "lowering"
      /\ blocks' = Emit(blocks, cur, Instruction("CALL", o, Top.args))
      /\ UNCHANGED <<cur, dropped>>
      /\ IF ctrl[Len(ctrl) - 1].kind \in ListKind THEN Pop ELSE Return(o)
  BY DEF FinishCall, Active, runVars
<1> HIDE DEF o
<1>2. SameSucc
  BY <1>1, EmitSucc, StackFrames
<1>3. CASE ctrl[Len(ctrl) - 1].kind \in ListKind
  BY <1>1, <1>2, <1>3, PopLive
<1>4. CASE ctrl[Len(ctrl) - 1].kind \notin ListKind
  BY <1>1, <1>2, <1>4, ComputeLive
<1> QED
  BY <1>3, <1>4

LEMMA DropLogicLive ==
  ASSUME TypeOK, TypeOK', FlowInv, LiveInv, DropLogic
  PROVE  LiveInv'
<1>1. /\ Top.kind \in OperandKind /\ status = "lowering"
      /\ Return(NoOperand) /\ dropped' /\ UNCHANGED <<blocks, cur>>
  BY DEF DropLogic, Active, OperandKind, irVars
<1> QED
  BY <1>1, EdgesKept, ComputeLive

-----------------------------------------------------------------------------
(***************************************************************************)
(* emit_statement                                                          *)
(***************************************************************************)

LEMMA BeginStatementLive ==
  ASSUME TypeOK, TypeOK', FlowInv, LiveInv, InList, ~blocks[cur].terminated,
         NEW f, Push(f), f.kind \in {"ASSIGN", "RETURN", "CALL", "BLOCK",
                                     "IFCOND"},
         f.kind = "BLOCK" => ~f.rets, UNCHANGED <<runVars, irVars>>
  PROVE  LiveInv'
<1>1. status = "lowering" /\ Top.kind \in ListKind
  BY DEF InList
<1>2. f.kind \in FreeKind /\ (f.kind \in ListKind => ~f.rets)
  BY DEF FreeKind, ListKind
<1> QED
  BY <1>1, <1>2, PushLive

LEMMA DeclareOnlyLive ==
  ASSUME TypeOK, TypeOK', FlowInv, LiveInv, NEW n, NEW t, DeclareOnly(n, t)
  PROVE  LiveInv'
<1> PICK k : k = Len(ctrl)
  OBVIOUS
<1>1. /\ status = "lowering" /\ Top.kind \in ListKind
      /\ ~blocks[cur].terminated
      /\ UNCHANGED <<blocks, cur, ctrl, dropped>>
  BY DEF DeclareOnly, StartStatement, NextStatement, InList, runVars, irVars
<1>2. Shape(k) /\ Len(ctrl') # k + 1
  BY <1>1, SameShape, StackFrames DEF Shape, ListKind
<1>3. \A L : Returning(k, L)
  BY <1>1 DEF Returning
<1> QED
  BY <1>1, <1>2, <1>3, EdgesKept, QuietLive

LEMMA BeginAssignmentLive ==
  ASSUME TypeOK, TypeOK', FlowInv, LiveInv, InList, ~blocks[cur].terminated,
         NEW n, NEW u, NEW t, BeginAssignment(n, u, t)
  PROVE  LiveInv'
<1> DEFINE f == [kind |-> "ASSIGN", name |-> n, dest |-> ValueOp(NextId, t),
                 wants |-> <<u>>, args |-> << >>]
<1>1. Push(f) /\ f.kind = "ASSIGN" /\ UNCHANGED <<runVars, irVars>>
  BY DEF BeginAssignment
<1> HIDE DEF f
<1> QED
  BY <1>1, BeginStatementLive

LEMMA FinishAssignmentLive ==
  ASSUME TypeOK, TypeOK', FlowInv, LiveInv, FinishAssignment
  PROVE  LiveInv'
<1> DEFINE o == Top.args[1]
<1>1. /\ Top.kind = "ASSIGN" /\ status = "lowering"
      /\ \/ Fail(AssignmentTypes)
         \/ /\ blocks' = Store(Top.dest, o) /\ Pop
            /\ UNCHANGED <<cur, dropped>>
  BY DEF FinishAssignment, Active, runVars
<1>2. CASE Fail(AssignmentTypes)
  BY <1>2, FailLive DEF Error
<1>3. CASE blocks' = Store(Top.dest, o) /\ Pop /\ UNCHANGED <<cur, dropped>>
  <2>1. CASE blocks' = blocks
    BY <1>1, <1>3, <2>1, EdgesKept, PopLive
  <2>2. CASE blocks' = Emit(blocks, cur, Instruction("COPY", Top.dest, <<o>>))
    <3>1. SameSucc
      BY <2>2, EmitSucc, StackFrames
    <3> QED
      BY <1>1, <1>3, <3>1, PopLive
  <2> QED
    BY <1>3, <2>1, <2>2 DEF Store
<1> QED
  BY <1>1, <1>2, <1>3

\* The block ends and its edges are the same.
LEMMA EmitReturnSucc ==
  ASSUME TypeOK, NEW args \in Seq(Operand(Len(values))), EmitReturn(args)
  PROVE  SameSucc /\ blocks'[cur].terminated
<1> DEFINE n == Len(values)
           m == Len(blocks)
           i == Instruction("RET", NoOperand, args)
           bs == Emit(blocks, cur, i)
<1>1. /\ cur \in 1 .. m /\ m \in Nat /\ n \in Nat
      /\ blocks \in Seq(Block(n, m)) /\ DOMAIN blocks = 1 .. m
  BY StackFrames
<1>2. i \in Instr(n, m)
  BY <1>1, NoOperandType, InstructionType DEF Opcode
<1>3. blocks' = Terminate(bs, cur)
  BY DEF EmitReturn
<1> HIDE DEF i, bs
<1>4. /\ bs \in Seq(Block(n, m)) /\ Emitted(blocks, bs, cur, i)
  BY <1>1, <1>2, EmitEffect DEF bs
<1>5. Len(bs) = m /\ \A x \in 1 .. m : bs[x].succ = blocks[x].succ
  BY <1>1, <1>4 DEF Emitted
<1>6. Marks(bs, blocks', cur)
  BY <1>1, <1>3, <1>4, <1>5, TerminateEffect
<1> QED
  BY <1>1, <1>5, <1>6 DEF Marks, SameSucc

LEMMA FinishReturnLive ==
  ASSUME TypeOK, TypeOK', FlowInv, LiveInv, FinishReturn
  PROVE  LiveInv'
<1>1. Top.kind = "RETURN" /\ status = "lowering" /\ Complete
  BY DEF FinishReturn, Active
<1>2. \/ Fail(ReturnType)
      \/ /\ EmitReturn(Top.args) /\ EndStatement(TRUE)
         /\ UNCHANGED <<cur, dropped>>
  BY DEF FinishReturn, runVars
<1>3. CASE Fail(ReturnType)
  BY <1>3, FailLive DEF Error
<1>4. CASE EmitReturn(Top.args) /\ EndStatement(TRUE)
           /\ UNCHANGED <<cur, dropped>>
  <2>1. Top.args \in Seq(Operand(Len(values)))
    BY <1>1, OperandsType DEF ExprKind
  <2>2. SameSucc /\ blocks'[cur].terminated
    BY <1>4, <2>1, EmitReturnSucc
  <2> QED
    BY <1>1, <1>4, <2>2, EndLive DEF StatementKind
<1> QED
  BY <1>2, <1>3, <1>4

LEMMA ReturnNothingLive ==
  ASSUME TypeOK, TypeOK', FlowInv, LiveInv, ReturnNothing
  PROVE  LiveInv'
<1> PICK k : k = Len(ctrl)
  OBVIOUS
<1>1. status = "lowering" /\ Top.kind \in ListKind
  BY DEF ReturnNothing, NextStatement, InList
<1>2. \/ Fail(ReturnType)
      \/ /\ EmitReturn(<< >>) /\ UNCHANGED <<cur, dropped>>
         /\ ctrl' = [ctrl EXCEPT ![Len(ctrl)].rets = TRUE]
  BY DEF ReturnNothing, runVars
<1>3. CASE Fail(ReturnType)
  BY <1>3, FailLive DEF Error
<1>4. CASE /\ EmitReturn(<< >>) /\ UNCHANGED <<cur, dropped>>
           /\ ctrl' = [ctrl EXCEPT ![Len(ctrl)].rets = TRUE]
  <2>0. << >> \in Seq(Operand(Len(values)))
    OBVIOUS
  <2>1. SameSucc /\ blocks'[cur].terminated
    BY <1>4, <2>0, EmitReturnSucc
  <2> DEFINE g == [ctrl[k] EXCEPT !.rets = TRUE]
  <2>2. /\ ctrl \in Seq(StackFrame) /\ k \in Nat /\ k >= 1 /\ k = Len(ctrl)
        /\ ctrl[k] \in Frame(Len(values), Len(blocks), Len(names))
        /\ ctrl[k].kind \in ListKind
        /\ Len(values) \in Nat /\ Len(blocks) \in Nat /\ Len(names) \in Nat
    BY <1>1, StackFrames DEF StackFrame
  <2>3. ctrl' = [ctrl EXCEPT ![k] = g]
    BY <1>4, Zenon
  <2>4. Alike(ctrl[k], g)
    BY <2>2, AlikeRets
  <2> HIDE DEF g
  <2>5. /\ Keeps(k) /\ Len(ctrl') = k
        /\ \A i \in 1 .. k - 1 : ctrl'[i] = ctrl[i]
    <3>1. k <= Len(ctrl) /\ \A i \in 1 .. k : ctrl[i] = ctrl[i]
      BY <2>2
    <3> QED
      BY <2>2, <2>3, <2>4, <3>1, UpdateShape
  <2>6. Shape(k) /\ Len(ctrl') # k + 1
    BY <1>1, <2>2, <2>5 DEF Shape, ListKind
  <2>7. ASSUME NEW L PROVE Returning(k, L)
    <3>1. ASSUME NEW i \in 1 .. k, ctrl'[i].rets, ~dropped'
          PROVE  \/ ctrl[i].rets /\ ~dropped /\ i # Len(ctrl)
                 \/ i = Len(ctrl') /\ blocks'[cur'].terminated
      <4>1. CASE i = k
        BY <1>4, <2>1, <2>5, <4>1
      <4>2. CASE i # k
        <5>1. i \in 1 .. k - 1 /\ i # Len(ctrl)
          BY <2>2, <4>2
        <5> QED
          BY <1>4, <2>5, <3>1, <5>1
      <4> QED
        BY <4>1, <4>2
    <3> QED
      BY <3>1 DEF Returning
  <2> QED
    BY <1>1, <1>4, <2>1, <2>6, <2>7, QuietLive
<1> QED
  BY <1>2, <1>3, <1>4

LEMMA EndBlockLive ==
  ASSUME TypeOK, TypeOK', FlowInv, LiveInv, EndBlock
  PROVE  LiveInv'
<1>1. /\ Top.kind = "BLOCK" /\ status = "lowering" /\ EndStatement(Top.rets)
      /\ UNCHANGED <<blocks, cur, dropped>>
  BY DEF EndBlock, Active, runVars, irVars
<1>2. ASSUME NEW L, Live(L), Top.rets, ~dropped'
      PROVE  blocks'[cur].terminated \/ cur \notin L
  <2>1. Len(ctrl) \in DOMAIN ctrl /\ Top = ctrl[Len(ctrl)]
    BY StackFrames
  <2>2. FrameLive(L, Len(ctrl))
    BY <1>2, <2>1 DEF Live
  <2> QED
    BY <1>1, <1>2, <2>1, <2>2 DEF FrameLive, RetsKind, ListKind, Shut
<1> QED
  BY <1>1, <1>2, EdgesKept, EndLive DEF StatementKind

LEMMA SimpleStatementLive ==
  ASSUME TypeOK, TypeOK', FlowInv, LiveInv, SimpleStatement
  PROVE  LiveInv'
<1>1. CASE StatementAfterReturn
  BY <1>1, FailLive DEF StatementAfterReturn, Error
<1>2. CASE \E n \in Name : \E t \in DeclTypes[n] : DeclareOnly(n, t)
  BY <1>2, DeclareOnlyLive
<1>3. CASE \E n \in Name : \E t \in DeclTypes[n] : DeclareAndAssign(n, t)
  BY <1>3, BeginAssignmentLive
  DEF DeclareAndAssign, StartStatement, NextStatement
<1>4. CASE \E n \in Name : Assign(n)
  BY <1>4, BeginAssignmentLive DEF Assign, StartStatement, NextStatement
<1>5. CASE \E n \in Name : AssignUnbound(n)
  BY <1>5, FailLive DEF AssignUnbound, Error
<1>6. CASE FinishAssignment
  BY <1>6, FinishAssignmentLive
<1>7. CASE BeginReturn
  <2> DEFINE f == [kind |-> "RETURN", wants |-> <<fn.ret>>, args |-> << >>]
  <2>1. /\ InList /\ ~blocks[cur].terminated /\ Push(f) /\ f.kind = "RETURN"
        /\ UNCHANGED <<runVars, irVars>>
    BY <1>7 DEF BeginReturn, StartStatement, NextStatement
  <2> HIDE DEF f
  <2> QED
    BY <2>1, BeginStatementLive
<1>8. CASE FinishReturn
  BY <1>8, FinishReturnLive
<1>9. CASE ReturnNothing
  BY <1>9, ReturnNothingLive
<1>10. CASE \E c \in Callees : CallStatement(c)
  <2>1. PICK c \in Callees : CallStatement(c)
    BY <1>10
  <2> DEFINE f == [kind |-> "CALL", ret |-> c.ret, wants |-> c.params,
                   args |-> << >>, target |-> NoOperand]
  <2>2. /\ InList /\ ~blocks[cur].terminated /\ Push(f) /\ f.kind = "CALL"
        /\ UNCHANGED <<runVars, irVars>>
    BY <2>1 DEF CallStatement, StartStatement, NextStatement
  <2> HIDE DEF f
  <2> QED
    BY <2>2, BeginStatementLive
<1>11. CASE BeginBlock
  <2> DEFINE f == [kind |-> "BLOCK", rets |-> FALSE]
  <2>1. /\ InList /\ ~blocks[cur].terminated /\ Push(f) /\ f.kind = "BLOCK"
        /\ ~f.rets /\ UNCHANGED <<runVars, irVars>>
    BY <1>11 DEF BeginBlock, StartStatement, NextStatement
  <2> HIDE DEF f
  <2> QED
    BY <2>1, BeginStatementLive
<1>12. CASE EndBlock
  BY <1>12, EndBlockLive
<1> QED
  BY <1>1, <1>2, <1>3, <1>4, <1>5, <1>6, <1>7, <1>8, <1>9, <1>10, <1>11,
     <1>12 DEF SimpleStatement

-----------------------------------------------------------------------------
(***************************************************************************)
(* Steps that end the current block.                                       *)
(***************************************************************************)

LEMMA OpenSucc ==
  ASSUME TypeOK, FlowInv, status = "lowering", ~blocks[cur].terminated
  PROVE  blocks[cur].succ = << >>
<1>1. Flow /\ Lowering
  BY InLowering
<1>2. ~Ends(blocks[cur]) /\ BlockFlow(blocks[cur])
  BY <1>1, OpenCur
<1>3. /\ Len(values) \in Nat /\ Len(blocks) \in Nat
      /\ blocks[cur] \in Block(Len(values), Len(blocks))
  BY StackFrames, BlockFields
<1> QED
  BY <1>2, <1>3, OpenBlock

\* The current block branches to s[1], s[2], ...; nothing else changes.
LEMMA BranchEdges ==
  ASSUME TypeOK, FlowInv, status = "lowering", ~blocks[cur].terminated,
         NEW wide, NEW q, Opened(wide, q), Len(blocks') = q, NEW s, NEW T,
         T \subseteq 1 .. q, \A i \in DOMAIN s : s[i] \in T,
         blocks'[cur].succ = s,
         \A x \in 1 .. q : x # cur => blocks'[x].succ = wide[x].succ
  PROVE  NewEdges(T)
<1>1. /\ Len(blocks) <= q /\ Len(blocks) \in Nat /\ q \in Nat
      /\ \A x \in 1 .. Len(blocks) : wide[x] = blocks[x]
      /\ \A x \in Len(blocks) + 1 .. q : wide[x] = NewBlock
  <2>1. Len(blocks) \in Nat
    BY StackFrames
  <2> QED
    BY <2>1 DEF Opened, Extends
<1>2. ASSUME NEW x \in 1 .. q, NEW i \in DOMAIN blocks'[x].succ
      PROVE  \/ /\ x \in 1 .. Len(blocks) /\ i \in DOMAIN blocks[x].succ
                /\ blocks'[x].succ[i] = blocks[x].succ[i]
             \/ x = cur /\ blocks'[x].succ[i] \in T
  <2>1. CASE x = cur
    BY <1>2, <2>1
  <2>2. CASE x # cur /\ x \in 1 .. Len(blocks)
    BY <1>1, <1>2, <2>2
  <2>3. CASE x # cur /\ x \in Len(blocks) + 1 .. q
    <3>1. blocks'[x].succ = << >>
      BY <1>1, <2>3 DEF NewBlock
    <3> QED
      BY <1>2, <3>1
  <2>4. x \in 1 .. Len(blocks) \/ x \in Len(blocks) + 1 .. q
    BY <1>1
  <2> QED
    BY <2>1, <2>2, <2>3, <2>4
<1> QED
  BY <1>1, <1>2 DEF NewEdges

LEMMA SplitEdges ==
  ASSUME TypeOK, FlowInv, status = "lowering", ~blocks[cur].terminated,
         NEW wide, NEW q, Opened(wide, q),
         NEW t \in 1 .. q, NEW e \in 1 .. q, t # e,
         NEW o \in Operand(Len(values)),
         blocks' = CondBranch(wide, cur, o, t, e)
  PROVE  NewEdges({t, e}) /\ Len(blocks') = q
<1>1. /\ cur \in 1 .. Len(blocks) /\ Len(blocks) \in Nat /\ Len(values) \in Nat
  BY StackFrames
<1>2. /\ wide \in Seq(Block(Len(values), q)) /\ Len(wide) = q /\ q \in Nat
      /\ Extends(blocks, wide) /\ Len(blocks) <= q /\ cur \in 1 .. q
      /\ wide[cur] = blocks[cur]
  BY <1>1 DEF Opened, Extends
<1>3. /\ cur \in 1 .. Len(wide) /\ t \in 1 .. Len(wide)
      /\ e \in 1 .. Len(wide) /\ Len(wide) <= q
  BY <1>2
<1>4. Split(wide, blocks', cur, o, t, e)
  BY <1>1, <1>2, <1>3, CondBranchEffect
<1>5. /\ Len(blocks') = q
      /\ blocks'[cur].succ = Append(Append(blocks[cur].succ, t), e)
      /\ \A x \in 1 .. q : x # cur => blocks'[x].succ = wide[x].succ
  BY <1>2, <1>4 DEF Split
<1>6. blocks'[cur].succ = <<t, e>>
  BY <1>5, OpenSucc, TwoAppends
<1>7. \A i \in DOMAIN <<t, e>> : <<t, e>>[i] \in {t, e}
  OBVIOUS
<1> QED
  BY <1>5, <1>6, <1>7, BranchEdges

LEMMA JumpEdges ==
  ASSUME TypeOK, FlowInv, status = "lowering", ~blocks[cur].terminated,
         NEW wide, NEW q, Opened(wide, q), NEW t \in 1 .. q,
         blocks' = Branch(wide, cur, t)
  PROVE  NewEdges({t}) /\ Len(blocks') = q
<1>1. /\ cur \in 1 .. Len(blocks) /\ Len(blocks) \in Nat /\ Len(values) \in Nat
  BY StackFrames
<1>2. /\ wide \in Seq(Block(Len(values), q)) /\ Len(wide) = q /\ q \in Nat
      /\ Extends(blocks, wide) /\ Len(blocks) <= q /\ cur \in 1 .. q
      /\ wide[cur] = blocks[cur]
  BY <1>1 DEF Opened, Extends
<1>3. /\ cur \in 1 .. Len(wide) /\ t \in 1 .. Len(wide) /\ Len(wide) <= q
  BY <1>2
<1>4. Branched(wide, blocks', cur, t)
  BY <1>1, <1>2, <1>3, BranchEffect
<1>5. /\ Len(blocks') = q
      /\ blocks'[cur].succ = Append(blocks[cur].succ, t)
      /\ \A x \in 1 .. q : x # cur => blocks'[x].succ = wide[x].succ
  BY <1>2, <1>4 DEF Branched
<1>6. blocks'[cur].succ = <<t>>
  <2>1. Append(<< >>, t) = <<t>>
    OBVIOUS
  <2> QED
    BY <1>5, <2>1, OpenSucc
<1>7. \A i \in DOMAIN <<t>> : <<t>>[i] \in {t}
  OBVIOUS
<1> QED
  BY <1>5, <1>6, <1>7, BranchEdges

LEMMA OpenedSame ==
  ASSUME TypeOK
  PROVE  Opened(blocks, Len(blocks))
<1>1. /\ blocks \in Seq(Block(Len(values), Len(blocks)))
      /\ Len(blocks) \in Nat
  BY StackFrames
<1> QED
  BY <1>1 DEF Opened, Extends

LEMMA OpenedWide ==
  ASSUME TypeOK
  PROVE  /\ Opened(blocks \o <<NewBlock, NewBlock>>, Len(blocks) + 2)
         /\ Opened(blocks \o <<NewBlock, NewBlock, NewBlock>>, Len(blocks) + 3)
<1>1. /\ blocks \in Seq(Block(Len(values), Len(blocks)))
      /\ Len(blocks) \in Nat /\ Len(values) \in Nat
  BY StackFrames
<1>2. /\ blocks \o <<NewBlock, NewBlock>>
           \in Seq(Block(Len(values), Len(blocks) + 2))
      /\ Len(blocks \o <<NewBlock, NewBlock>>) = Len(blocks) + 2
      /\ blocks \o <<NewBlock, NewBlock, NewBlock>>
           \in Seq(Block(Len(values), Len(blocks) + 3))
      /\ Len(blocks \o <<NewBlock, NewBlock, NewBlock>>) = Len(blocks) + 3
  BY <1>1, NewBlocksType
<1>3. /\ Extends(blocks, blocks \o <<NewBlock, NewBlock>>)
      /\ Extends(blocks, blocks \o <<NewBlock, NewBlock, NewBlock>>)
  BY <1>1, ExtendsNew
<1> QED
  BY <1>1, <1>2, <1>3 DEF Opened

\* emit_branch unless the block has ended.
JoinTargets(t) == IF blocks[cur].terminated THEN {} ELSE {t}

LEMMA JoinEdges ==
  ASSUME TypeOK, FlowInv, status = "lowering", NEW t \in 1 .. Len(blocks),
         blocks' = Join(t)
  PROVE  NewEdges(JoinTargets(t)) /\ Len(blocks') = Len(blocks)
<1>1. CASE blocks[cur].terminated
  <2>1. blocks' = blocks /\ JoinTargets(t) = {}
    BY <1>1 DEF Join, JoinTargets
  <2>2. Len(blocks) \in Nat
    BY StackFrames
  <2> QED
    BY <2>1, <2>2 DEF NewEdges
<1>2. CASE ~blocks[cur].terminated
  <2>1. blocks' = Branch(blocks, cur, t) /\ JoinTargets(t) = {t}
    BY <1>2 DEF Join, JoinTargets
  <2> QED
    BY <1>2, <2>1, OpenedSame, JumpEdges
<1> QED
  BY <1>1, <1>2

\* New blocks become live with the current block; the step is that of a
\* frame f that takes the place of the innermost one.
LEMMA SplitLogicLive ==
  ASSUME TypeOK, TypeOK', FlowInv, LiveInv, SplitLogic
  PROVE  LiveInv'
<1> PICK k : k = Len(ctrl) - 1
  OBVIOUS
<1> PICK m : m = Len(blocks)
  OBVIOUS
<1> DEFINE right == m + 1
           merge == m + 2
           wide  == blocks \o <<NewBlock, NewBlock>>
           t     == IF Top.isOr THEN merge ELSE right
           e     == IF Top.isOr THEN right ELSE merge
           f     == [kind |-> "RIGHT", wants |-> <<"BOOL">>, args |-> << >>,
                     target |-> Top.target, isOr |-> Top.isOr,
                     decision |-> cur, merge |-> merge]
<1>1. /\ blocks' = CondBranch(wide, cur, Top.args[1], t, e) /\ cur' = right
      /\ Replace(f) /\ UNCHANGED <<runVars, nameVars>>
      /\ Top.kind = "LEFT" /\ Complete /\ status = "lowering"
  BY DEF SplitLogic, Active
<1>2. /\ Lowering /\ ~blocks[cur].terminated /\ dropped' = dropped
      /\ m \in Nat /\ Len(ctrl) \in Nat
  BY <1>1, InLowering, StackFrames DEF ListKind, runVars
<1>3. /\ t \in 1 .. m + 2 /\ e \in 1 .. m + 2 /\ t # e
      /\ t > m /\ e > m /\ right > m /\ merge > m
  BY <1>2
<1>4. Top.args[1] \in Operand(Len(values))
  BY <1>1, OperandsType DEF ExprKind
<1>5. f.kind = "RIGHT" /\ f.merge = merge
  OBVIOUS
<1> HIDE DEF f, t, e
<1>6. NewEdges({t, e})
  BY <1>1, <1>2, <1>3, <1>4, OpenedWide, SplitEdges
<1> HIDE DEF wide
<1>7. PICK L : Live(L)
  BY <1>1 DEF LiveInv
<1>8. PICK M : M = Spread(L, {t, e})
  OBVIOUS
<1>9. /\ Shape(k) /\ Returning(k, M)
      /\ Len(ctrl') = k + 1 /\ ctrl'[k + 1] = f
  BY <1>1, <1>2, ReplaceReturning
<1>10. Allowed(k, L, {t, e}) /\ Fresh(k, right) /\ Fresh(k, merge)
  BY <1>3 DEF Allowed, Fresh
<1>11. Turn(k)
  <2>1. \A b : Awaits(f, b) => b = merge
    BY <1>5 DEF Awaits
  <2> QED
    BY <1>1, <1>9, <1>10, <2>1 DEF Turn, Shape
<1>12. FrameLive(M, k + 1)'
  BY <1>5, <1>9 DEF FrameLive, RetsKind, ListKind, LoopKind
<1> QED
  BY <1>2, <1>6, <1>7, <1>8, <1>9, <1>10, <1>11, <1>12, LiveStep

LEMMA BranchIfLive ==
  ASSUME TypeOK, TypeOK', FlowInv, LiveInv, BranchIf
  PROVE  LiveInv'
<1> PICK k : k = Len(ctrl) - 1
  OBVIOUS
<1> PICK m : m = Len(blocks)
  OBVIOUS
<1> DEFINE then  == m + 1
           else  == m + 2
           merge == m + 3
           wide  == blocks \o <<NewBlock, NewBlock, NewBlock>>
           f     == [kind |-> "THEN", rets |-> FALSE, incoming |-> bindings,
                     count |-> Len(names), else |-> else, merge |-> merge]
<1>1. /\ blocks' = CondBranch(wide, cur, Top.args[1], then, else)
      /\ cur' = then
      /\ Replace(f) /\ UNCHANGED <<runVars, nameVars>>
      /\ Top.kind = "IFCOND" /\ Complete /\ status = "lowering"
  BY DEF BranchIf, Active
<1>2. /\ Lowering /\ ~blocks[cur].terminated /\ dropped' = dropped
      /\ m \in Nat /\ Len(ctrl) \in Nat
  BY <1>1, InLowering, StackFrames DEF ListKind, runVars
<1>3. /\ then \in 1 .. m + 3 /\ else \in 1 .. m + 3 /\ then # else
      /\ then > m /\ else > m /\ merge > m /\ merge \notin {then, else}
      /\ merge \notin 1 .. m
  BY <1>2
<1>4. Top.args[1] \in Operand(Len(values))
  BY <1>1, OperandsType DEF ExprKind
<1>5. /\ f.kind = "THEN" /\ f.merge = merge /\ f.else = else
      /\ f.rets = FALSE
  OBVIOUS
<1> HIDE DEF f
<1>6. NewEdges({then, else})
  BY <1>1, <1>2, <1>3, <1>4, OpenedWide, SplitEdges
<1> HIDE DEF wide
<1>7. PICK L : Live(L)
  BY <1>1 DEF LiveInv
<1>8. PICK M : M = Spread(L, {then, else})
  OBVIOUS
<1>9. /\ Shape(k) /\ Returning(k, M)
      /\ Len(ctrl') = k + 1 /\ ctrl'[k + 1] = f
  BY <1>1, <1>2, ReplaceReturning
<1>10. /\ Allowed(k, L, {then, else})
       /\ Fresh(k, then) /\ Fresh(k, else) /\ Fresh(k, merge)
  BY <1>3 DEF Allowed, Fresh
<1> HIDE DEF then, else, merge
<1>11. Turn(k)
  <2>1. \A b : Awaits(f, b) => b \in {else, merge}
    BY <1>5 DEF Awaits
  <2> QED
    BY <1>1, <1>9, <1>10, <2>1 DEF Turn, Shape
<1>12. merge \notin M
  <2>1. L \subseteq 1 .. m
    BY <1>7 DEF Live, Closed
  <2> QED
    BY <1>3, <1>8, <2>1 DEF Spread
<1>13. FrameLive(M, k + 1)'
  BY <1>5, <1>9, <1>12 DEF FrameLive, LoopKind
<1> QED
  BY <1>2, <1>6, <1>7, <1>8, <1>9, <1>10, <1>11, <1>13, LiveStep

\* The end of a branch: what the innermost activation says of the live
\* blocks, once it joined block t.
LEMMA JoinLive ==
  ASSUME TypeOK, NEW L, Live(L), NEW t, NEW M, M = Spread(L, JoinTargets(t)),
         Top.kind \in RetsKind, Top.rets, ~dropped
  PROVE  M = L
<1>1. Len(ctrl) \in DOMAIN ctrl /\ Top = ctrl[Len(ctrl)]
  BY StackFrames
<1>2. FrameLive(L, Len(ctrl))
  BY <1>1 DEF Live
<1>3. blocks[cur].terminated \/ cur \notin L
  BY <1>1, <1>2 DEF FrameLive, Shut
<1> QED
  BY <1>3 DEF Spread, JoinTargets

LEMMA EndThenLive ==
  ASSUME TypeOK, TypeOK', FlowInv, LiveInv, NEW hasElse \in BOOLEAN,
         EndThen(hasElse)
  PROVE  LiveInv'
<1> PICK k : k = Len(ctrl) - 1
  OBVIOUS
<1> PICK t : t = Top.merge
  OBVIOUS
<1> DEFINE g == [bound |-> bindings, end |-> cur,
                 reaches |-> ~blocks[cur].terminated, rets |-> Top.rets]
           f == [kind |-> IF hasElse THEN "ELSE" ELSE "NOELSE",
                 rets |-> FALSE, incoming |-> Top.incoming,
                 count |-> Top.count, merge |-> t, then |-> g]
           T == JoinTargets(t)
<1>1. /\ blocks' = Join(t) /\ cur' = Top.else /\ Replace(f)
      /\ dropped' = dropped /\ Top.kind = "THEN" /\ status = "lowering"
  BY DEF EndThen, Active, runVars
<1>2. /\ Lowering /\ Len(ctrl) \in Nat /\ Len(ctrl) = k + 1
      /\ Len(ctrl) \in 1 .. Len(ctrl) /\ Len(ctrl) \in DOMAIN ctrl
      /\ Top = ctrl[Len(ctrl)]
  BY <1>1, InLowering, StackFrames
<1>3. /\ f.kind \in {"ELSE", "NOELSE"} /\ f.merge = t /\ f.then = g
      /\ g.rets = Top.rets /\ f.rets = FALSE
  OBVIOUS
<1> HIDE DEF f, g
<1>4. t \in 1 .. Len(blocks)
  BY <1>1, <1>2, FrameBlocks
<1>5. NewEdges(T)
  BY <1>1, <1>4, JoinEdges
<1>6. PICK L : Live(L)
  BY <1>1 DEF LiveInv
<1>7. PICK M : M = Spread(L, T)
  OBVIOUS
<1>8. /\ Shape(k) /\ Returning(k, M)
      /\ Len(ctrl') = k + 1 /\ ctrl'[k + 1] = f
  BY <1>1, <1>2, ReplaceReturning
<1>9. Fresh(k, t) /\ Fresh(k, cur')
  BY <1>1, <1>2 DEF Fresh, Handed, Awaits
<1>10. Allowed(k, L, T)
  BY <1>9 DEF Allowed, JoinTargets
<1>11. Turn(k)
  <2>1. \A b : Awaits(f, b) => b = t
    BY <1>3 DEF Awaits
  <2> QED
    BY <1>8, <1>9, <2>1 DEF Turn, Shape
<1>12. g.rets /\ ~dropped' => t \notin M
  <2>1. t \notin L
    BY <1>1, <1>2, <1>6 DEF Live, FrameLive
  <2>2. Top.rets /\ ~dropped => M = L
    BY <1>1, <1>6, <1>7, JoinLive DEF RetsKind, ListKind
  <2> QED
    BY <1>1, <1>3, <2>1, <2>2
<1>13. FrameLive(M, k + 1)'
  BY <1>3, <1>8, <1>12 DEF FrameLive, LoopKind
<1> HIDE DEF T
<1> QED
  BY <1>1, <1>2, <1>5, <1>6, <1>7, <1>8, <1>10, <1>11, <1>13, LiveStep

LEMMA EndElseLive ==
  ASSUME TypeOK, TypeOK', FlowInv, LiveInv, EndElse
  PROVE  LiveInv'
<1> PICK k : k = Len(ctrl) - 1
  OBVIOUS
<1> PICK t : t = Top.merge
  OBVIOUS
<1> DEFINE g == [bound |-> bindings, end |-> cur,
                 reaches |-> ~blocks[cur].terminated, rets |-> Top.rets]
           f == [kind |-> "MERGE", k |-> 1, count |-> Top.count,
                 incoming |-> Top.incoming, then |-> Top.then, else |-> g]
           T == JoinTargets(t)
<1>1. /\ blocks' = Join(t) /\ cur' = t /\ Replace(f) /\ dropped' = dropped
      /\ Top.kind \in {"ELSE", "NOELSE"} /\ status = "lowering"
  BY DEF EndElse, Active, runVars
<1>2. /\ Lowering /\ Len(ctrl) \in Nat /\ Len(ctrl) = k + 1
      /\ Len(ctrl) \in 1 .. Len(ctrl) /\ Len(ctrl) \in DOMAIN ctrl
      /\ Top = ctrl[Len(ctrl)]
  BY <1>1, InLowering, StackFrames
<1>3. /\ f.kind = "MERGE" /\ f.then = Top.then /\ f.else = g
      /\ g.rets = Top.rets
  OBVIOUS
<1> HIDE DEF f, g
<1>4. t \in 1 .. Len(blocks)
  BY <1>1, <1>2, FrameBlocks
<1>5. NewEdges(T)
  BY <1>1, <1>4, JoinEdges
<1>6. PICK L : Live(L)
  BY <1>1 DEF LiveInv
<1>7. PICK M : M = Spread(L, T)
  OBVIOUS
<1>8. /\ Shape(k) /\ Returning(k, M)
      /\ Len(ctrl') = k + 1 /\ ctrl'[k + 1] = f
  BY <1>1, <1>2, ReplaceReturning
<1>9. Fresh(k, t)
  BY <1>1, <1>2 DEF Fresh, Handed, Awaits
<1>10. Allowed(k, L, T)
  BY <1>9 DEF Allowed, JoinTargets
<1>11. Turn(k)
  <2>1. \A b : ~Awaits(f, b)
    BY <1>3 DEF Awaits
  <2> QED
    BY <1>1, <1>8, <1>9, <2>1 DEF Turn, Shape
<1>12. Top.then.rets /\ g.rets /\ ~dropped' => t \notin M
  <2>1. Top.then.rets /\ ~dropped => t \notin L
    BY <1>1, <1>2, <1>6 DEF Live, FrameLive
  <2>2. Top.rets /\ ~dropped => M = L
    BY <1>1, <1>6, <1>7, JoinLive DEF RetsKind, ListKind
  <2> QED
    BY <1>1, <1>3, <2>1, <2>2
<1>13. FrameLive(M, k + 1)'
  BY <1>1, <1>3, <1>8, <1>12 DEF FrameLive, LoopKind, RetsKind, ListKind
<1> HIDE DEF T
<1> QED
  BY <1>1, <1>2, <1>5, <1>6, <1>7, <1>8, <1>10, <1>11, <1>13, LiveStep

\* Names are merged in the block that follows the if.
LEMMA MergeNameLive ==
  ASSUME TypeOK, TypeOK', FlowInv, LiveInv, MergeName
  PROVE  LiveInv'
<1> PICK k : k = Len(ctrl) - 1
  OBVIOUS
<1> DEFINE g == [Top EXCEPT !.k = @ + 1]
<1>1. /\ Top.kind = "MERGE" /\ status = "lowering" /\ NextName /\ Replace(g)
      /\ cur' = cur /\ dropped' = dropped
  BY DEF MergeName, Active, NextName, runVars
<1>2. blocks' = blocks \/ \E instr : blocks' = Emit(blocks, cur, instr)
  BY DEF MergeName
<1>3. SameSucc
  <2>1. cur \in 1 .. Len(blocks)
    BY StackFrames
  <2> QED
    BY <1>2, <2>1, EdgesKept, EmitSucc
<1>4. /\ Len(ctrl) = k + 1 /\ Len(ctrl) \in DOMAIN ctrl
      /\ Top = ctrl[Len(ctrl)]
  BY StackFrames
<1>5. /\ ctrl'[k + 1].kind = "MERGE"
      /\ ctrl'[k + 1].then = Top.then /\ ctrl'[k + 1].else = Top.else
  BY <1>1, <1>4, NextNameTop
<1> HIDE DEF g
<1>6. Shape(k) /\ \A L : Returning(k, L)
  BY <1>1, ReplaceReturning
<1>7. \A b : ~Awaits(ctrl'[k + 1], b)
  BY <1>5 DEF Awaits
<1>8. ASSUME NEW L, Live(L)
      PROVE  FrameLive(L, k + 1)'
  <2>1. FrameLive(L, Len(ctrl))
    BY <1>4, <1>8 DEF Live
  <2>2. Top.then.rets /\ Top.else.rets /\ ~dropped => cur \notin L
    BY <1>1, <1>4, <2>1 DEF FrameLive
  <2> QED
    BY <1>1, <1>5, <2>2 DEF FrameLive, RetsKind, ListKind, LoopKind
<1> QED
  BY <1>1, <1>3, <1>6, <1>7, <1>8, QuietLive

LEMMA EndMergeLive ==
  ASSUME TypeOK, TypeOK', FlowInv, LiveInv, EndMerge
  PROVE  LiveInv'
<1> DEFINE r == BothReturn(Top.then, Top.else)
<1>1. /\ Top.kind = "MERGE" /\ status = "lowering" /\ EndStatement(r)
      /\ UNCHANGED <<blocks, cur, dropped>>
      /\ r = (Top.then.rets /\ Top.else.rets)
  BY DEF EndMerge, Active, runVars, irVars, BothReturn
<1> HIDE DEF r
<1>2. ASSUME NEW L, Live(L), r, ~dropped'
      PROVE  cur \notin L
  <2>1. Len(ctrl) \in DOMAIN ctrl /\ Top = ctrl[Len(ctrl)]
    BY StackFrames
  <2>2. FrameLive(L, Len(ctrl))
    BY <1>2, <2>1 DEF Live
  <2> QED
    BY <1>1, <1>2, <2>1, <2>2 DEF FrameLive
<1> QED
  BY <1>1, <1>2, EdgesKept, EndLive DEF StatementKind

LEMMA IfStatementLive ==
  ASSUME TypeOK, TypeOK', FlowInv, LiveInv, IfStatement
  PROVE  LiveInv'
<1>1. CASE BeginIf
  <2> DEFINE f == [kind |-> "IFCOND", wants |-> <<"BOOL">>, args |-> << >>]
  <2>1. /\ InList /\ ~blocks[cur].terminated /\ Push(f) /\ f.kind = "IFCOND"
        /\ UNCHANGED <<runVars, irVars>>
    BY <1>1 DEF BeginIf, StartStatement, NextStatement
  <2> HIDE DEF f
  <2> QED
    BY <2>1, BeginStatementLive
<1>2. CASE DropIf
  <2>1. PICK r \in BOOLEAN : EndStatement(r)
    BY <1>2 DEF DropIf
  <2>2. /\ status = "lowering" /\ Top.kind = "IFCOND" /\ dropped'
        /\ UNCHANGED <<blocks, cur>>
    BY <1>2 DEF DropIf, Active, irVars
  <2> QED
    BY <2>1, <2>2, EdgesKept, EndLive DEF StatementKind
<1> QED
  BY <1>1, <1>2, BranchIfLive, EndThenLive, EndElseLive, MergeNameLive,
     EndMergeLive
  DEF IfStatement

-----------------------------------------------------------------------------
(***************************************************************************)
(* emit_while                                                              *)
(***************************************************************************)

\* The header becomes live with the block before it.
LEMMA BeginWhileLive ==
  ASSUME TypeOK, TypeOK', FlowInv, LiveInv, BeginWhile
  PROVE  LiveInv'
<1> PICK k : k = Len(ctrl)
  OBVIOUS
<1> PICK m : m = Len(blocks)
  OBVIOUS
<1> PICK h : h = m + 1
  OBVIOUS
<1> DEFINE wide == blocks \o <<NewBlock, NewBlock, NewBlock>>
           f    == [kind |-> "HEADER", k |-> 1, count |-> Len(names),
                    incoming |-> bindings, pre |-> cur, header |-> h]
<1>1. /\ blocks' = Branch(wide, cur, h) /\ cur' = h /\ Push(f)
      /\ dropped' = dropped
      /\ Top.kind \in ListKind /\ ~blocks[cur].terminated
      /\ status = "lowering"
  BY DEF BeginWhile, StartStatement, NextStatement, InList, runVars
<1>2. /\ Lowering /\ m \in Nat /\ Len(ctrl) \in Nat
  BY <1>1, InLowering, StackFrames
<1>3. /\ h \in 1 .. m + 3 /\ h > m /\ h + 1 > m /\ h + 2 > m
      /\ Len(blocks) <= m + 3
  BY <1>2
<1>4. f.kind = "HEADER" /\ f.header = h
  OBVIOUS
<1> HIDE DEF f
<1>5. NewEdges({h}) /\ Len(blocks') = m + 3
  <2>1. Opened(wide, m + 3)
    BY OpenedWide
  <2> HIDE DEF wide
  <2> QED
    BY <1>1, <1>3, <2>1, JumpEdges
<1> HIDE DEF wide
<1>6. PICK L : Live(L)
  BY <1>1 DEF LiveInv
<1>7. PICK M : M = Spread(L, {h})
  OBVIOUS
<1>8. /\ Shape(k) /\ Returning(k, M)
      /\ Len(ctrl') = k + 1 /\ ctrl'[k + 1] = f
  BY <1>1, PushReturning
<1>9. Allowed(k, L, {h}) /\ Fresh(k, h)
  BY <1>3 DEF Allowed, Fresh
<1>10. Turn(k)
  <2>1. \A b : Awaits(f, b) => b \in {h + 1, h + 2}
    BY <1>4 DEF Awaits
  <2>2. Fresh(k, h + 1) /\ Fresh(k, h + 2)
    BY <1>3 DEF Fresh
  <2> QED
    BY <1>1, <1>8, <1>9, <2>1, <2>2 DEF Turn, Shape
<1>11. h \in M \/ Shut(M, k + 1)'
  <2>1. CASE cur \in L
    BY <1>7, <2>1 DEF Spread
  <2>2. CASE cur \notin L
    <3>1. M = L
      BY <1>7, <2>2 DEF Spread
    <3>2. \A j \in DOMAIN ctrl : ~(j >= k + 1)
      BY StackFrames
    <3>3. Shut(L, k + 1)
      BY <2>2, <3>2 DEF Shut
    <3>4. Closed(L) /\ Len(blocks) <= Len(blocks') /\ k + 1 \in 1 .. k + 1
      BY <1>2, <1>3, <1>5, <1>6 DEF Live
    <3> PICK i : i = k + 1
      OBVIOUS
    <3>5. Shut(L, i)'
      BY <1>10, <3>3, <3>4, ShutKept
    <3> QED
      BY <3>1, <3>5
  <2> QED
    BY <2>1, <2>2
<1>12. FrameLive(M, k + 1)'
  BY <1>4, <1>8, <1>11 DEF FrameLive, RetsKind, ListKind
<1> QED
  BY <1>1, <1>2, <1>5, <1>6, <1>7, <1>8, <1>9, <1>10, <1>12, LiveStep

\* What the frame of a loop says of its header stays true of the frame that
\* takes its place.
LEMMA HeaderKept ==
  ASSUME TypeOK, TypeOK', NEW k, Turn(k), Len(ctrl) = k + 1,
         NEW L, Live(L), Len(blocks) <= Len(blocks'),
         Top.kind \in LoopKind
  PROVE  Top.header \in L \/ Shut(L, k + 1)'
<1> PICK i : i = k + 1
  OBVIOUS
<1>1. /\ Len(ctrl) \in DOMAIN ctrl /\ Top = ctrl[Len(ctrl)]
  BY StackFrames
<1>2. FrameLive(L, i)
  BY <1>1 DEF Live
<1>3. Top.header \in L \/ Shut(L, i)
  BY <1>1, <1>2 DEF FrameLive
<1>4. i \in 1 .. k + 1 /\ Closed(L)
  <2>1. Len(ctrl) \in 1 .. Len(ctrl)
    BY StackFrames
  <2> QED
    BY <2>1 DEF Live
<1>5. CASE Shut(L, i)
  <2>1. Shut(L, i)'
    BY <1>4, <1>5, ShutKept
  <2> QED
    BY <2>1
<1> QED
  BY <1>3, <1>5

LEMMA LoopStaysLive ==
  ASSUME TypeOK, TypeOK', FlowInv, LiveInv, status = "lowering",
         Top.kind \in {"HEADER", "WHILECOND"}, NEW f, Replace(f),
         f.kind \in {"HEADER", "WHILECOND"}, f.header = Top.header,
         SameSucc, cur' = cur, dropped' = dropped
  PROVE  LiveInv'
<1> PICK k : k = Len(ctrl) - 1
  OBVIOUS
<1>1. Len(ctrl) = k + 1 /\ Len(blocks) <= Len(blocks')
  <2>1. Len(ctrl) \in Nat /\ Len(blocks) \in Nat
    BY StackFrames
  <2> QED
    BY <2>1 DEF SameSucc
<1>2. /\ Shape(k) /\ \A L : Returning(k, L)
  BY ReplaceReturning
<1>3. Len(ctrl') = k + 1 /\ ctrl'[k + 1] = f
  BY <1>1, ReplaceReturning
<1>4. \A b : Awaits(f, b) => Fresh(k, b)
  BY <1>1 DEF Awaits, Fresh, Handed
<1>5. Turn(k)
  BY <1>2, <1>3, <1>4 DEF Turn, Shape
<1>6. ASSUME NEW L, Live(L)
      PROVE  FrameLive(L, k + 1)'
  <2>1. Top.header \in L \/ Shut(L, k + 1)'
    BY <1>1, <1>5, <1>6, HeaderKept DEF LoopKind
  <2> QED
    BY <1>3, <2>1 DEF FrameLive, RetsKind, ListKind
<1> QED
  BY <1>2, <1>3, <1>4, <1>6, QuietLive

LEMMA HeaderNameLive ==
  ASSUME TypeOK, TypeOK', FlowInv, LiveInv, HeaderName
  PROVE  LiveInv'
<1> DEFINE f == [Top EXCEPT !.k = @ + 1]
<1>1. /\ Top.kind = "HEADER" /\ status = "lowering" /\ NextName /\ Replace(f)
      /\ cur' = cur /\ dropped' = dropped
  BY DEF HeaderName, Active, NextName, runVars
<1>2. blocks' = blocks \/ \E instr : blocks' = Emit(blocks, cur, instr)
  BY DEF HeaderName
<1>3. SameSucc
  <2>1. cur \in 1 .. Len(blocks)
    BY StackFrames
  <2> QED
    BY <1>2, <2>1, EdgesKept, EmitSucc
<1>4. f.kind = "HEADER" /\ f.header = Top.header
  <2>1. /\ Top \in Frame(Len(values), Len(blocks), Len(names))
        /\ Len(names) \in Nat /\ Len(values) \in Nat /\ Len(blocks) \in Nat
    BY StackFrames DEF StackFrame
  <2>2. Top \in HeaderFrame(Len(values), Len(blocks), Len(names))
    BY <1>1, <2>1, FrameByKind
  <2> QED
    BY <2>2 DEF HeaderFrame
<1> HIDE DEF f
<1> QED
  BY <1>1, <1>3, <1>4, LoopStaysLive

LEMMA EndHeaderLive ==
  ASSUME TypeOK, TypeOK', FlowInv, LiveInv, EndHeader
  PROVE  LiveInv'
<1> DEFINE f == [kind |-> "WHILECOND", wants |-> <<"BOOL">>, args |-> << >>,
                 incoming |-> Top.incoming, header |-> Top.header]
<1>1. /\ Top.kind = "HEADER" /\ status = "lowering" /\ Replace(f)
      /\ UNCHANGED <<blocks, cur, dropped>>
  BY DEF EndHeader, Active, runVars, irVars
<1>2. f.kind = "WHILECOND" /\ f.header = Top.header
  OBVIOUS
<1> HIDE DEF f
<1> QED
  BY <1>1, <1>2, EdgesKept, LoopStaysLive

LEMMA BranchWhileLive ==
  ASSUME TypeOK, TypeOK', FlowInv, LiveInv, BranchWhile
  PROVE  LiveInv'
<1> PICK k : k = Len(ctrl) - 1
  OBVIOUS
<1> PICK h : h = Top.header
  OBVIOUS
<1> PICK T : T = {h + 1, h + 2}
  OBVIOUS
<1> DEFINE f == [kind |-> "LOOP", rets |-> FALSE, incoming |-> Top.incoming,
                 bound |-> bindings, header |-> h]
<1>1. /\ Top.kind = "WHILECOND" /\ Complete /\ status = "lowering"
      /\ \/ Fail(WhileType)
         \/ /\ blocks' = CondBranch(blocks, cur, Top.args[1], h + 1, h + 2)
            /\ cur' = h + 1 /\ Replace(f) /\ dropped' = dropped
  BY DEF BranchWhile, Active, runVars
<1>2. CASE Fail(WhileType)
  BY <1>2, FailLive DEF Error
<1>3. CASE /\ blocks' = CondBranch(blocks, cur, Top.args[1], h + 1, h + 2)
           /\ cur' = h + 1 /\ Replace(f) /\ dropped' = dropped
  <2>1. /\ Lowering /\ ~blocks[cur].terminated
        /\ Len(ctrl) \in Nat /\ Len(ctrl) = k + 1
        /\ Len(ctrl) \in 1 .. Len(ctrl) /\ Top = ctrl[Len(ctrl)]
    BY <1>1, InLowering, StackFrames DEF ListKind
  <2>2. /\ h + 1 \in 1 .. Len(blocks) /\ h + 2 \in 1 .. Len(blocks)
        /\ h \in 1 .. Len(blocks)
    BY <1>1, <2>1, FrameBlocks
  <2>3. h + 1 # h + 2
    BY <2>2
  <2>4. Top.args[1] \in Operand(Len(values))
    BY <1>1, OperandsType DEF ExprKind
  <2>5. f.kind = "LOOP" /\ f.header = h /\ f.rets = FALSE
    OBVIOUS
  <2> HIDE DEF f
  <2>6. NewEdges(T) /\ Len(blocks') = Len(blocks)
    BY <1>1, <1>3, <2>1, <2>2, <2>3, <2>4, OpenedSame, SplitEdges
  <2>7. PICK L : Live(L)
    BY <1>1 DEF LiveInv
  <2>8. PICK M : M = Spread(L, T)
    OBVIOUS
  <2>9. /\ Shape(k) /\ Returning(k, M)
        /\ Len(ctrl') = k + 1 /\ ctrl'[k + 1] = f
    BY <1>3, <2>1, ReplaceReturning
  <2>10. Fresh(k, h + 1) /\ Fresh(k, h + 2)
    BY <1>1, <2>1 DEF Fresh, Handed, Awaits
  <2>11. Allowed(k, L, T)
    BY <2>10 DEF Allowed
  <2>12. Turn(k)
    <3>1. \A b : Awaits(f, b) => b = h + 2
      BY <2>5 DEF Awaits
    <3> QED
      BY <1>3, <2>9, <2>10, <3>1 DEF Turn, Shape
  <2>13. Len(blocks) <= Len(blocks')
    BY <2>2, <2>6
  <2>14. h \in M \/ Shut(M, k + 1)'
    <3>1. h \in L \/ Shut(L, k + 1)'
      BY <1>1, <2>1, <2>7, <2>12, <2>13, HeaderKept DEF LoopKind
    <3>2. CASE cur \in L
      <4>1. h + 1 \in M /\ L \subseteq M
        BY <2>8, <3>2 DEF Spread
      <4>2. Shut(L, k + 1)' => cur' \notin L
        BY DEF Shut
      <4>3. h \in L
        <5>1. FrameLive(L, Len(ctrl))
          BY <2>1, <2>7, StackFrames DEF Live
        <5> QED
          BY <1>1, <2>1, <3>2, <5>1 DEF FrameLive, LoopKind, Shut
      <4> QED
        BY <4>1, <4>3
    <3>3. CASE cur \notin L
      <4>1. M = L
        BY <2>8, <3>3 DEF Spread
      <4> QED
        BY <3>1, <4>1
    <3> QED
      BY <3>2, <3>3
  <2>15. FrameLive(M, k + 1)'
    BY <2>5, <2>9, <2>14 DEF FrameLive, RetsKind, ListKind, LoopKind
  <2> QED
    BY <1>3, <2>1, <2>6, <2>7, <2>8, <2>9, <2>11, <2>12, <2>15, LiveStep
<1> QED
  BY <1>1, <1>2, <1>3

\* The back edge is the only new edge; the header phis receive a value.
LEMMA LoopEdges ==
  ASSUME TypeOK, FlowInv, status = "lowering", Top.kind = "LOOP",
         NEW h, h = Top.header,
         blocks' = IF blocks[cur].terminated THEN blocks
                   ELSE CloseLoop(Branch(blocks, cur, h), h)
  PROVE  NewEdges(JoinTargets(h))
<1> PICK br : br = Branch(blocks, cur, h)
  OBVIOUS
<1> PICK new : new = blocks'
  OBVIOUS
<1>1. /\ cur \in 1 .. Len(blocks) /\ Len(blocks) \in Nat /\ Len(values) \in Nat
      /\ blocks \in Seq(Block(Len(values), Len(blocks)))
      /\ Len(blocks) <= Len(blocks)
  BY StackFrames
<1>2. /\ Len(ctrl) \in 1 .. Len(ctrl) /\ Len(ctrl) \in DOMAIN ctrl
      /\ Top = ctrl[Len(ctrl)] /\ Lowering
  BY StackFrames, InLowering
<1>3. h \in 1 .. Len(blocks)
  BY <1>2, FrameBlocks
<1>4. blocks[h].terminated /\ CarriedIn(blocks, values, Top)
  BY <1>2 DEF Lowering, FrameFlow, FlowIn
<1>5. CASE blocks[cur].terminated
  <2>1. blocks' = blocks /\ JoinTargets(h) = {}
    BY <1>5 DEF JoinTargets
  <2> QED
    BY <1>1, <2>1 DEF NewEdges
<1>6. CASE ~blocks[cur].terminated
  <2>1. h # cur /\ new = CloseLoop(br, h)
    BY <1>4, <1>6
  <2>2. /\ br \in Seq(Block(Len(values), Len(blocks)))
        /\ Branched(blocks, br, cur, h)
    BY <1>1, <1>3, BranchEffect
  <2>3. /\ Len(br) = Len(blocks) /\ br[h].code = blocks[h].code
        /\ br[cur].succ = Append(blocks[cur].succ, h)
        /\ \A x \in 1 .. Len(blocks) : x # cur => br[x].succ = blocks[x].succ
    BY <1>3, <2>1, <2>2 DEF Branched
  <2>4. /\ Len(new) = Len(br)
        /\ \A x \in 1 .. Len(br) : x # h => new[x] = br[x]
        /\ Received(br[h], new[h], cur)
    BY <1>4, <2>1, <2>2, <2>3, CloseLoopEffect
  <2>5. \A x \in 1 .. Len(blocks) : new[x].succ = br[x].succ
    BY <2>3, <2>4 DEF Received
  <2>6. new[cur].succ = <<h>>
    <3>1. Append(<< >>, h) = <<h>>
      OBVIOUS
    <3> QED
      BY <1>1, <1>6, <2>3, <2>5, <3>1, OpenSucc
  <2>7. \A i \in DOMAIN <<h>> : <<h>>[i] \in {h}
    OBVIOUS
  <2>8. NewEdges({h})
    BY <1>3, <1>6, <2>3, <2>4, <2>5, <2>6, <2>7, OpenedSame, BranchEdges
  <2> QED
    BY <1>6, <2>8 DEF JoinTargets
<1> QED
  BY <1>5, <1>6

\* The header is live when the end of the body is.
LEMMA EndLoopLive ==
  ASSUME TypeOK, TypeOK', FlowInv, LiveInv, EndLoop
  PROVE  LiveInv'
<1> PICK k : k = Len(ctrl) - 1
  OBVIOUS
<1> PICK h : h = Top.header
  OBVIOUS
<1> PICK T : T = JoinTargets(h)
  OBVIOUS
<1>1. /\ Top.kind = "LOOP" /\ status = "lowering" /\ EndStatement(FALSE)
      /\ cur' = h + 2 /\ dropped' = dropped
      /\ blocks' = IF blocks[cur].terminated THEN blocks
                   ELSE CloseLoop(Branch(blocks, cur, h), h)
  BY DEF EndLoop, Active, runVars
<1>2. /\ Lowering /\ Len(ctrl) \in Nat /\ Len(ctrl) = k + 1
      /\ Len(ctrl) \in DOMAIN ctrl /\ Top = ctrl[Len(ctrl)]
  BY <1>1, InLowering, StackFrames
<1>3. NewEdges(T)
  BY <1>1, LoopEdges
<1>4. PICK L : Live(L)
  BY <1>1 DEF LiveInv
<1>5. PICK M : M = Spread(L, T)
  OBVIOUS
<1>6. Shape(k) /\ Returning(k, M) /\ Len(ctrl') = k
  BY <1>1, <1>2, EndReturning DEF StatementKind
<1>7. cur \in L => h \in L
  <2>1. FrameLive(L, Len(ctrl))
    BY <1>2, <1>4 DEF Live
  <2> QED
    BY <1>1, <1>2, <2>1 DEF FrameLive, LoopKind, Shut
<1>8. Allowed(k, L, T)
  BY <1>7 DEF Allowed, JoinTargets
<1>9. Fresh(k, cur')
  BY <1>1, <1>2 DEF Fresh, Handed, Awaits
<1>10. Len(ctrl') # k + 1
  BY <1>2, <1>6
<1>11. Turn(k)
  BY <1>6, <1>9, <1>10 DEF Turn, Shape
<1> QED
  BY <1>1, <1>2, <1>3, <1>4, <1>5, <1>6, <1>8, <1>10, <1>11, LiveStep

LEMMA WhileStatementLive ==
  ASSUME TypeOK, TypeOK', FlowInv, LiveInv, WhileStatement
  PROVE  LiveInv'
BY BeginWhileLive, HeaderNameLive, EndHeaderLive, BranchWhileLive, EndLoopLive
DEF WhileStatement

-----------------------------------------------------------------------------
(***************************************************************************)
(* emit_expression, every step, and the theorem.                           *)
(***************************************************************************)

\* The merge block of a connective receives its phi after the branch.
LEMMA LogicEdges ==
  ASSUME TypeOK, FlowInv, status = "lowering", ~blocks[cur].terminated,
         NEW t \in 1 .. Len(blocks), NEW phi,
         blocks' = Emit(Branch(blocks, cur, t), t, phi)
  PROVE  NewEdges({t})
<1> PICK br : br = Branch(blocks, cur, t)
  OBVIOUS
<1> PICK new : new = blocks'
  OBVIOUS
<1>1. new = Emit(br, t, phi)
  OBVIOUS
<1>2. /\ cur \in 1 .. Len(blocks) /\ Len(blocks) \in Nat /\ Len(values) \in Nat
      /\ blocks \in Seq(Block(Len(values), Len(blocks)))
      /\ Len(blocks) <= Len(blocks)
  BY StackFrames
<1>3. /\ br \in Seq(Block(Len(values), Len(blocks)))
      /\ Branched(blocks, br, cur, t)
  BY <1>2, BranchEffect
<1>4. /\ Len(br) = Len(blocks)
      /\ br[cur].succ = Append(blocks[cur].succ, t)
      /\ \A x \in 1 .. Len(blocks) : x # cur => br[x].succ = blocks[x].succ
  BY <1>3 DEF Branched
<1>5. Emitted(br, new, t, phi)
  BY <1>1, <1>3, <1>4, EmitOn
<1>6. /\ Len(new) = Len(blocks)
      /\ \A x \in 1 .. Len(blocks) : new[x].succ = br[x].succ
  BY <1>4, <1>5 DEF Emitted
<1>7. new[cur].succ = <<t>>
  <2>1. Append(<< >>, t) = <<t>>
    OBVIOUS
  <2> QED
    BY <1>2, <1>4, <1>6, <2>1, OpenSucc
<1>8. \A i \in DOMAIN <<t>> : <<t>>[i] \in {t}
  OBVIOUS
<1> QED
  BY <1>4, <1>6, <1>7, <1>8, OpenedSame, BranchEdges

LEMMA FinishLogicLive ==
  ASSUME TypeOK, TypeOK', FlowInv, LiveInv, FinishLogic
  PROVE  LiveInv'
<1> PICK k : k = Len(ctrl) - 1
  OBVIOUS
<1> PICK t : t = Top.merge
  OBVIOUS
<1> DEFINE o   == Result(Top.target, "BOOL")
           phi == Phi(o, <<LitOp("BOOL", IF Top.isOr THEN 1 ELSE 0),
                           Top.args[1]>>, <<Top.decision, cur>>)
<1>1. /\ Top.kind = "RIGHT" /\ status = "lowering"
      /\ blocks' = Emit(Branch(blocks, cur, t), t, phi)
      /\ cur' = t /\ Return(o) /\ dropped' = dropped
  BY DEF FinishLogic, Active, runVars
<1> HIDE DEF o, phi
<1>2. /\ Lowering /\ ~blocks[cur].terminated
      /\ Len(ctrl) \in Nat /\ Len(ctrl) = k + 1
      /\ Len(ctrl) \in 1 .. Len(ctrl) /\ Top = ctrl[Len(ctrl)]
  BY <1>1, InLowering, StackFrames DEF ListKind
<1>3. t \in 1 .. Len(blocks)
  BY <1>1, <1>2, FrameBlocks
<1>4. NewEdges({t})
  BY <1>1, <1>2, <1>3, LogicEdges
<1>5. PICK L : Live(L)
  BY <1>1 DEF LiveInv
<1>6. PICK M : M = Spread(L, {t})
  OBVIOUS
<1>7. Shape(k) /\ Returning(k, M) /\ Len(ctrl') = k
  BY <1>1, <1>2, ReturnReturning DEF OperandKind
<1>8. Fresh(k, t)
  BY <1>1, <1>2 DEF Fresh, Handed, Awaits
<1>9. Allowed(k, L, {t})
  BY <1>8 DEF Allowed
<1>10. Len(ctrl') # k + 1
  BY <1>2, <1>7
<1>11. Turn(k)
  BY <1>1, <1>7, <1>8, <1>10 DEF Turn, Shape
<1> QED
  BY <1>1, <1>2, <1>4, <1>5, <1>6, <1>7, <1>9, <1>10, <1>11, LiveStep

LEMMA ExpressionLive ==
  ASSUME TypeOK, TypeOK', FlowInv, LiveInv, Expression
  PROVE  LiveInv'
<1>1. ASSUME NEW t \in ValType, Literal(t)
      PROVE  LiveInv'
  <2>1. PICK v \in Literals[t] : Receive(LitOp(t, v))
    BY <1>1 DEF Literal
  <2> DEFINE o == LitOp(t, v)
  <2>2. /\ Wanting(t) /\ Receive(o)
        /\ UNCHANGED <<runVars, irVars, nameVars, semVars, fuel>>
    BY <1>1, <2>1 DEF Literal
  <2> HIDE DEF o
  <2> QED
    BY <2>2, LeafLive
<1>2. ASSUME NEW n \in Name, Identifier(n)
      PROVE  LiveInv'
  <2> DEFINE o == ValueOf(bindings[n])
             t == decl[n].type
  <2>1. /\ Wanting(t) /\ Receive(o)
        /\ UNCHANGED <<runVars, irVars, nameVars, semVars, fuel>>
    BY <1>2 DEF Identifier, Readable
  <2> HIDE DEF o, t
  <2> QED
    BY <2>1, LeafLive
<1>3. ASSUME NEW n \in Name, UnboundIdentifier(n)
      PROVE  LiveInv'
  BY <1>3, FailLive DEF UnboundIdentifier, Error
<1>4. ASSUME NEW t, NEW op, BeginBinary(op, t)
      PROVE  LiveInv'
  <2> DEFINE f == [kind |-> "BINARY", op |-> op, wants |-> <<t, t>>,
                   args |-> << >>, target |-> Target]
             u == CheckedType(op, t)
  <2>1. Wanting(u) /\ BeginExpr(f) /\ f.kind = "BINARY"
    BY <1>4 DEF BeginBinary
  <2> HIDE DEF f, u
  <2> QED
    BY <2>1, BeginExprLive
<1>5. ASSUME BeginNot
      PROVE  LiveInv'
  <2> DEFINE f == [kind |-> "NOT", wants |-> <<"BOOL">>, args |-> << >>,
                   target |-> Target]
  <2>1. Wanting("BOOL") /\ BeginExpr(f) /\ f.kind = "NOT"
    BY <1>5 DEF BeginNot
  <2> HIDE DEF f
  <2> QED
    BY <2>1, BeginExprLive
<1>6. ASSUME NEW isOr, BeginLogic(isOr)
      PROVE  LiveInv'
  <2> DEFINE f == [kind |-> "LEFT", wants |-> <<"BOOL">>, args |-> << >>,
                   target |-> Target, isOr |-> isOr]
  <2>1. Wanting("BOOL") /\ BeginExpr(f) /\ f.kind = "LEFT"
    BY <1>6 DEF BeginLogic
  <2> HIDE DEF f
  <2> QED
    BY <2>1, BeginExprLive
<1>7. ASSUME NEW g, BeginCall(g)
      PROVE  LiveInv'
  <2> DEFINE f == [kind |-> "CALL", ret |-> g.ret, wants |-> g.params,
                   args |-> << >>, target |-> Target]
             u == g.ret
  <2>1. Wanting(u) /\ BeginExpr(f) /\ f.kind = "CALL"
    BY <1>7 DEF BeginCall
  <2> HIDE DEF f, u
  <2> QED
    BY <2>1, BeginExprLive
<1>8. ASSUME ArgumentMismatch
      PROVE  LiveInv'
  BY <1>8, FailLive DEF ArgumentMismatch, Error
<1> QED
  BY <1>1, <1>2, <1>3, <1>4, <1>5, <1>6, <1>7, <1>8, FinishBinaryLive,
     FinishNotLive, DropLogicLive, SplitLogicLive, FinishLogicLive,
     FinishCallLive
  DEF Expression

\* At the beginning the entry block is alone.
LEMMA InitLive ==
  ASSUME Init
  PROVE  LiveInv
<1> DEFINE top == [kind |-> "FBODY", rets |-> FALSE]
<1>1. blocks = <<NewBlock>> /\ ctrl = <<top>>
  BY DEF Init
<1>2. /\ Len(blocks) = 1 /\ blocks[1] = NewBlock
      /\ DOMAIN ctrl = {1} /\ ctrl[1] = top
      /\ top.kind = "FBODY" /\ top.rets = FALSE
  BY <1>1
<1> HIDE DEF top
<1>3. Closed({1})
  <2>1. blocks[1].succ = << >>
    BY <1>2 DEF NewBlock
  <2> QED
    BY <1>2, <2>1 DEF Closed
<1>4. \A i \in DOMAIN ctrl : FrameLive({1}, i)
  BY <1>2 DEF FrameLive, LoopKind
<1> QED
  BY <1>3, <1>4 DEF LiveInv, Live

LEMMA NextLive ==
  ASSUME TypeOK, TypeOK', FlowInv, LiveInv, [Next]_vars
  PROVE  LiveInv'
<1>1. CASE UNCHANGED vars
  <2>1. /\ blocks' = blocks /\ cur' = cur /\ ctrl' = ctrl
        /\ status' = status /\ dropped' = dropped
    BY <1>1 DEF vars, irVars
  <2>2. ASSUME NEW L, Live(L)
        PROVE  Live(L)'
    <3>1. Closed(L)'
      BY <2>1, <2>2 DEF Live, Closed
    <3>2. \A i \in DOMAIN ctrl : FrameLive(L, i)'
      BY <2>1, <2>2 DEF Live, FrameLive, Shut
    <3> QED
      BY <2>1, <3>1, <3>2 DEF Live
  <2> QED
    BY <2>1, <2>2 DEF LiveInv
<1>2. CASE Expression \/ SimpleStatement \/ IfStatement \/ WhileStatement
  BY <1>2, ExpressionLive, SimpleStatementLive, IfStatementLive,
     WhileStatementLive
<1>3. CASE EndFunction
  <2>1. status' # "lowering"
    BY <1>3 DEF EndFunction, NoReturn
  <2> QED
    BY <2>1, StoppedLive
<1>4. CASE Collapse
  <2>1. status' # "lowering"
    BY <1>4 DEF Collapse, VisitPhi, NextBlock, EndPass
  <2> QED
    BY <2>1, StoppedLive
<1> QED
  BY <1>1, <1>2, <1>3, <1>4 DEF Next

\* For programs of any size: LiveInv holds in every reachable state.
THEOREM LiveInvariant == Spec => [](TypeOK /\ FlowInv /\ LiveInv)
<1>1. Init => LiveInv
  BY InitLive
<1>2. TypeOK /\ TypeOK' /\ FlowInv /\ LiveInv /\ [Next]_vars => LiveInv'
  BY NextLive
<1>3. Spec => [](TypeOK /\ FlowInv)
  BY FlowInvariant
<1> QED
  BY <1>1, <1>2, <1>3, PTL DEF Spec

\* What control reaches is live.
LEMMA ReachableIsLive ==
  ASSUME Len(blocks) \in Nat, NEW L, Closed(L)
  PROVE  Reachable(blocks) \subseteq L
<1>1. {1} \ {0} \subseteq L
  BY DEF Closed
<1>2. \A b \in L : ToSet(blocks[b].succ) \ {0} \subseteq L
  BY DEF Closed, ToSet
<1>3. ReachableAvoiding(blocks, 0) \subseteq L
  BY <1>1, <1>2, ReachableInside
<1> QED
  BY <1>3 DEF Reachable

\* For programs of any size: after statements that definitely return, the
\* current block has ended or no path from the entry block leads to it.
THEOREM ReturnsAreSound == Spec => []ReturnsIsSound
<1>1. TypeOK /\ LiveInv => ReturnsIsSound
  <2> SUFFICES ASSUME TypeOK, LiveInv, InList, Top.rets, ~dropped
               PROVE  blocks[cur].terminated \/ cur \notin Reachable(blocks)
    BY DEF ReturnsIsSound
  <2>1. PICK L : Live(L)
    BY DEF LiveInv, InList
  <2>2. /\ Len(ctrl) \in DOMAIN ctrl /\ Top = ctrl[Len(ctrl)]
        /\ Len(blocks) \in Nat
    BY StackFrames
  <2>3. FrameLive(L, Len(ctrl)) /\ Closed(L)
    BY <2>1, <2>2 DEF Live
  <2>4. blocks[cur].terminated \/ cur \notin L
    BY <2>2, <2>3 DEF FrameLive, RetsKind, Shut, InList
  <2> QED
    BY <2>2, <2>3, <2>4, ReachableIsLive
<1> QED
  BY <1>1, LiveInvariant, PTL

-----------------------------------------------------------------------------
(***************************************************************************)
(* Dominance.  dom is a relation from blocks to blocks: Over(dom, b) are   *)
(* the blocks whose definitions the code of b may use.  It is not computed *)
(* from the graph; a step of the lowering says what it is for the block    *)
(* that it enters.                                                         *)
(***************************************************************************)

Over(dom, b) == { d \in Nat : <<b, d>> \in dom }

Edge(bs, a, t) == a \in 1 .. Len(bs) /\ \E i \in DOMAIN bs[a].succ :
                                          bs[a].succ[i] = t

\* What is over a block is over each predecessor, but for the block itself.
Tree(bs, dom) ==
  /\ Over(dom, 1) \subseteq {1}
  /\ \A a, t : Edge(bs, a, t) =>
       /\ t # 1 /\ a \in Over(dom, a)
       /\ Over(dom, t) \subseteq Over(dom, a) \cup {t}

\* A value is available where the blocks of S are over the code.
AvailIn(P, bs, S, id) == id \in P \/ \E p \in DefSites(bs, id) : p[1] \in S

AvailOperand(P, bs, S, o) == o.kind = "VALUE" => AvailIn(P, bs, S, o.id)

AvailArgs(P, bs, S, args) ==
  \A j \in DOMAIN args : AvailOperand(P, bs, S, args[j])

AvailAll(P, bs, S, s) ==
  \A n \in AllName : s[n] # Invalid => AvailIn(P, bs, S, s[n])

\* The instruction at p comes before the one at u: earlier in its block, or
\* in a block over that of u.
Before(dom, p, u) ==
  IF p[1] = u[1] THEN p[2] < u[2] ELSE p[1] \in Over(dom, u[1])

\* An operand of a phi is available at the end of the predecessor; any other
\* operand, if the code is in R, is defined before.
UseFits(P, bs, dom, R, u, j) ==
  LET instr == At(bs, u)
      o     == instr.args[j]
  IN  IF instr.op = "PHI"
      THEN AvailOperand(P, bs, Over(dom, instr.blks[j]), o)
      ELSE o.kind = "VALUE" /\ u[1] \in R =>
             \/ o.id \in P
             \/ \E p \in DefSites(bs, o.id) : Before(dom, p, u)

Uses(P, bs, dom, R) ==
  \A u \in Positions(bs) : \A j \in DOMAIN At(bs, u).args :
    UseFits(P, bs, dom, R, u, j)

\* What is over a block dominates it: no path from the entry avoids it.
LEMMA OverBars ==
  ASSUME NEW n \in Nat, NEW bs, bs \in Seq(Block(n, Len(bs))),
         Len(bs) \in Nat, Len(bs) >= 1, NEW dom, Tree(bs, dom),
         NEW b, NEW d \in Over(dom, b)
  PROVE  b \notin ReachableAvoiding(bs, d)
<1> DEFINE L == { x \in 1 .. Len(bs) : d \notin Over(dom, x) /\ x # d }
<1>1. {1} \ {d} \subseteq L
  BY DEF Tree
<1>2. ASSUME NEW a \in L
      PROVE  ToSet(bs[a].succ) \ {d} \subseteq L
  <2> SUFFICES ASSUME NEW i \in DOMAIN bs[a].succ, bs[a].succ[i] # d
               PROVE  bs[a].succ[i] \in L
    BY DEF ToSet
  <2> DEFINE t == bs[a].succ[i]
  <2>1. t \in 1 .. Len(bs)
    <3>1. bs[a].succ \in Seq(1 .. Len(bs))
      BY BlockFields
    <3> QED
      BY <3>1
  <2>2. Edge(bs, a, t)
    BY DEF Edge
  <2>3. Over(dom, t) \subseteq Over(dom, a) \cup {t} /\ t # d
    BY <2>2 DEF Tree
  <2> QED
    BY <2>1, <2>3
<1>3. b \notin L
  OBVIOUS
<1> HIDE DEF L
<1>4. ReachableAvoiding(bs, d) \subseteq L
  BY <1>1, <1>2, ReachableInside
<1> QED
  BY <1>3, <1>4

\* The property, for uses in the blocks of R.
LEMMA OverDominates ==
  ASSUME TypeOK, FlowInv, NEW dom, NEW R, Tree(blocks, dom),
         Uses(Params, blocks, dom, R), Reachable(blocks) \subseteq R
  PROVE  DefDominatesUse
<1>1. /\ Len(values) \in Nat /\ blocks \in Seq(Block(Len(values), Len(blocks)))
      /\ Len(blocks) \in Nat /\ Len(blocks) >= 1
      /\ DOMAIN blocks = 1 .. Len(blocks)
  BY StackFrames
<1>2. \A b : \A d \in Over(dom, b) : b \notin ReachableAvoiding(blocks, d)
  BY <1>1, OverBars
<1> SUFFICES ASSUME NEW u \in Positions(blocks), u[1] \in Reachable(blocks),
                    NEW j \in UsesAt(u)
             PROVE  LET instr == At(blocks, u)
                        id    == instr.args[j].id
                        avoiding == [d \in DOMAIN blocks |->
                                       ReachableAvoiding(blocks, d)]
                    IN  \/ IsParam(id)
                        \/ \E p \in DefSites(blocks, id) :
                             IF instr.op = "PHI"
                             THEN instr.blks[j] \notin avoiding[p[1]]
                             ELSE IF p[1] = u[1] THEN p[2] < u[2]
                             ELSE u[1] \notin avoiding[p[1]]
  BY DEF DefDominatesUse
<1> DEFINE instr == At(blocks, u)
           o     == instr.args[j]
           avoiding == [d \in DOMAIN blocks |-> ReachableAvoiding(blocks, d)]
<1>3. j \in DOMAIN instr.args /\ o.kind = "VALUE"
  BY DEF UsesAt
<1>4. UseFits(Params, blocks, dom, R, u, j)
  BY <1>3 DEF Uses
<1>5. ASSUME NEW p \in DefSites(blocks, o.id)
      PROVE  avoiding[p[1]] = ReachableAvoiding(blocks, p[1])
  <2>1. p \in Positions(blocks)
    BY DEF DefSites
  <2>2. p[1] \in DOMAIN blocks
    BY <2>1 DEF Positions
  <2> QED
    BY <2>2
<1> HIDE DEF avoiding
<1>6. \/ IsParam(o.id)
      \/ \E p \in DefSites(blocks, o.id) :
           IF instr.op = "PHI"
           THEN instr.blks[j] \notin ReachableAvoiding(blocks, p[1])
           ELSE IF p[1] = u[1] THEN p[2] < u[2]
           ELSE u[1] \notin ReachableAvoiding(blocks, p[1])
  <2>1. CASE instr.op = "PHI"
    <3>1. AvailIn(Params, blocks, Over(dom, instr.blks[j]), o.id)
      BY <1>3, <1>4, <2>1 DEF UseFits, AvailOperand
    <3> QED
      BY <1>2, <2>1, <3>1 DEF AvailIn, IsParam, Params
  <2>2. CASE instr.op # "PHI"
    <3>1. \/ o.id \in Params
          \/ \E p \in DefSites(blocks, o.id) : Before(dom, p, u)
      BY <1>3, <1>4, <2>2 DEF UseFits
    <3> QED
      BY <1>2, <2>2, <3>1 DEF Before, IsParam, Params
  <2> QED
    BY <2>1, <2>2
<1>7. \/ IsParam(o.id)
      \/ \E p \in DefSites(blocks, o.id) :
           IF instr.op = "PHI"
           THEN instr.blks[j] \notin avoiding[p[1]]
           ELSE IF p[1] = u[1] THEN p[2] < u[2]
           ELSE u[1] \notin avoiding[p[1]]
  BY <1>5, <1>6
<1> QED
  BY <1>7 DEF avoiding

-----------------------------------------------------------------------------
(***************************************************************************)
(* What is available stays available when code is added.                   *)
(***************************************************************************)

DefsKept(bs, new) == \A id : DefSites(bs, id) \subseteq DefSites(new, id)

LEMMA AvailKept ==
  ASSUME NEW P, NEW bs, NEW new, DefsKept(bs, new), NEW S, NEW T, S \subseteq T
  PROVE  /\ \A id : AvailIn(P, bs, S, id) => AvailIn(P, new, T, id)
         /\ \A o : AvailOperand(P, bs, S, o) => AvailOperand(P, new, T, o)
         /\ \A a : AvailArgs(P, bs, S, a) => AvailArgs(P, new, T, a)
         /\ \A s : AvailAll(P, bs, S, s) => AvailAll(P, new, T, s)
<1>1. \A id : AvailIn(P, bs, S, id) => AvailIn(P, new, T, id)
  BY DEF AvailIn, DefsKept
<1>2. \A o : AvailOperand(P, bs, S, o) => AvailOperand(P, new, T, o)
  BY <1>1 DEF AvailOperand
<1>3. \A a : AvailArgs(P, bs, S, a) => AvailArgs(P, new, T, a)
  BY <1>2 DEF AvailArgs
<1>4. \A s : AvailAll(P, bs, S, s) => AvailAll(P, new, T, s)
  BY <1>1 DEF AvailAll
<1> QED
  BY <1>1, <1>2, <1>3, <1>4

LEMMA OverMore ==
  ASSUME NEW dom, NEW M, dom \subseteq M
  PROVE  /\ \A b : Over(dom, b) \subseteq Over(M, b)
         /\ \A p, u : Before(dom, p, u) => Before(M, p, u)
BY DEF Over, Before

LEMMA DefsSame ==
  ASSUME NEW bs
  PROVE  DefsKept(bs, bs)
BY DEF DefsKept

LEMMA DefsTwice ==
  ASSUME NEW bs, NEW mid, NEW new, DefsKept(bs, mid), DefsKept(mid, new)
  PROVE  DefsKept(bs, new)
BY DEF DefsKept

\* An instruction that stays keeps its definitions before it.
LEMMA FitsKept ==
  ASSUME NEW P, NEW bs, NEW new, DefsKept(bs, new), NEW dom, NEW M,
         dom \subseteq M, NEW R, NEW u, NEW j, At(new, u) = At(bs, u),
         UseFits(P, bs, dom, R, u, j)
  PROVE  UseFits(P, new, M, R, u, j)
<1> DEFINE instr == At(bs, u)
           o     == instr.args[j]
<1>1. CASE instr.op = "PHI"
  <2>1. AvailOperand(P, bs, Over(dom, instr.blks[j]), o)
    BY <1>1 DEF UseFits
  <2>2. Over(dom, instr.blks[j]) \subseteq Over(M, instr.blks[j])
    BY OverMore
  <2>3. AvailOperand(P, new, Over(M, instr.blks[j]), o)
    BY <2>1, <2>2, AvailKept
  <2> QED
    BY <1>1, <2>3 DEF UseFits
<1>2. CASE instr.op # "PHI"
  <2> SUFFICES ASSUME o.kind = "VALUE", u[1] \in R, o.id \notin P
               PROVE  \E p \in DefSites(new, o.id) : Before(M, p, u)
    BY <1>2 DEF UseFits
  <2>1. \E p \in DefSites(bs, o.id) : Before(dom, p, u)
    BY <1>2 DEF UseFits
  <2> QED
    BY <2>1, OverMore DEF DefsKept
<1> QED
  BY <1>1, <1>2

LEMMA UsesSame ==
  ASSUME NEW P, NEW bs, NEW new, SameSites(bs, new), NEW dom, NEW M,
         dom \subseteq M, NEW R, Uses(P, bs, dom, R)
  PROVE  Uses(P, new, M, R) /\ DefsKept(bs, new)
<1>1. DefsKept(bs, new)
  BY SameSitesOnce DEF DefsKept
<1>2. \A u \in Positions(bs) : u \in Positions(new) /\ At(new, u) = At(bs, u)
  BY DEF SameSites
<1>3. Positions(new) = Positions(bs)
  BY DEF SameSites
<1> QED
  BY <1>1, <1>2, <1>3, FitsKept DEF Uses

\* One instruction more, at the end of block b.
AddedLast(bs, new, b, instr) ==
  \E p : /\ p \notin Positions(bs)
         /\ Positions(new) = Positions(bs) \cup {p}
         /\ At(new, p) = instr
         /\ \A q \in Positions(bs) : At(new, q) = At(bs, q)
         /\ p[1] = b
         /\ \A q \in Positions(bs) : q[1] = b => q[2] < p[2]

LEMMA AddedIsLast ==
  ASSUME NEW n \in Nat, NEW m \in Nat, NEW bs \in Seq(Block(n, m)),
         NEW n2 \in Nat, NEW m2 \in Nat, NEW new \in Seq(Block(n2, m2)),
         NEW b \in 1 .. Len(bs), NEW instr, SiteAdded(bs, new, instr),
         b \in 1 .. Len(new), NEW c, new[b].code = Append(bs[b].code, c)
  PROVE  AddedLast(bs, new, b, instr)
<1> DEFINE l == Len(bs[b].code)
<1>1. PICK p : /\ p \notin Positions(bs)
               /\ Positions(new) = Positions(bs) \cup {p}
               /\ At(new, p) = instr
               /\ \A q \in Positions(bs) : At(new, q) = At(bs, q)
  BY DEF SiteAdded
<1>2. DOMAIN bs = 1 .. Len(bs) /\ DOMAIN new = 1 .. Len(new)
  OBVIOUS
<1>3. /\ l \in Nat /\ DOMAIN bs[b].code = 1 .. l
      /\ DOMAIN new[b].code = 1 .. l + 1
  <2>1. bs[b].code \in Seq(Instr(n, m))
    BY BlockFields
  <2> QED
    BY <2>1, AppendParts
<1> HIDE DEF l
<1>4. p = <<b, l + 1>>
  <2>1. <<b, l + 1>> \in Positions(new)
    <3>1. l + 1 \in DOMAIN new[b].code
      BY <1>3
    <3> QED
      BY <1>2, <3>1, PositionsOf
  <2>2. <<b, l + 1>> \notin Positions(bs)
    <3>1. l + 1 \notin 1 .. l
      BY <1>3
    <3> QED
      BY <1>2, <1>3, <3>1, PositionsOf
  <2> QED
    BY <1>1, <2>1, <2>2
<1>5. ASSUME NEW q \in Positions(bs), q[1] = b
      PROVE  q[2] < p[2]
  <2>1. PICK x, i : q = <<x, i>>
    BY PositionPairs
  <2>2. <<b, i>> \in Positions(bs) /\ q[2] = i
    BY <1>5, <2>1
  <2>3. i \in 1 .. l
    BY <1>2, <1>3, <2>2, PositionsOf
  <2>4. i < l + 1
    BY <1>3, <2>3
  <2> QED
    BY <1>4, <2>2, <2>4
<1>6. p[1] = b
  BY <1>4
<1> QED
  BY <1>1, <1>5, <1>6 DEF AddedLast

\* What the operands of a new instruction of block b must be.
Supplied(P, bs, dom, b, instr) ==
  IF instr.op = "PHI"
  THEN \A j \in DOMAIN instr.args :
         AvailOperand(P, bs, Over(dom, instr.blks[j]), instr.args[j])
  ELSE AvailArgs(P, bs, Over(dom, b), instr.args)

LEMMA UsesAdded ==
  ASSUME NEW P, NEW bs, NEW new, NEW b, NEW instr,
         AddedLast(bs, new, b, instr), NEW dom, NEW M, dom \subseteq M,
         NEW R, Uses(P, bs, dom, R), Supplied(P, bs, M, b, instr)
  PROVE  /\ Uses(P, new, M, R) /\ DefsKept(bs, new)
         /\ \A S : b \in S => AvailOperand(P, new, S, instr.dest)
<1>1. PICK p : /\ p \notin Positions(bs)
               /\ Positions(new) = Positions(bs) \cup {p}
               /\ At(new, p) = instr
               /\ \A q \in Positions(bs) : At(new, q) = At(bs, q)
               /\ p[1] = b
               /\ \A q \in Positions(bs) : q[1] = b => q[2] < p[2]
  BY DEF AddedLast
<1>2. DefsKept(bs, new)
  BY <1>1 DEF DefsKept, DefSites
<1>3. \A S : b \in S => AvailOperand(P, new, S, instr.dest)
  <2>1. instr.dest.kind = "VALUE" => p \in DefSites(new, instr.dest.id)
    BY <1>1 DEF DefSites, Defines, Refers
  <2> QED
    BY <1>1, <2>1 DEF AvailOperand, AvailIn
<1>4. ASSUME NEW u \in Positions(bs), NEW j \in DOMAIN At(new, u).args
      PROVE  UseFits(P, new, M, R, u, j)
  <2>1. At(new, u) = At(bs, u)
    BY <1>1
  <2>2. UseFits(P, bs, dom, R, u, j)
    BY <2>1 DEF Uses
  <2> QED
    BY <1>2, <2>1, <2>2, FitsKept
<1>5. ASSUME NEW j \in DOMAIN instr.args
      PROVE  UseFits(P, new, M, R, p, j)
  <2> DEFINE o == instr.args[j]
  <2>1. CASE instr.op = "PHI"
    <3>1. AvailOperand(P, bs, Over(M, instr.blks[j]), o)
      BY <2>1 DEF Supplied
    <3>2. AvailOperand(P, new, Over(M, instr.blks[j]), o)
      BY <1>2, <3>1, AvailKept
    <3> QED
      BY <1>1, <2>1, <3>2 DEF UseFits
  <2>2. CASE instr.op # "PHI"
    <3>1. AvailOperand(P, bs, Over(M, b), o)
      BY <2>2 DEF Supplied, AvailArgs
    <3> SUFFICES ASSUME o.kind = "VALUE", o.id \notin P
                 PROVE  \E q \in DefSites(new, o.id) : Before(M, q, p)
      BY <1>1, <2>2 DEF UseFits
    <3>2. PICK q \in DefSites(bs, o.id) : q[1] \in Over(M, b)
      BY <3>1 DEF AvailOperand, AvailIn
    <3>3. q \in Positions(bs) /\ q \in DefSites(new, o.id)
      BY <1>2, <3>2 DEF DefSites, DefsKept
    <3>4. Before(M, q, p)
      BY <1>1, <3>2, <3>3 DEF Before
    <3> QED
      BY <3>3, <3>4
  <2> QED
    BY <2>1, <2>2
<1>6. Uses(P, new, M, R)
  BY <1>1, <1>4, <1>5 DEF Uses
<1> QED
  BY <1>2, <1>3, <1>6

-----------------------------------------------------------------------------
(***************************************************************************)
(* Dominance while a function is lowered.                                  *)
(***************************************************************************)

\* The end of a branch of an if: the values bound there are available there.
EndPlaced(P, bs, dom, lo, e) ==
  /\ e.end \in Over(dom, e.end) /\ lo \subseteq Over(dom, e.end)
  /\ AvailAll(P, bs, Over(dom, e.end), e.bound)

\* What activation f relies on.  The blocks of lo are over whatever its
\* caller goes on with, those of hi over whatever f itself goes on with.
FramePlaced(P, bs, bound, dom, lo, hi, f) ==
  /\ f.kind \in ExprKind => AvailArgs(P, bs, hi, f.args)
  /\ f.kind \in SnapshotKind => AvailAll(P, bs, lo, f.incoming)
  /\ f.kind = "LOOP" =>
       AvailAll(P, bs, lo, f.bound) /\ Over(dom, f.header) \subseteq lo
  /\ f.kind \in {"HEADER", "WHILECOND"} => Over(dom, f.header) \subseteq hi
  /\ f.kind \in LoopKind => f.header # 1 /\ f.header \in Over(dom, f.header)
  /\ f.kind \in {"HEADER", "WHILECOND"} =>
       \A a, b : Awaits(f, b) => ~Edge(bs, a, b)
  /\ f.kind = "HEADER" => lo \subseteq Over(dom, f.pre)
  /\ f.kind \in {"ELSE", "NOELSE", "MERGE"} =>
       EndPlaced(P, bs, dom, lo, f.then)
  /\ f.kind = "MERGE" =>
       /\ EndPlaced(P, bs, dom, lo, f.else)
       /\ f.then.reaches /\ ~f.else.reaches =>
            Over(dom, f.then.end) \subseteq hi
       /\ f.else.reaches /\ ~f.then.reaches =>
            Over(dom, f.else.end) \subseteq hi
  /\ f.kind = "RIGHT" => AvailAll(P, bs, lo, bound)
  /\ \A b : Awaits(f, b) =>
       /\ b # 1 /\ Over(dom, b) = {}
       /\ \A a : Edge(bs, a, b) => lo \subseteq Over(dom, a)

\* lev[i] is what activation i may rely on when the one above it has ended.
Placed(dom, lev) ==
  /\ Tree(blocks, dom) /\ Uses(Params, blocks, dom, Nat)
  /\ cur \in Over(dom, cur) /\ lev[Len(ctrl)] = Over(dom, cur)
  /\ \A b : b \notin 1 .. Len(blocks) => Over(dom, b) = {}
  /\ AvailAll(Params, blocks, Over(dom, cur), bindings)
  /\ \A i, j \in 0 .. Len(ctrl) : i <= j => lev[i] \subseteq lev[j]
  /\ \A i \in 1 .. Len(ctrl) :
       FramePlaced(Params, blocks, bindings, dom, lev[i - 1], lev[i], ctrl[i])

\* The blocks that every set closed under successors contains.
Inner == { b \in 1 .. Len(blocks) :
             \A L \in SUBSET (1 .. Len(blocks)) : Closed(L) => b \in L }

DomInv ==
  /\ status = "lowering" => \E dom, lev : Placed(dom, lev)
  /\ status # "lowering" =>
       \E dom : Tree(blocks, dom) /\ Uses(Params, blocks, dom, Inner)

\* Block c is entered, below the blocks of S.
Entered(dom, c, S) == dom \cup { <<c, d>> : d \in S \cup {c} }

LEMMA OverEntered ==
  ASSUME NEW dom, NEW c \in Nat, NEW S \in SUBSET Nat, Over(dom, c) = {},
         NEW M, M = Entered(dom, c, S)
  PROVE  /\ dom \subseteq M /\ Over(M, c) = S \cup {c}
         /\ \A x : x # c => Over(M, x) = Over(dom, x)
<1>1. \A x, d : <<x, d>> \in M <=> <<x, d>> \in dom
                                   \/ (x = c /\ d \in S \cup {c})
  BY DEF Entered
<1>2. dom \subseteq M
  BY DEF Entered
<1> QED
  BY <1>1, <1>2 DEF Over

\* A step goes on in the current block, or enters one that nothing is over
\* yet, below blocks that are over all its predecessors.
Opens(k, dom, M) ==
  \/ cur' = cur /\ M = dom
  \/ /\ Fresh(k, cur')
     /\ \E S \in SUBSET Nat :
          /\ M = Entered(dom, cur', S)
          /\ \A a : Edge(blocks, a, cur') => S \subseteq Over(dom, a)

LEMMA FreshIsBare ==
  ASSUME TypeOK, NEW dom, NEW lev, Placed(dom, lev), NEW k, NEW b,
         Fresh(k, b), b \in Nat
  PROVE  Over(dom, b) = {} /\ b # 1
<1>1. /\ Len(ctrl) \in 1 .. Len(ctrl) /\ Top = ctrl[Len(ctrl)]
      /\ Len(blocks) \in Nat /\ Len(blocks) >= 1
  BY StackFrames
<1>2. CASE b > Len(blocks)
  BY <1>1, <1>2 DEF Placed
<1>3. CASE Handed(k, b)
  <2>1. Awaits(ctrl[Len(ctrl)], b)
    BY <1>1, <1>3 DEF Handed
  <2> QED
    BY <1>1, <2>1 DEF Placed, FramePlaced
<1> QED
  BY <1>2, <1>3 DEF Fresh

LEMMA OpensOver ==
  ASSUME TypeOK, TypeOK', NEW dom, NEW lev, Placed(dom, lev), NEW k, NEW M,
         Opens(k, dom, M)
  PROVE  /\ dom \subseteq M /\ cur' \in Over(M, cur')
         /\ \A x : x # cur' \/ Over(dom, x) # {} => Over(M, x) = Over(dom, x)
         /\ Over(dom, cur') = {} \/ (cur' = cur /\ M = dom)
         /\ \A a : Edge(blocks, a, cur') =>
              Over(M, cur') \subseteq Over(dom, a) \cup {cur'}
<1>1. CASE cur' = cur /\ M = dom
  BY <1>1 DEF Placed, Tree
<1>2. CASE ~(cur' = cur /\ M = dom)
  <2>1. PICK S \in SUBSET Nat :
          /\ M = Entered(dom, cur', S)
          /\ \A a : Edge(blocks, a, cur') => S \subseteq Over(dom, a)
    BY <1>2 DEF Opens
  <2>2. cur' \in Nat /\ Fresh(k, cur')
    BY <1>2 DEF Opens, TypeOK, IRType
  <2>3. Over(dom, cur') = {}
    BY <2>2, FreshIsBare
  <2> DEFINE c == cur'
  <2>4. c \in Nat /\ Over(dom, c) = {} /\ M = Entered(dom, c, S)
    BY <2>1, <2>2, <2>3
  <2>5. /\ dom \subseteq M /\ Over(M, c) = S \cup {c}
        /\ \A x : x # c => Over(M, x) = Over(dom, x)
    <3> HIDE DEF c
    <3> QED
      BY <2>4, OverEntered
  <2>6. c \in Over(M, c)
    BY <2>5
  <2>7. \A x : x # c \/ Over(dom, x) # {} => Over(M, x) = Over(dom, x)
    BY <2>4, <2>5
  <2>8. \A a : Edge(blocks, a, c) => Over(M, c) \subseteq Over(dom, a) \cup {c}
    BY <2>1, <2>5
  <2> QED
    BY <2>3, <2>5, <2>6, <2>7, <2>8
<1> QED
  BY <1>1, <1>2

\* The edges that a step adds lead to blocks that only what is over the
\* current block is over.
Reached(k, dom, M, T) ==
  \A t \in T : /\ t # 1 /\ (Fresh(k, t) \/ ~Awaited(t))
               /\ Over(M, t) \subseteq Over(dom, cur) \cup {t}

LEMMA EdgesAfter ==
  ASSUME TypeOK', NEW T, NewEdges(T), NEW a, NEW t, Edge(blocks', a, t)
  PROVE  Edge(blocks, a, t) \/ (a = cur /\ t \in T)
BY DEF Edge, NewEdges

LEMMA TreeStep ==
  ASSUME TypeOK, TypeOK', NEW dom, NEW lev, Placed(dom, lev), NEW k, NEW M,
         Opens(k, dom, M), NEW T, NewEdges(T), Reached(k, dom, M, T)
  PROVE  Tree(blocks', M)
<1>1. /\ dom \subseteq M /\ cur' \in Over(M, cur')
      /\ \A x : x # cur' \/ Over(dom, x) # {} => Over(M, x) = Over(dom, x)
      /\ Over(dom, cur') = {} \/ (cur' = cur /\ M = dom)
      /\ \A a : Edge(blocks, a, cur') =>
           Over(M, cur') \subseteq Over(dom, a) \cup {cur'}
  BY OpensOver
<1>2. Over(M, 1) \subseteq {1}
  <2>1. CASE cur' = cur /\ M = dom
    BY <2>1 DEF Placed, Tree
  <2>2. CASE ~(cur' = cur /\ M = dom)
    <3>1. cur' # 1
      <4>1. Fresh(k, cur') /\ cur' \in Nat
        BY <2>2 DEF Opens, TypeOK, IRType
      <4> QED
        BY <4>1, FreshIsBare
    <3> QED
      BY <1>1, <3>1 DEF Placed, Tree
  <2> QED
    BY <2>1, <2>2
<1>3. ASSUME NEW a, NEW t, Edge(blocks', a, t)
      PROVE  /\ t # 1 /\ a \in Over(M, a)
             /\ Over(M, t) \subseteq Over(M, a) \cup {t}
  <2>1. \A x : Over(dom, x) \subseteq Over(M, x)
    BY <1>1, OverMore
  <2>2. CASE Edge(blocks, a, t)
    <3>1. /\ t # 1 /\ a \in Over(dom, a)
          /\ Over(dom, t) \subseteq Over(dom, a) \cup {t}
      BY <2>2 DEF Placed, Tree
    <3>2. Over(M, t) \subseteq Over(dom, a) \cup {t}
      BY <1>1, <2>2, <3>1
    <3> QED
      BY <2>1, <3>1, <3>2
  <2>3. CASE a = cur /\ t \in T
    BY <2>1, <2>3 DEF Reached, Placed
  <2> QED
    BY <1>3, <2>2, <2>3, EdgesAfter
<1> QED
  BY <1>2, <1>3 DEF Tree

\* A block that an activation below still waits for is not entered, and the
\* code that reaches it is below what that activation relies on.
LEMMA AwaitedPlaced ==
  ASSUME TypeOK, TypeOK', Lowering, NEW dom, NEW lev, Placed(dom, lev),
         NEW k, Turn(k), NEW M, Opens(k, dom, M), NEW T, NewEdges(T),
         Reached(k, dom, M, T), NEW i \in 1 .. k, NEW b, Awaits(ctrl[i], b)
  PROVE  /\ b # 1 /\ Over(M, b) = {}
         /\ \A a : Edge(blocks', a, b) =>
              Edge(blocks, a, b) /\ lev[i - 1] \subseteq Over(M, a)
<1>1. /\ k \in Nat /\ Len(ctrl) \in {k, k + 1} /\ Len(ctrl) \in Nat
      /\ i \in 1 .. Len(ctrl)
  BY TurnKind, StackFrames DEF Turn, Keeps
<1>2. /\ b \in 1 .. Len(blocks) /\ Len(blocks) \in Nat
      /\ DOMAIN blocks = 1 .. Len(blocks) /\ DOMAIN ctrl = 1 .. Len(ctrl)
  BY <1>1, FrameBlocks, StackFrames
<1>3. /\ b # 1 /\ Over(dom, b) = {}
      /\ \A a : Edge(blocks, a, b) => lev[i - 1] \subseteq Over(dom, a)
  BY <1>1 DEF Placed, FramePlaced
<1>4. b # cur'
  <2>1. b # cur
    BY <1>1, <1>2 DEF Lowering, Unstarted, Awaited
  <2>2. CASE Handed(k, cur')
    <3>1. ASSUME cur' = b PROVE FALSE
      BY <1>1, <1>2, <2>2, <3>1, HandedApart
    <3> QED
      BY <3>1
  <2>3. CASE cur' > Len(blocks)
    <3>1. ~(b > Len(blocks))
      BY <1>2
    <3> QED
      BY <2>3, <3>1
  <2> QED
    BY <2>1, <2>2, <2>3 DEF Turn, Fresh
<1>5. dom \subseteq M /\ Over(M, b) = {}
  BY <1>3, <1>4, OpensOver
<1>6. b \notin T
  <2> SUFFICES ASSUME b \in T PROVE FALSE
    OBVIOUS
  <2>1. Awaited(b)
    BY <1>1, <1>2 DEF Awaited
  <2>2. Fresh(k, b)
    BY <2>1 DEF Reached
  <2>3. ~(b > Len(blocks))
    BY <1>2
  <2>4. ~Handed(k, b)
    BY <1>1, <1>2, HandedApart
  <2> QED
    BY <2>2, <2>3, <2>4 DEF Fresh
<1>7. ASSUME NEW a, Edge(blocks', a, b)
      PROVE  Edge(blocks, a, b) /\ lev[i - 1] \subseteq Over(M, a)
  <2>1. Over(dom, a) \subseteq Over(M, a)
    BY <1>5, OverMore
  <2>2. Edge(blocks, a, b)
    BY <1>6, <1>7, EdgesAfter
  <2> QED
    BY <1>3, <2>1, <2>2
<1> QED
  BY <1>3, <1>5, <1>7

LEMMA EndKept ==
  ASSUME NEW P, NEW bs, NEW new, DefsKept(bs, new), NEW dom, NEW M, NEW lo,
         NEW e, EndPlaced(P, bs, dom, lo, e),
         Over(M, e.end) = Over(dom, e.end)
  PROVE  EndPlaced(P, new, M, lo, e)
BY AvailKept DEF EndPlaced

\* An activation that goes on.
LEMMA FrameStep ==
  ASSUME TypeOK, TypeOK', Lowering, NEW dom, NEW lev, Placed(dom, lev),
         NEW k, Turn(k), NEW M, Opens(k, dom, M), NEW T, NewEdges(T),
         Reached(k, dom, M, T), DefsKept(blocks, blocks'), NEW i \in 1 .. k,
         NEW hi, lev[i] \subseteq hi, NEW bound,
         ctrl[i].kind = "RIGHT" => bound = bindings,
         ctrl'[i].kind \in ExprKind =>
           AvailArgs(Params, blocks', hi, ctrl'[i].args)
  PROVE  FramePlaced(Params, blocks', bound, M, lev[i - 1], hi, ctrl'[i])
<1> DEFINE f  == ctrl[i]
           g  == ctrl'[i]
           lo == lev[i - 1]
<1>1. /\ f.kind \notin {"MERGE", "HEADER", "NOELSE"}
      /\ i \in 1 .. Len(ctrl) /\ Alike(f, g)
  BY TurnKind
<1>2. FramePlaced(Params, blocks, bindings, dom, lo, lev[i], f)
  BY <1>1 DEF Placed
<1>3. g.kind = f.kind
  BY <1>1 DEF Alike
<1>4. /\ dom \subseteq M
      /\ \A x : Over(dom, x) # {} => Over(M, x) = Over(dom, x)
  BY OpensOver
<1>5. g.kind \in SnapshotKind => AvailAll(Params, blocks', lo, g.incoming)
  <2> SUFFICES ASSUME g.kind \in SnapshotKind
               PROVE  AvailAll(Params, blocks', lo, g.incoming)
    OBVIOUS
  <2>1. AvailAll(Params, blocks, lo, f.incoming)
    BY <1>2, <1>3 DEF FramePlaced
  <2>2. g.incoming = f.incoming
    BY <1>1, <1>3 DEF Alike, SnapshotKind
  <2> QED
    BY <2>1, <2>2, AvailKept
<1>6. g.kind \in LoopKind => /\ g.header = f.header /\ f.header # 1
                             /\ f.header \in Over(dom, f.header)
                             /\ Over(M, f.header) = Over(dom, f.header)
  BY <1>1, <1>2, <1>3, <1>4 DEF Alike, LoopKind, FramePlaced
<1>7. g.kind = "LOOP" =>
        /\ AvailAll(Params, blocks', lo, g.bound)
        /\ Over(M, g.header) \subseteq lo
  <2> SUFFICES ASSUME g.kind = "LOOP"
               PROVE  /\ AvailAll(Params, blocks', lo, g.bound)
                      /\ Over(M, g.header) \subseteq lo
    OBVIOUS
  <2>1. /\ AvailAll(Params, blocks, lo, f.bound)
        /\ Over(dom, f.header) \subseteq lo
    BY <1>2, <1>3 DEF FramePlaced
  <2>2. g.bound = f.bound
    BY <1>1, <1>3 DEF Alike
  <2>3. Over(M, g.header) \subseteq lo
    BY <1>6, <2>1 DEF LoopKind
  <2> QED
    BY <2>1, <2>2, <2>3, AvailKept
<1>8. g.kind \in {"HEADER", "WHILECOND"} => Over(M, g.header) \subseteq hi
  BY <1>2, <1>3, <1>6 DEF FramePlaced, LoopKind
<1>9. g.kind \in LoopKind => g.header # 1 /\ g.header \in Over(M, g.header)
  BY <1>6
<1>10. g.kind \in {"ELSE", "NOELSE", "MERGE"} =>
         EndPlaced(Params, blocks', M, lo, g.then)
  <2> SUFFICES ASSUME g.kind = "ELSE"
               PROVE  EndPlaced(Params, blocks', M, lo, g.then)
    BY <1>1, <1>3
  <2>1. EndPlaced(Params, blocks, dom, lo, f.then) /\ g.then = f.then
    BY <1>1, <1>2, <1>3 DEF FramePlaced, Alike
  <2>2. Over(M, f.then.end) = Over(dom, f.then.end)
    BY <1>4, <2>1 DEF EndPlaced
  <2> QED
    BY <2>1, <2>2, EndKept
<1>11. g.kind = "RIGHT" => AvailAll(Params, blocks', lo, bound)
  <2> SUFFICES ASSUME g.kind = "RIGHT"
               PROVE  AvailAll(Params, blocks', lo, bound)
    OBVIOUS
  <2>1. AvailAll(Params, blocks, lo, bindings)
    BY <1>2, <1>3 DEF FramePlaced
  <2>2. bound = bindings
    BY <1>3
  <2> QED
    BY <2>1, <2>2, AvailKept
<1>12. \A b : Awaits(g, b) =>
         /\ b # 1 /\ Over(M, b) = {}
         /\ \A a : Edge(blocks', a, b) => lo \subseteq Over(M, a)
  <2> SUFFICES ASSUME NEW b, Awaits(g, b)
               PROVE  /\ b # 1 /\ Over(M, b) = {}
                      /\ \A a : Edge(blocks', a, b) => lo \subseteq Over(M, a)
    OBVIOUS
  <2>1. Awaits(f, b)
    BY <1>1, AlikeAwaits
  <2> QED
    BY <2>1, AwaitedPlaced
<1>13. g.kind \notin {"MERGE", "HEADER"}
  BY <1>1, <1>3
<1>14. g.kind \in ExprKind => AvailArgs(Params, blocks', hi, g.args)
  OBVIOUS
<1>15. g.kind \in {"HEADER", "WHILECOND"} =>
         \A a, b : Awaits(g, b) => ~Edge(blocks', a, b)
  <2> SUFFICES ASSUME g.kind = "WHILECOND", NEW b, Awaits(g, b), NEW a,
                      Edge(blocks', a, b)
               PROVE  FALSE
    BY <1>13
  <2>1. Awaits(f, b)
    BY <1>1, AlikeAwaits
  <2>2. Edge(blocks, a, b)
    BY <2>1, AwaitedPlaced
  <2> QED
    BY <1>2, <1>3, <2>1, <2>2 DEF FramePlaced
<1> HIDE DEF f, g, lo
<1>16. FramePlaced(Params, blocks', bound, M, lo, hi, g)
  BY <1>5, <1>7, <1>8, <1>9, <1>10, <1>11, <1>12, <1>13, <1>14, <1>15
     DEF FramePlaced
<1> QED
  BY <1>16 DEF g, lo

\* What the activations below rely on is left alone.
Under(k) == bindings' = bindings \/ \A i \in 1 .. k : ctrl[i].kind # "RIGHT"

\* A step of the lowering: activation k goes on with what U is over, and
\* what the step starts above it, if anything, with the current block.
LEMMA PlacedStep ==
  ASSUME TypeOK, TypeOK', Lowering, NEW dom, NEW lev, Placed(dom, lev),
         NEW k, Turn(k), NEW M, Opens(k, dom, M), NEW T, NewEdges(T),
         Reached(k, dom, M, T), DefsKept(blocks, blocks'), fn' = fn,
         StackBelow,
         Uses(Params, blocks', M, Nat), Under(k),
         AvailAll(Params, blocks', Over(M, cur'), bindings'),
         NEW U, U \subseteq Over(M, cur'), lev[k] \subseteq U,
         Len(ctrl') = k =>
           /\ U = Over(M, cur')
           /\ ctrl'[k].kind \in ExprKind =>
                AvailArgs(Params, blocks', U, ctrl'[k].args),
         Len(ctrl') = k + 1 =>
           FramePlaced(Params, blocks', bindings', M, U, Over(M, cur'),
                       ctrl'[k + 1])
  PROVE  \E new : Placed(M, new)'
<1> DEFINE V   == Over(M, cur')
<1> PICK new : new = [i \in Nat |-> IF i < k THEN lev[i]
                                    ELSE IF i = k THEN U ELSE V]
  OBVIOUS
<1>1. /\ k \in Nat /\ Len(ctrl) \in {k, k + 1} /\ Len(ctrl') \in {k, k + 1}
      /\ Len(ctrl) \in Nat
  BY StackFrames DEF Turn, Keeps
<1>2. new[k] = U /\ new[k + 1] = V /\ \A i \in Nat : i < k => new[i] = lev[i]
  <2>1. k + 1 \in Nat /\ ~(k + 1 < k) /\ k + 1 # k /\ ~(k < k)
    BY <1>1
  <2> HIDE DEF V
  <2> QED
    BY <1>1, <2>1
<1>3. Params' = Params
  BY DEF Params
<1>4. Tree(blocks', M)
  BY TreeStep
<1>5. /\ dom \subseteq M /\ cur' \in V
      /\ \A x : x # cur' => Over(M, x) = Over(dom, x)
  BY OpensOver
<1>6. new[Len(ctrl')] = V
  <2>1. CASE Len(ctrl') = k
    BY <1>2, <2>1
  <2>2. CASE Len(ctrl') = k + 1
    BY <1>2, <2>2
  <2> QED
    BY <1>1, <2>1, <2>2
<1>7. \A b : b \notin 1 .. Len(blocks') => Over(M, b) = {}
  <2> SUFFICES ASSUME NEW b, b \notin 1 .. Len(blocks')
               PROVE  Over(M, b) = {}
    OBVIOUS
  <2>1. cur' \in 1 .. Len(blocks') /\ Len(blocks') \in Nat
    BY DEF TypeOK, IRType
  <2>2. Len(blocks) \in Nat /\ Len(blocks) <= Len(blocks')
    BY StackFrames DEF NewEdges
  <2>3. b \notin 1 .. Len(blocks) /\ b # cur'
    BY <2>1, <2>2
  <2> QED
    BY <1>5, <2>3 DEF Placed
<1>8. \A i, j \in 0 .. Len(ctrl') : i <= j => new[i] \subseteq new[j]
  <2> SUFFICES ASSUME NEW i \in 0 .. Len(ctrl'), NEW j \in 0 .. Len(ctrl'),
                      i <= j
               PROVE  new[i] \subseteq new[j]
    OBVIOUS
  <2>1. /\ i \in Nat /\ j \in Nat
        /\ i < k \/ i = k \/ i = k + 1
        /\ j < k \/ j = k \/ j = k + 1
    BY <1>1
  <2>2. i < k => i \in 0 .. Len(ctrl) /\ k \in 0 .. Len(ctrl) /\ i <= k
    BY <1>1, <2>1
  <2>3. i < k => lev[i] \subseteq lev[k]
    BY <2>2 DEF Placed
  <2>4. i < k /\ j < k => lev[i] \subseteq lev[j]
    <3>1. j < k => j \in 0 .. Len(ctrl)
      BY <1>1, <2>1
    <3> QED
      BY <2>2, <3>1 DEF Placed
  <2>5. CASE i < k /\ j < k
    BY <1>2, <2>1, <2>4, <2>5
  <2>6. CASE i < k /\ j \in {k, k + 1}
    <3>1. new[i] \subseteq U /\ U \subseteq V
      BY <1>2, <2>1, <2>3, <2>6
    <3> QED
      BY <1>2, <2>6, <3>1
  <2>7. CASE i \in {k, k + 1} /\ j \in {k, k + 1}
    <3>1. ~(i = k + 1 /\ j = k)
      BY <1>1
    <3> QED
      BY <1>2, <2>7, <3>1
  <2>8. ~(i \in {k, k + 1} /\ j < k)
    BY <1>1
  <2> QED
    BY <2>1, <2>5, <2>6, <2>7, <2>8
<1>9. ASSUME NEW i \in 1 .. k,
             ctrl'[i].kind \in ExprKind =>
               AvailArgs(Params, blocks', new[i], ctrl'[i].args)
      PROVE  FramePlaced(Params, blocks', bindings', M, new[i - 1], new[i],
                         ctrl'[i])
  <2>1. new[i - 1] = lev[i - 1] /\ lev[i] \subseteq new[i]
    <3>1. i - 1 \in Nat /\ i - 1 < k /\ i \in Nat /\ (i < k \/ i = k)
      BY <1>1
    <3> QED
      BY <1>2, <3>1
  <2>2. ctrl[i].kind = "RIGHT" => bindings' = bindings
    BY DEF Under
  <2>3. FramePlaced(Params, blocks', bindings', M, lev[i - 1], new[i],
                    ctrl'[i])
    BY <1>9, <2>1, <2>2, FrameStep
  <2> QED
    BY <2>1, <2>3
<1>10. ASSUME NEW i \in 1 .. k, ~(i = k /\ Len(ctrl') = k),
              ctrl'[i].kind \in ExprKind
       PROVE  AvailArgs(Params, blocks', new[i], ctrl'[i].args)
  <2>1. i \in 1 .. Len(ctrl') - 1 /\ i \in 1 .. Len(ctrl)
    <3> DEFINE l == Len(ctrl')
    <3>1. l \in {k, k + 1} /\ ~(i = k /\ l = k)
      BY <1>1, <1>10
    <3> HIDE DEF l
    <3>2. i \in 1 .. l - 1
      BY <1>1, <3>1
    <3>3. i \in 1 .. Len(ctrl)
      BY <1>1
    <3> QED
      BY <3>2, <3>3 DEF l
  <2>2. ctrl'[i] = ctrl[i]
    BY <2>1 DEF StackBelow
  <2>3. AvailArgs(Params, blocks, lev[i], ctrl[i].args)
    BY <1>10, <2>1, <2>2 DEF Placed, FramePlaced
  <2>4. lev[i] \subseteq new[i]
    <3>1. i \in Nat /\ (i < k \/ i = k)
      BY <1>1
    <3> QED
      BY <1>2, <3>1
  <2> QED
    BY <2>2, <2>3, <2>4, AvailKept
<1>11. ASSUME NEW i \in 1 .. k
       PROVE  ctrl'[i].kind \in ExprKind =>
                AvailArgs(Params, blocks', new[i], ctrl'[i].args)
  <2>1. CASE i = k /\ Len(ctrl') = k
    BY <1>2, <2>1
  <2>2. CASE ~(i = k /\ Len(ctrl') = k)
    BY <1>10, <2>2
  <2> QED
    BY <2>1, <2>2
<1>12. \A i \in 1 .. Len(ctrl') :
         FramePlaced(Params, blocks', bindings', M, new[i - 1], new[i],
                     ctrl'[i])
  <2> SUFFICES ASSUME NEW i \in 1 .. Len(ctrl')
               PROVE  FramePlaced(Params, blocks', bindings', M, new[i - 1],
                                  new[i], ctrl'[i])
    OBVIOUS
  <2>1. i \in 1 .. k \/ (i = k + 1 /\ Len(ctrl') = k + 1 /\ i - 1 = k)
    <3> DEFINE l == Len(ctrl')
    <3>1. i \in 1 .. l /\ l \in {k, k + 1}
      BY <1>1
    <3> HIDE DEF l
    <3>2. i \in 1 .. k \/ (i = k + 1 /\ l = k + 1 /\ i - 1 = k)
      BY <1>1, <3>1
    <3> QED
      BY <3>2 DEF l
  <2>2. CASE i \in 1 .. k
    BY <1>9, <1>11, <2>2
  <2>3. CASE i = k + 1 /\ Len(ctrl') = k + 1 /\ i - 1 = k
    <3>1. FramePlaced(Params, blocks', bindings', M, U, V, ctrl'[k + 1])
      BY <2>3
    <3> HIDE DEF V
    <3> QED
      BY <1>2, <2>3, <3>1
  <2> QED
    BY <2>1, <2>2, <2>3
<1>13. Placed(M, new)'
  BY <1>3, <1>4, <1>5, <1>6, <1>7, <1>8, <1>12 DEF Placed
<1> QED
  BY <1>13

-----------------------------------------------------------------------------
(***************************************************************************)
(* Steps that stay in the current block.                                   *)
(***************************************************************************)

LEMMA LevelBelow ==
  ASSUME TypeOK, NEW dom, NEW lev, Placed(dom, lev), NEW k \in Nat,
         k <= Len(ctrl)
  PROVE  lev[k] \subseteq Over(dom, cur)
<1>1. k \in 0 .. Len(ctrl) /\ Len(ctrl) \in 0 .. Len(ctrl)
  BY StackFrames
<1> QED
  BY <1>1 DEF Placed

LEMMA StillPlaced ==
  ASSUME status' = "lowering", NEW M, \E new : Placed(M, new)'
  PROVE  DomInv'
BY DEF DomInv

\* A step leaves an innermost activation with its own level, or it leaves
\* only the frames below.
LEMMA PlacedTop ==
  ASSUME TypeOK, TypeOK', Lowering, NEW dom, NEW lev, Placed(dom, lev),
         NEW k, Turn(k), Len(ctrl') = k + 1, k # k + 1,
         NEW M, Opens(k, dom, M), NEW T, NewEdges(T), Reached(k, dom, M, T),
         DefsKept(blocks, blocks'), fn' = fn, status' = "lowering",
         StackBelow, Uses(Params, blocks', M, Nat), Under(k),
         NEW V, V = Over(M, cur'), AvailAll(Params, blocks', V, bindings'),
         NEW U, U \subseteq V, lev[k] \subseteq U,
         NEW f, ctrl'[k + 1] = f,
         FramePlaced(Params, blocks', bindings', M, U, V, f)
  PROVE  DomInv'
<1>1. \E new : Placed(M, new)'
  BY PlacedStep
<1> QED
  BY <1>1, StillPlaced

LEMMA PlacedBelow ==
  ASSUME TypeOK, TypeOK', Lowering, NEW dom, NEW lev, Placed(dom, lev),
         NEW k, Turn(k), Len(ctrl') = k, k # k + 1,
         NEW M, Opens(k, dom, M), NEW T, NewEdges(T), Reached(k, dom, M, T),
         DefsKept(blocks, blocks'), fn' = fn, status' = "lowering",
         StackBelow, Uses(Params, blocks', M, Nat), Under(k),
         NEW V, V = Over(M, cur'), AvailAll(Params, blocks', V, bindings'),
         lev[k] \subseteq V,
         ctrl'[k].kind \in ExprKind =>
           AvailArgs(Params, blocks', V, ctrl'[k].args)
  PROVE  DomInv'
<1>1. V \subseteq V
  OBVIOUS
<1>2. \E new : Placed(M, new)'
  BY <1>1, PlacedStep
<1> QED
  BY <1>2, StillPlaced

\* The function is no longer lowered.
LEMMA LeftPlaced ==
  ASSUME TypeOK, NEW dom, NEW lev, Placed(dom, lev), status' # "lowering",
         fn' = fn, SameSucc, Uses(Params, blocks', dom, Nat)
  PROVE  DomInv'
<1>1. Params' = Params
  BY DEF Params
<1>2. /\ DOMAIN blocks = 1 .. Len(blocks) /\ Len(blocks) \in Nat
      /\ Len(blocks') = Len(blocks)
  BY StackFrames DEF SameSucc
<1>3. Tree(blocks', dom)
  BY <1>2 DEF Placed, Tree, Edge, SameSucc
<1>4. Uses(Params, blocks', dom, Inner')
  <2> SUFFICES ASSUME NEW u \in Positions(blocks'),
                      NEW j \in DOMAIN At(blocks', u).args
               PROVE  UseFits(Params, blocks', dom, Inner', u, j)
    BY DEF Uses
  <2>1. UseFits(Params, blocks', dom, Nat, u, j)
    BY DEF Uses
  <2>2. u[1] \in Inner' => u[1] \in Nat
    BY <1>2 DEF Inner
  <2> QED
    BY <2>1, <2>2 DEF UseFits
<1> QED
  BY <1>1, <1>3, <1>4 DEF DomInv

LEMMA FailPlaced ==
  ASSUME TypeOK, NEW dom, NEW lev, Placed(dom, lev), NEW e \in Error, Fail(e)
  PROVE  DomInv'
<1>1. status' # "lowering"
  BY DEF Fail, Error, UnboundAssignment, AssignmentTypes, NoValue,
         AfterReturn, NoReturn, ReturnType, OperandTypes, ArgumentTypes,
         WhileType
<1>2. UNCHANGED <<fn, blocks>>
  BY DEF Fail, irVars
<1> QED
  BY <1>1, <1>2, EdgesKept, LeftPlaced DEF Placed

\* A step that adds no edge.
LEMMA QuietPlaced ==
  ASSUME TypeOK, TypeOK', FlowInv, status = "lowering", status' = "lowering",
         NEW dom, NEW lev, Placed(dom, lev), NEW k, Shape(k), SameSucc,
         cur' = cur, fn' = fn, StackBelow, DefsKept(blocks, blocks'),
         Uses(Params, blocks', dom, Nat), Under(k),
         AvailAll(Params, blocks', Over(dom, cur), bindings'),
         NEW U, U \subseteq Over(dom, cur), lev[k] \subseteq U,
         Len(ctrl') = k =>
           /\ U = Over(dom, cur)
           /\ ctrl'[k].kind \in ExprKind =>
                AvailArgs(Params, blocks', U, ctrl'[k].args),
         Len(ctrl') = k + 1 =>
           /\ FramePlaced(Params, blocks', bindings', dom, U, Over(dom, cur),
                          ctrl'[k + 1])
           /\ \A b \in 1 .. Len(blocks') :
                Awaits(ctrl'[k + 1], b) => Fresh(k, b)
  PROVE  DomInv'
<1>1. Lowering
  BY InLowering
<1>2. Turn(k)
  BY DEF Turn, Shape
<1> PICK T : T = {}
  OBVIOUS
<1>3. NewEdges(T)
  <2>1. Len(blocks) \in Nat
    BY StackFrames
  <2> QED
    BY <2>1 DEF NewEdges, SameSucc
<1>4. Reached(k, dom, dom, T) /\ Opens(k, dom, dom)
  BY DEF Reached, Opens
<1>5. \E new : Placed(dom, new)'
  BY <1>1, <1>2, <1>3, <1>4, PlacedStep
<1> QED
  BY <1>5, StillPlaced

\* An instruction at the end of a block.
LEMMA EmitPlaced ==
  ASSUME TypeOK, TypeOK', NEW dom, NEW M, dom \subseteq M,
         NEW b \in 1 .. Len(blocks), NEW instr,
         blocks' = Emit(blocks, b, instr), Uses(Params, blocks, dom, Nat),
         Supplied(Params, blocks, M, b, instr)
  PROVE  /\ Uses(Params, blocks', M, Nat) /\ DefsKept(blocks, blocks')
         /\ \A S : b \in S => AvailOperand(Params, blocks', S, instr.dest)
<1>1. Emitted(blocks, blocks', b, instr)
  BY EmitShape
<1>2. SiteAdded(blocks, blocks', instr)
  BY EmitAdds
<1>3. /\ blocks \in Seq(Block(Len(values), Len(blocks)))
      /\ Len(values) \in Nat /\ Len(blocks) \in Nat
  BY StackFrames
<1>4. /\ blocks' \in Seq(Block(Len(values'), Len(blocks')))
      /\ Len(values') \in Nat /\ Len(blocks') \in Nat
  BY DEF TypeOK, IRType, NamesType, Values
<1>5. /\ b \in 1 .. Len(blocks')
      /\ blocks'[b].code = Append(blocks[b].code, instr)
  BY <1>1 DEF Emitted
<1>6. AddedLast(blocks, blocks', b, instr)
  BY <1>2, <1>3, <1>4, <1>5, AddedIsLast
<1> QED
  BY <1>6, UsesAdded

LEMMA AvailAppend ==
  ASSUME NEW P, NEW bs, NEW S, NEW V, NEW args \in Seq(V), NEW o,
         AvailArgs(P, bs, S, args), AvailOperand(P, bs, S, o)
  PROVE  AvailArgs(P, bs, S, Append(args, o))
<1> DEFINE new == Append(args, o)
<1>1. /\ DOMAIN args = 1 .. Len(args) /\ Len(args) \in Nat
      /\ DOMAIN new = 1 .. Len(args) + 1
      /\ \A j \in 1 .. Len(args) : new[j] = args[j]
      /\ new[Len(args) + 1] = o
  BY AppendParts
<1> HIDE DEF new
<1>2. ASSUME NEW j \in DOMAIN new PROVE AvailOperand(P, bs, S, new[j])
  <2>1. j \in 1 .. Len(args) \/ j = Len(args) + 1
    BY <1>1
  <2>2. j \in 1 .. Len(args) => AvailOperand(P, bs, S, args[j])
    BY <1>1 DEF AvailArgs
  <2> QED
    BY <1>1, <2>1, <2>2
<1>3. AvailArgs(P, bs, S, new)
  BY <1>2 DEF AvailArgs
<1> QED
  BY <1>3 DEF new

LEMMA NoneAvail ==
  ASSUME NEW P, NEW bs, NEW S
  PROVE  AvailArgs(P, bs, S, << >>)
BY DEF AvailArgs

\* The operands of the innermost call.
LEMMA TopArgs ==
  ASSUME TypeOK, NEW dom, NEW lev, Placed(dom, lev), Top.kind \in ExprKind
  PROVE  AvailArgs(Params, blocks, Over(dom, cur), Top.args)
<1>1. Len(ctrl) \in 1 .. Len(ctrl) /\ Top = ctrl[Len(ctrl)]
  BY StackFrames
<1> QED
  BY <1>1 DEF Placed, FramePlaced

\* An operand arrives.
LEMMA LeafPlaced ==
  ASSUME TypeOK, TypeOK', FlowInv, NEW dom, NEW lev, Placed(dom, lev),
         NEW t, Wanting(t), NEW o, Receive(o),
         AvailOperand(Params, blocks, Over(dom, cur), o),
         UNCHANGED <<runVars, irVars, nameVars, semVars, fuel>>
  PROVE  DomInv'
<1> PICK k : k = Len(ctrl)
  OBVIOUS
<1>1. /\ status = "lowering" /\ Top.kind \in ExprKind
      /\ UNCHANGED <<fn, blocks, cur, bindings, status, dropped>>
  BY DEF Wanting, runVars, irVars, nameVars
<1>2. /\ k \in Nat /\ k \in 1 .. Len(ctrl) /\ Top = ctrl[k]
      /\ k <= Len(ctrl) /\ k # k + 1
  BY StackFrames
<1>3. Shape(k) /\ Len(ctrl') = k
  BY <1>1, ReceiveReturning
<1>4. /\ \A i \in 1 .. k - 1 : ctrl'[i] = ctrl[i]
      /\ ctrl'[k].args = Append(Top.args, o)
  BY <1>1, ReceiveShape
<1>5. StackBelow
  BY <1>2, <1>3, <1>4 DEF StackBelow
<1>6. AvailArgs(Params, blocks, Over(dom, cur), ctrl'[k].args)
  <2>1. Top.args \in Seq(Operand(Len(values)))
    BY <1>1, <1>2, FrameArgs
  <2>2. AvailArgs(Params, blocks, Over(dom, cur), Append(Top.args, o))
    BY <1>1, <2>1, TopArgs, AvailAppend
  <2> QED
    BY <1>4, <2>2
<1>7. Under(k) /\ SameSucc /\ DefsKept(blocks, blocks')
  BY <1>1, EdgesKept, DefsSame DEF Under
<1>8. /\ Uses(Params, blocks', dom, Nat)
      /\ AvailAll(Params, blocks', Over(dom, cur), bindings')
  BY <1>1 DEF Placed
<1>9. lev[k] \subseteq Over(dom, cur)
  BY <1>2, LevelBelow
<1> QED
  BY <1>1, <1>2, <1>3, <1>5, <1>6, <1>7, <1>8, <1>9, QuietPlaced

\* A nested call that waits for no block.
LEMMA PushPlaced ==
  ASSUME TypeOK, TypeOK', FlowInv, status = "lowering",
         NEW dom, NEW lev, Placed(dom, lev), NEW f, Push(f),
         f.kind \in FreeKind, f.kind \in ExprKind => f.args = << >>,
         Top.kind \in ListKind \cup ExprKind, ~blocks[cur].terminated,
         UNCHANGED <<fn, status, blocks, cur, bindings, dropped>>
  PROVE  DomInv'
<1> PICK k : k = Len(ctrl)
  OBVIOUS
<1>1. k \in Nat /\ k <= Len(ctrl) /\ k # k + 1
  BY StackFrames
<1>2. Shape(k) /\ Len(ctrl') = k + 1 /\ ctrl'[k + 1] = f
  BY PushReturning
<1>3. \A i \in 1 .. k : ctrl'[i] = ctrl[i]
  BY PushShape
<1>4. StackBelow
  BY <1>1, <1>2, <1>3 DEF StackBelow
<1>5. \A b : ~Awaits(f, b)
  BY FreeFrame
<1>6. FramePlaced(Params, blocks, bindings, dom, Over(dom, cur),
                  Over(dom, cur), f)
  <2>1. f.kind \notin {"NOELSE", "HEADER", "WHILECOND", "LOOP", "THEN",
                       "ELSE", "MERGE", "RIGHT"}
    BY DEF FreeKind
  <2>2. f.kind \in ExprKind =>
          AvailArgs(Params, blocks, Over(dom, cur), f.args)
    BY NoneAvail
  <2> QED
    BY <1>5, <2>1, <2>2 DEF FramePlaced, SnapshotKind, LoopKind
<1>7. Under(k) /\ SameSucc /\ DefsKept(blocks, blocks')
  BY EdgesKept, DefsSame DEF Under
<1>8. /\ Uses(Params, blocks', dom, Nat)
      /\ AvailAll(Params, blocks', Over(dom, cur), bindings')
  BY DEF Placed
<1>9. lev[k] \subseteq Over(dom, cur)
  BY <1>1, LevelBelow
<1> QED
  BY <1>1, <1>2, <1>4, <1>5, <1>6, <1>7, <1>8, <1>9, QuietPlaced

LEMMA BeginExprPlaced ==
  ASSUME TypeOK, TypeOK', FlowInv, NEW dom, NEW lev, Placed(dom, lev),
         NEW t, Wanting(t), NEW f, BeginExpr(f),
         f.kind \in {"BINARY", "NOT", "CALL", "LEFT"}, f.args = << >>
  PROVE  DomInv'
<1>1. /\ status = "lowering" /\ Top.kind \in ExprKind /\ Push(f)
      /\ UNCHANGED <<fn, status, blocks, cur, bindings, dropped>>
  BY DEF Wanting, BeginExpr, runVars, irVars, nameVars
<1>2. ~blocks[cur].terminated
  BY <1>1, InLowering DEF ListKind, ExprKind
<1>3. f.kind \in FreeKind
  BY DEF FreeKind
<1> QED
  BY <1>1, <1>2, <1>3, PushPlaced

\* An operator, a connective or a call returns its operand.
LEMMA ReturnPlaced ==
  ASSUME TypeOK, TypeOK', FlowInv, status = "lowering", status' = "lowering",
         NEW dom, NEW lev, Placed(dom, lev), IsOperand,
         NEW o, Return(o), SameSucc, UNCHANGED <<fn, cur, bindings>>,
         dropped => dropped', DefsKept(blocks, blocks'),
         Uses(Params, blocks', dom, Nat),
         AvailOperand(Params, blocks', Over(dom, cur), o)
  PROVE  DomInv'
<1> PICK k : k = Len(ctrl) - 1
  OBVIOUS
<1>1. /\ k \in 1 .. Len(ctrl) /\ k \in Nat /\ k <= Len(ctrl) /\ k # k + 1
      /\ Len(ctrl) \in Nat /\ k - 1 = Len(ctrl) - 2
      /\ ctrl[k].kind \in ExprKind /\ Top.kind # "FBODY" /\ Caller = ctrl[k]
  BY StackFrames, OperandCaller DEF IsOperand, Caller
<1>2. Shape(k) /\ Len(ctrl') = k
  BY ReturnReturning DEF IsOperand, Caller
<1>3. /\ \A i \in 1 .. k - 1 : ctrl'[i] = ctrl[i]
      /\ ctrl'[k].args = Append(ctrl[k].args, o)
  BY <1>1, ReturnShape
<1>4. StackBelow
  BY <1>1, <1>2, <1>3 DEF StackBelow
<1>5. lev[k] \subseteq Over(dom, cur)
  BY <1>1, LevelBelow
<1>6. AvailArgs(Params, blocks', Over(dom, cur), ctrl'[k].args)
  <2>1. AvailArgs(Params, blocks, lev[k], ctrl[k].args)
    BY <1>1 DEF Placed, FramePlaced
  <2>2. AvailArgs(Params, blocks', Over(dom, cur), ctrl[k].args)
    BY <1>5, <2>1, AvailKept
  <2>3. ctrl[k].args \in Seq(Operand(Len(values)))
    BY <1>1, FrameArgs
  <2>4. AvailArgs(Params, blocks', Over(dom, cur), Append(ctrl[k].args, o))
    BY <2>2, <2>3, AvailAppend
  <2> QED
    BY <1>3, <2>4
<1>7. /\ Under(k)
      /\ AvailAll(Params, blocks', Over(dom, cur), bindings')
  BY AvailKept DEF Under, Placed
<1> QED
  BY <1>1, <1>2, <1>4, <1>5, <1>6, <1>7, QuietPlaced

\* No connective waits below a list of statements.
LEMMA NoRight ==
  ASSUME TypeOK, Lowering, NEW k \in 1 .. Len(ctrl), ctrl[k].kind \in ListKind
  PROVE  Under(k)
<1> SUFFICES ASSUME NEW i \in 1 .. k, ctrl[i].kind = "RIGHT"
             PROVE  FALSE
  BY DEF Under
<1>1. DOMAIN ctrl = 1 .. Len(ctrl) /\ Len(ctrl) \in Nat
  BY StackFrames
<1>2. i \in DOMAIN ctrl /\ k \in DOMAIN ctrl /\ (i < k \/ i = k)
  BY <1>1
<1>3. i < k => ctrl[k].kind \in OperandKind \cup {"CALL"}
  BY <1>2 DEF Lowering, ExpressionsNest, ExprKind
<1> QED
  BY <1>2, <1>3 DEF OperandKind, ListKind

\* A statement ends in the block where it is.
LEMMA ListPlaced ==
  ASSUME TypeOK, TypeOK', FlowInv, status = "lowering", status' = "lowering",
         NEW dom, NEW lev, Placed(dom, lev),
         NEW k, k = Len(ctrl) - 1, Shape(k), Len(ctrl') = k,
         ctrl[k].kind \in ListKind, Top.kind # "FBODY",
         \A i \in 1 .. k - 1 : ctrl'[i] = ctrl[i],
         SameSucc, UNCHANGED <<fn, cur>>, DefsKept(blocks, blocks'),
         Uses(Params, blocks', dom, Nat),
         AvailAll(Params, blocks', Over(dom, cur), bindings')
  PROVE  DomInv'
<1>1. /\ k \in 1 .. Len(ctrl) /\ k \in Nat /\ k <= Len(ctrl) /\ k # k + 1
      /\ Len(ctrl) \in Nat
  BY StackFrames, PoppedFrames
<1>2. StackBelow
  BY <1>1 DEF StackBelow
<1>3. lev[k] \subseteq Over(dom, cur)
  BY <1>1, LevelBelow
<1>4. ctrl'[k].kind \notin ExprKind
  <2>1. Alike(ctrl[k], ctrl'[k])
    BY <1>1 DEF Shape, Keeps
  <2> QED
    BY <2>1 DEF Alike, ListKind, ExprKind
<1>5. Under(k)
  BY <1>1, InLowering, NoRight
<1> QED
  BY <1>1, <1>2, <1>3, <1>4, <1>5, QuietPlaced

LEMMA PopPlaced ==
  ASSUME TypeOK, TypeOK', FlowInv, status = "lowering", status' = "lowering",
         NEW dom, NEW lev, Placed(dom, lev), Pop, Top.kind # "FBODY",
         Caller.kind \in ListKind, dropped => dropped',
         SameSucc, UNCHANGED <<fn, cur>>, DefsKept(blocks, blocks'),
         Uses(Params, blocks', dom, Nat),
         AvailAll(Params, blocks', Over(dom, cur), bindings')
  PROVE  DomInv'
<1> PICK k : k = Len(ctrl) - 1
  OBVIOUS
<1>1. Shape(k) /\ Len(ctrl') = k
  BY PopReturning
<1>2. \A i \in 1 .. k - 1 : ctrl'[i] = ctrl[i]
  <2>1. \A i \in 1 .. k : ctrl'[i] = ctrl[i]
    BY PopShape
  <2>2. k \in Int
    BY StackFrames
  <2> QED
    BY <2>1, <2>2
<1>3. ctrl[k].kind \in ListKind
  BY DEF Caller
<1> QED
  BY <1>1, <1>2, <1>3, ListPlaced

LEMMA EndStatementPlaced ==
  ASSUME TypeOK, TypeOK', FlowInv, status = "lowering", status' = "lowering",
         NEW dom, NEW lev, Placed(dom, lev), Top.kind \in StatementKind,
         NEW r, EndStatement(r), dropped => dropped',
         SameSucc, UNCHANGED <<fn, cur>>, DefsKept(blocks, blocks'),
         Uses(Params, blocks', dom, Nat),
         AvailAll(Params, blocks', Over(dom, cur), bindings')
  PROVE  DomInv'
<1> PICK k : k = Len(ctrl) - 1
  OBVIOUS
<1>1. ctrl[k].kind \in ListKind /\ Top.kind # "FBODY"
  BY StatementCaller
<1>2. Keeps(k) /\ Len(ctrl') = k /\ \A i \in 1 .. k - 1 : ctrl'[i] = ctrl[i]
  <2>1. /\ Keeps(k) /\ Len(ctrl') = k
        /\ \A i \in 1 .. Len(ctrl) - 2 : ctrl'[i] = ctrl[i]
    BY <1>1, EndShape
  <2>2. k - 1 = Len(ctrl) - 2
    BY StackFrames
  <2> QED
    BY <2>1, <2>2
<1>3. Shape(k)
  <2>1. Len(ctrl) = k + 1 /\ k # Len(ctrl)
    BY StackFrames
  <2> QED
    BY <1>2, <2>1 DEF Shape
<1> QED
  BY <1>1, <1>2, <1>3, ListPlaced

-----------------------------------------------------------------------------
(***************************************************************************)
(* emit_expression                                                         *)
(***************************************************************************)

LEMMA BinaryOp ==
  ASSUME TypeOK, Top.kind = "BINARY"
  PROVE  Top.op # "PHI"
<1>1. Top \in BinaryFrame(Len(values))
  BY StackFrames, FrameByKind DEF StackFrame
<1> QED
  BY <1>1 DEF BinaryFrame

LEMMA AssignDest ==
  ASSUME TypeOK, Top.kind = "ASSIGN"
  PROVE  Top.dest.kind = "VALUE" /\ bindings \in [AllName -> Nat]
<1>1. Top \in AssignFrame(Len(values))
  BY StackFrames, FrameByKind DEF StackFrame
<1>2. Len(values) \in Nat
  BY StackFrames
<1> QED
  BY <1>1, <1>2 DEF AssignFrame, ValueOperand, TypeOK, NamesType, Snapshot

LEMMA ComputePlaced ==
  ASSUME TypeOK, TypeOK', FlowInv, status = "lowering",
         NEW dom, NEW lev, Placed(dom, lev), Top.kind \in ExprKind,
         NEW op, op # "PHI", NEW o, NEW args, AvailArgs(Params, blocks,
                                                        Over(dom, cur), args),
         blocks' = Emit(blocks, cur, Instruction(op, o, args))
  PROVE  /\ SameSucc /\ DefsKept(blocks, blocks')
         /\ Uses(Params, blocks', dom, Nat)
         /\ AvailOperand(Params, blocks', Over(dom, cur), o)
         /\ AvailAll(Params, blocks', Over(dom, cur), bindings)
<1> DEFINE instr == Instruction(op, o, args)
<1>1. instr.op = op /\ instr.dest = o /\ instr.args = args
  BY DEF Instruction
<1> HIDE DEF instr
<1>2. cur \in 1 .. Len(blocks) /\ dom \subseteq dom
  BY StackFrames
<1>3. Supplied(Params, blocks, dom, cur, instr)
  BY <1>1 DEF Supplied
<1>4. Uses(Params, blocks, dom, Nat) /\ cur \in Over(dom, cur)
  BY DEF Placed
<1>5. blocks' = Emit(blocks, cur, instr)
  BY DEF instr
<1>6. /\ Uses(Params, blocks', dom, Nat) /\ DefsKept(blocks, blocks')
      /\ \A S : cur \in S => AvailOperand(Params, blocks', S, instr.dest)
  BY <1>2, <1>3, <1>4, <1>5, EmitPlaced
<1>7. SameSucc
  BY <1>2, <1>5, EmitSucc
<1>8. AvailAll(Params, blocks', Over(dom, cur), bindings)
  BY <1>6, AvailKept DEF Placed
<1> QED
  BY <1>1, <1>4, <1>6, <1>7, <1>8

LEMMA FinishBinaryPlaced ==
  ASSUME TypeOK, TypeOK', FlowInv, NEW dom, NEW lev, Placed(dom, lev),
         FinishBinary
  PROVE  DomInv'
<1> DEFINE type == ResultType(Top.op, Top.args[1].type)
           o    == Result(Top.target, type)
<1>1. Top.kind = "BINARY" /\ status = "lowering"
  BY DEF FinishBinary, Active
<1>2. \/ Fail(OperandTypes)
      \/ /\ blocks' = Emit(blocks, cur, Instruction(Top.op, o, Top.args))
         /\ Return(o) /\ UNCHANGED <<fn, status, dropped, cur, bindings>>
  BY DEF FinishBinary, runVars
<1> HIDE DEF o
<1>3. CASE Fail(OperandTypes)
  BY <1>3, FailPlaced DEF Error
<1>4. CASE /\ blocks' = Emit(blocks, cur, Instruction(Top.op, o, Top.args))
           /\ Return(o) /\ UNCHANGED <<fn, status, dropped, cur, bindings>>
  <2>1. Top.op # "PHI"
    <3>1. Top \in StackFrame
      BY StackFrames
    <3> QED
      BY <1>1, <3>1, BinaryOp
  <2>2. Top.kind \in ExprKind /\ IsOperand
    BY <1>1 DEF ExprKind, IsOperand, OperandKind
  <2>3. AvailArgs(Params, blocks, Over(dom, cur), Top.args)
    BY <2>2, TopArgs
  <2>4. /\ SameSucc /\ DefsKept(blocks, blocks')
        /\ Uses(Params, blocks', dom, Nat)
        /\ AvailOperand(Params, blocks', Over(dom, cur), o)
    BY <1>1, <1>4, <2>1, <2>2, <2>3, ComputePlaced
  <2> QED
    BY <1>1, <1>4, <2>2, <2>4, ReturnPlaced
<1> QED
  BY <1>2, <1>3, <1>4

LEMMA FinishNotPlaced ==
  ASSUME TypeOK, TypeOK', FlowInv, NEW dom, NEW lev, Placed(dom, lev),
         FinishNot
  PROVE  DomInv'
<1> DEFINE o == Result(Top.target, "BOOL")
<1>1. Top.kind = "NOT" /\ status = "lowering"
  BY DEF FinishNot, Active
<1>2. \/ Fail(OperandTypes)
      \/ /\ blocks' = Emit(blocks, cur, Instruction("NOT", o, Top.args))
         /\ Return(o) /\ UNCHANGED <<fn, status, dropped, cur, bindings>>
  BY DEF FinishNot, runVars
<1> HIDE DEF o
<1>3. CASE Fail(OperandTypes)
  BY <1>3, FailPlaced DEF Error
<1>4. CASE /\ blocks' = Emit(blocks, cur, Instruction("NOT", o, Top.args))
           /\ Return(o) /\ UNCHANGED <<fn, status, dropped, cur, bindings>>
  <2>1. Top.kind \in ExprKind /\ IsOperand
    BY <1>1 DEF ExprKind, IsOperand, OperandKind
  <2>2. AvailArgs(Params, blocks, Over(dom, cur), Top.args)
    BY <2>1, TopArgs
  <2>3. /\ SameSucc /\ DefsKept(blocks, blocks')
        /\ Uses(Params, blocks', dom, Nat)
        /\ AvailOperand(Params, blocks', Over(dom, cur), o)
    BY <1>1, <1>4, <2>1, <2>2, ComputePlaced
  <2> QED
    BY <1>1, <1>4, <2>1, <2>3, ReturnPlaced
<1> QED
  BY <1>2, <1>3, <1>4

LEMMA FinishCallPlaced ==
  ASSUME TypeOK, TypeOK', FlowInv, NEW dom, NEW lev, Placed(dom, lev),
         FinishCall
  PROVE  DomInv'
<1> DEFINE o == IF Top.ret = "VOID" THEN NoOperand
                ELSE Result(Top.target, Top.ret)
<1>1. /\ Top.kind = "CALL" /\ status = "lowering"
      /\ blocks' = Emit(blocks, cur, Instruction("CALL", o, Top.args))
      /\ UNCHANGED <<fn, status, dropped, cur, bindings>>
      /\ IF Caller.kind \in ListKind THEN Pop ELSE Return(o)
  BY DEF FinishCall, Active, runVars, Caller
<1> HIDE DEF o
<1>2. Top.kind \in ExprKind
  BY <1>1 DEF ExprKind
<1>3. AvailArgs(Params, blocks, Over(dom, cur), Top.args)
  BY <1>2, TopArgs
<1>4. /\ SameSucc /\ DefsKept(blocks, blocks')
      /\ Uses(Params, blocks', dom, Nat)
      /\ AvailOperand(Params, blocks', Over(dom, cur), o)
      /\ AvailAll(Params, blocks', Over(dom, cur), bindings)
  BY <1>1, <1>2, <1>3, ComputePlaced
<1>5. CASE Caller.kind \in ListKind
  BY <1>1, <1>4, <1>5, PopPlaced
<1>6. CASE Caller.kind \notin ListKind
  <2>1. IsOperand
    BY <1>1, <1>6 DEF IsOperand
  <2> QED
    BY <1>1, <1>4, <1>6, <2>1, ReturnPlaced
<1> QED
  BY <1>5, <1>6

LEMMA DropLogicPlaced ==
  ASSUME TypeOK, TypeOK', FlowInv, NEW dom, NEW lev, Placed(dom, lev),
         DropLogic
  PROVE  DomInv'
<1>1. /\ Top.kind \in OperandKind /\ status = "lowering"
      /\ Return(NoOperand) /\ dropped'
      /\ UNCHANGED <<fn, status, blocks, cur, bindings>>
  BY DEF DropLogic, Active, OperandKind, irVars, nameVars
<1>2. SameSucc /\ DefsKept(blocks, blocks')
  BY <1>1, EdgesKept, DefsSame
<1>3. Uses(Params, blocks', dom, Nat)
  BY <1>1 DEF Placed
<1>4. AvailOperand(Params, blocks', Over(dom, cur), NoOperand)
  BY DEF AvailOperand, NoOperand
<1> QED
  BY <1>1, <1>2, <1>3, <1>4, ReturnPlaced DEF IsOperand

LEMMA IdentifierPlaced ==
  ASSUME TypeOK, TypeOK', FlowInv, NEW dom, NEW lev, Placed(dom, lev),
         NEW n \in Name, Identifier(n)
  PROVE  DomInv'
<1>1. AvailOperand(Params, blocks, Over(dom, cur), ValueOf(bindings[n]))
  BY DEF Identifier, Placed, AvailAll, AvailOperand, ValueOf, ValueOp, AllName
<1> QED
  BY <1>1, LeafPlaced DEF Identifier, Readable

-----------------------------------------------------------------------------
(***************************************************************************)
(* emit_statement                                                          *)
(***************************************************************************)

LEMMA BeginStatementPlaced ==
  ASSUME TypeOK, TypeOK', FlowInv, NEW dom, NEW lev, Placed(dom, lev),
         InList, ~blocks[cur].terminated, NEW f, Push(f),
         f.kind \in {"ASSIGN", "RETURN", "CALL", "BLOCK", "IFCOND"},
         f.kind \in ExprKind => f.args = << >>,
         UNCHANGED <<runVars, irVars, bindings>>
  PROVE  DomInv'
<1>1. /\ status = "lowering" /\ Top.kind \in ListKind
      /\ UNCHANGED <<fn, status, blocks, cur, bindings, dropped>>
  BY DEF InList, runVars, irVars
<1>2. f.kind \in FreeKind
  BY DEF FreeKind
<1> QED
  BY <1>1, <1>2, PushPlaced

LEMMA BeginAssignmentPlaced ==
  ASSUME TypeOK, TypeOK', FlowInv, NEW dom, NEW lev, Placed(dom, lev),
         InList, ~blocks[cur].terminated,
         NEW n, NEW u, NEW t, BeginAssignment(n, u, t)
  PROVE  DomInv'
<1> DEFINE f == [kind |-> "ASSIGN", name |-> n, dest |-> ValueOp(NextId, t),
                 wants |-> <<u>>, args |-> << >>]
<1>1. /\ Push(f) /\ f.kind = "ASSIGN" /\ f.args = << >>
      /\ UNCHANGED <<runVars, irVars, bindings>>
  BY DEF BeginAssignment
<1> HIDE DEF f
<1> QED
  BY <1>1, BeginStatementPlaced

LEMMA DeclareOnlyPlaced ==
  ASSUME TypeOK, TypeOK', FlowInv, NEW dom, NEW lev, Placed(dom, lev),
         NEW n, NEW t, DeclareOnly(n, t)
  PROVE  DomInv'
<1>1. /\ status = "lowering"
      /\ UNCHANGED <<fn, status, blocks, cur, ctrl, bindings>>
  BY DEF DeclareOnly, StartStatement, NextStatement, InList, runVars, irVars,
         nameVars
<1>2. Params' = Params
  BY <1>1 DEF Params
<1>3. Placed(dom, lev)'
  BY <1>1, <1>2 DEF Placed
<1> QED
  BY <1>1, <1>3, StillPlaced

LEMMA FinishAssignmentPlaced ==
  ASSUME TypeOK, TypeOK', FlowInv, SingleInv, NEW dom, NEW lev,
         Placed(dom, lev), FinishAssignment
  PROVE  DomInv'
<1> DEFINE o == Top.args[1]
           d == Top.dest
           n == Top.name
           S == Over(dom, cur)
<1>1. /\ Top.kind = "ASSIGN" /\ status = "lowering" /\ Complete
      /\ \/ Fail(AssignmentTypes)
         \/ /\ blocks' = Store(d, o) /\ Pop
            /\ bindings' = [bindings EXCEPT ![n] = d.id]
            /\ UNCHANGED <<fn, status, cur, dropped>>
  BY DEF FinishAssignment, Active, runVars
<1>2. CASE Fail(AssignmentTypes)
  BY <1>2, FailPlaced DEF Error
<1>3. CASE /\ blocks' = Store(d, o) /\ Pop
           /\ bindings' = [bindings EXCEPT ![n] = d.id]
           /\ UNCHANGED <<fn, status, cur, dropped>>
  <2>1. AvailOperand(Params, blocks, S, o) /\ Top.kind \in ExprKind
    <3>1. Top.kind \in ExprKind
      BY <1>1 DEF ExprKind
    <3>2. 1 \in DOMAIN Top.args
      BY <1>1, FirstOperand DEF ExprKind
    <3>3. AvailArgs(Params, blocks, S, Top.args)
      BY <3>1, TopArgs
    <3> QED
      BY <3>1, <3>2, <3>3 DEF AvailArgs
  <2>2. /\ SameSucc /\ DefsKept(blocks, blocks')
        /\ Uses(Params, blocks', dom, Nat)
        /\ AvailOperand(Params, blocks', S, d)
        /\ AvailAll(Params, blocks', S, bindings)
    <3>1. CASE o = d
      <4>1. blocks' = blocks
        BY <1>3, <3>1 DEF Store
      <4> QED
        BY <2>1, <3>1, <4>1, EdgesKept, DefsSame DEF Placed
    <3>2. CASE o # d
      <4>1. blocks' = Emit(blocks, cur, Instruction("COPY", d, <<o>>))
        BY <1>3, <3>2 DEF Store
      <4> HIDE DEF o, d
      <4>2. AvailArgs(Params, blocks, S, <<o>>)
        BY <2>1 DEF AvailArgs
      <4> QED
        BY <1>1, <2>1, <4>1, <4>2, ComputePlaced
    <3> QED
      BY <3>1, <3>2
  <2>3. AvailAll(Params, blocks', S, bindings')
    <3>1. d.kind = "VALUE" /\ bindings \in [AllName -> Nat]
      BY <1>1, AssignDest
    <3>2. AvailIn(Params, blocks', S, d.id)
      BY <2>2, <3>1 DEF AvailOperand
    <3> QED
      BY <1>3, <2>2, <3>1, <3>2 DEF AvailAll
  <2>4. Caller.kind \in ListKind /\ Top.kind # "FBODY"
    BY <1>1, StatementCaller DEF StatementKind, Caller
  <2> QED
    BY <1>1, <1>3, <2>2, <2>3, <2>4, PopPlaced
<1> QED
  BY <1>1, <1>2, <1>3

-----------------------------------------------------------------------------
(***************************************************************************)
(* An instruction at the end of the current block that uses what is        *)
(* available there: the returns and the branches.                          *)
(***************************************************************************)

LEMMA CodePlaced ==
  ASSUME TypeOK, NEW n \in Nat, NEW q \in Nat, NEW new \in Seq(Block(n, q)),
         NEW dom, NEW M, dom \subseteq M, NEW instr,
         SiteAdded(blocks, new, instr), CodeAdded(blocks, new, cur, instr),
         Uses(Params, blocks, dom, Nat),
         Supplied(Params, blocks, M, cur, instr)
  PROVE  Uses(Params, new, M, Nat) /\ DefsKept(blocks, new)
<1>1. /\ blocks \in Seq(Block(Len(values), Len(blocks)))
      /\ Len(values) \in Nat /\ Len(blocks) \in Nat
      /\ cur \in 1 .. Len(blocks)
  BY StackFrames
<1>2. cur \in 1 .. Len(new) /\ new[cur].code = Append(blocks[cur].code, instr)
  <2>1. Len(new) \in Nat /\ Len(blocks) <= Len(new)
    BY DEF CodeAdded
  <2> QED
    BY <1>1, <2>1 DEF CodeAdded
<1>3. AddedLast(blocks, new, cur, instr)
  BY <1>1, <1>2, AddedIsLast
<1> QED
  BY <1>3, UsesAdded

LEMMA ReturnCode ==
  ASSUME TypeOK, NEW dom, NEW lev, Placed(dom, lev),
         NEW args \in Seq(Operand(Len(values))),
         AvailArgs(Params, blocks, Over(dom, cur), args), EmitReturn(args)
  PROVE  /\ SameSucc /\ DefsKept(blocks, blocks')
         /\ Uses(Params, blocks', dom, Nat)
<1> DEFINE instr == Instruction("RET", NoOperand, args)
<1>1. /\ SiteAdded(blocks, blocks', instr)
      /\ CodeAdded(blocks, blocks', cur, instr)
      /\ blocks' \in Seq(Block(Len(values), Len(blocks)))
  BY ReturnAdds
<1>2. Supplied(Params, blocks, dom, cur, instr)
  BY DEF Instruction, Supplied
<1> HIDE DEF instr
<1>3. Len(values) \in Nat /\ Len(blocks) \in Nat /\ dom \subseteq dom
  BY StackFrames
<1>4. Uses(Params, blocks, dom, Nat)
  BY DEF Placed
<1> QED
  BY <1>1, <1>2, <1>3, <1>4, CodePlaced, EmitReturnSucc

LEMMA FinishReturnPlaced ==
  ASSUME TypeOK, TypeOK', FlowInv, NEW dom, NEW lev, Placed(dom, lev),
         FinishReturn
  PROVE  DomInv'
<1>1. Top.kind = "RETURN" /\ status = "lowering" /\ Complete
  BY DEF FinishReturn, Active
<1>2. \/ Fail(ReturnType)
      \/ /\ EmitReturn(Top.args) /\ EndStatement(TRUE)
         /\ UNCHANGED <<fn, status, cur, dropped, bindings>>
  BY DEF FinishReturn, runVars, nameVars
<1>3. CASE Fail(ReturnType)
  BY <1>3, FailPlaced DEF Error
<1>4. CASE /\ EmitReturn(Top.args) /\ EndStatement(TRUE)
           /\ UNCHANGED <<fn, status, cur, dropped, bindings>>
  <2>1. Top.args \in Seq(Operand(Len(values))) /\ Top.kind \in ExprKind
    BY <1>1, OperandsType DEF ExprKind
  <2>2. AvailArgs(Params, blocks, Over(dom, cur), Top.args)
    BY <2>1, TopArgs
  <2>3. /\ SameSucc /\ DefsKept(blocks, blocks')
        /\ Uses(Params, blocks', dom, Nat)
    BY <1>4, <2>1, <2>2, ReturnCode
  <2>4. AvailAll(Params, blocks', Over(dom, cur), bindings')
    BY <1>4, <2>3, AvailKept DEF Placed
  <2> QED
    BY <1>1, <1>4, <2>3, <2>4, EndStatementPlaced DEF StatementKind
<1> QED
  BY <1>2, <1>3, <1>4

LEMMA ReturnNothingPlaced ==
  ASSUME TypeOK, TypeOK', FlowInv, NEW dom, NEW lev, Placed(dom, lev),
         ReturnNothing
  PROVE  DomInv'
<1> PICK k : k = Len(ctrl)
  OBVIOUS
<1>1. status = "lowering" /\ Top.kind \in ListKind
  BY DEF ReturnNothing, NextStatement, InList
<1>2. \/ Fail(ReturnType)
      \/ /\ EmitReturn(<< >>)
         /\ UNCHANGED <<fn, status, cur, dropped, bindings>>
         /\ ctrl' = [ctrl EXCEPT ![Len(ctrl)].rets = TRUE]
  BY DEF ReturnNothing, runVars, nameVars
<1>3. CASE Fail(ReturnType)
  BY <1>3, FailPlaced DEF Error
<1>4. CASE /\ EmitReturn(<< >>)
           /\ UNCHANGED <<fn, status, cur, dropped, bindings>>
           /\ ctrl' = [ctrl EXCEPT ![Len(ctrl)].rets = TRUE]
  <2>0. << >> \in Seq(Operand(Len(values)))
        /\ AvailArgs(Params, blocks, Over(dom, cur), << >>)
    BY NoneAvail
  <2>1. /\ SameSucc /\ DefsKept(blocks, blocks')
        /\ Uses(Params, blocks', dom, Nat)
    BY <1>4, <2>0, ReturnCode
  <2> DEFINE g == [ctrl[k] EXCEPT !.rets = TRUE]
  <2>2. /\ ctrl \in Seq(StackFrame) /\ k \in Nat /\ k >= 1 /\ k = Len(ctrl)
        /\ ctrl[k] \in Frame(Len(values), Len(blocks), Len(names))
        /\ ctrl[k].kind \in ListKind /\ k # k + 1 /\ k \in 1 .. Len(ctrl)
        /\ Len(values) \in Nat /\ Len(blocks) \in Nat /\ Len(names) \in Nat
    BY <1>1, StackFrames DEF StackFrame
  <2>3. ctrl' = [ctrl EXCEPT ![k] = g]
    BY <1>4, Zenon
  <2>4. Alike(ctrl[k], g)
    BY <2>2, AlikeRets
  <2> HIDE DEF g
  <2>5. /\ Keeps(k) /\ Len(ctrl') = k
        /\ \A i \in 1 .. k - 1 : ctrl'[i] = ctrl[i]
    <3>1. k <= Len(ctrl) /\ \A i \in 1 .. k : ctrl[i] = ctrl[i]
      BY <2>2
    <3> QED
      BY <2>2, <2>3, <2>4, <3>1, UpdateShape
  <2>6. Shape(k) /\ Len(ctrl') = k /\ Len(ctrl') # k + 1
    BY <1>1, <2>2, <2>5 DEF Shape, ListKind
  <2>7. StackBelow
    BY <2>2, <2>5 DEF StackBelow
  <2>8. ctrl'[k].kind \notin ExprKind
    <3>1. Alike(ctrl[k], ctrl'[k])
      BY <2>2, <2>5 DEF Keeps
    <3> QED
      BY <2>2, <3>1 DEF Alike, ListKind, ExprKind
  <2>9. Under(k)
    BY <1>4 DEF Under
  <2>10. AvailAll(Params, blocks', Over(dom, cur), bindings')
    BY <1>4, <2>1, AvailKept DEF Placed
  <2>11. lev[k] \subseteq Over(dom, cur)
    BY <2>2, LevelBelow
  <2> QED
    BY <1>1, <1>4, <2>1, <2>2, <2>6, <2>7, <2>8, <2>9, <2>10, <2>11,
       QuietPlaced
<1> QED
  BY <1>2, <1>3, <1>4

LEMMA EndBlockPlaced ==
  ASSUME TypeOK, TypeOK', FlowInv, NEW dom, NEW lev, Placed(dom, lev),
         EndBlock
  PROVE  DomInv'
<1>1. /\ Top.kind = "BLOCK" /\ status = "lowering" /\ EndStatement(Top.rets)
      /\ UNCHANGED <<fn, status, blocks, cur, dropped, bindings>>
  BY DEF EndBlock, Active, runVars, irVars, nameVars
<1>2. SameSucc /\ DefsKept(blocks, blocks')
  BY <1>1, EdgesKept, DefsSame
<1>3. /\ Uses(Params, blocks', dom, Nat)
      /\ AvailAll(Params, blocks', Over(dom, cur), bindings')
  BY <1>1 DEF Placed
<1> QED
  BY <1>1, <1>2, <1>3, EndStatementPlaced DEF StatementKind

LEMMA SimpleStatementPlaced ==
  ASSUME TypeOK, TypeOK', FlowInv, SingleInv, NEW dom, NEW lev,
         Placed(dom, lev), SimpleStatement
  PROVE  DomInv'
<1>1. CASE StatementAfterReturn
  BY <1>1, FailPlaced DEF StatementAfterReturn, Error
<1>2. CASE \E n \in Name : \E t \in DeclTypes[n] : DeclareOnly(n, t)
  BY <1>2, DeclareOnlyPlaced
<1>3. CASE \E n \in Name : \E t \in DeclTypes[n] : DeclareAndAssign(n, t)
  BY <1>3, BeginAssignmentPlaced
  DEF DeclareAndAssign, StartStatement, NextStatement
<1>4. CASE \E n \in Name : Assign(n)
  BY <1>4, BeginAssignmentPlaced DEF Assign, StartStatement, NextStatement
<1>5. CASE \E n \in Name : AssignUnbound(n)
  BY <1>5, FailPlaced DEF AssignUnbound, Error
<1>6. CASE FinishAssignment
  BY <1>6, FinishAssignmentPlaced
<1>7. CASE BeginReturn
  <2> DEFINE f == [kind |-> "RETURN", wants |-> <<fn.ret>>, args |-> << >>]
  <2>1. /\ InList /\ ~blocks[cur].terminated /\ Push(f) /\ f.kind = "RETURN"
        /\ f.args = << >> /\ UNCHANGED <<runVars, irVars, bindings>>
    BY <1>7 DEF BeginReturn, StartStatement, NextStatement, nameVars
  <2> HIDE DEF f
  <2> QED
    BY <2>1, BeginStatementPlaced
<1>8. CASE FinishReturn
  BY <1>8, FinishReturnPlaced
<1>9. CASE ReturnNothing
  BY <1>9, ReturnNothingPlaced
<1>10. CASE \E c \in Callees : CallStatement(c)
  <2>1. PICK c \in Callees : CallStatement(c)
    BY <1>10
  <2> DEFINE f == [kind |-> "CALL", ret |-> c.ret, wants |-> c.params,
                   args |-> << >>, target |-> NoOperand]
  <2>2. /\ InList /\ ~blocks[cur].terminated /\ Push(f) /\ f.kind = "CALL"
        /\ f.args = << >> /\ UNCHANGED <<runVars, irVars, bindings>>
    BY <2>1 DEF CallStatement, StartStatement, NextStatement, nameVars
  <2> HIDE DEF f
  <2> QED
    BY <2>2, BeginStatementPlaced
<1>11. CASE BeginBlock
  <2> DEFINE f == [kind |-> "BLOCK", rets |-> FALSE]
  <2>1. /\ InList /\ ~blocks[cur].terminated /\ Push(f) /\ f.kind = "BLOCK"
        /\ UNCHANGED <<runVars, irVars, bindings>>
    BY <1>11 DEF BeginBlock, StartStatement, NextStatement, nameVars
  <2> HIDE DEF f
  <2> QED
    BY <2>1, BeginStatementPlaced DEF ExprKind
<1>12. CASE EndBlock
  BY <1>12, EndBlockPlaced
<1> QED
  BY <1>1, <1>2, <1>3, <1>4, <1>5, <1>6, <1>7, <1>8, <1>9, <1>10, <1>11,
     <1>12 DEF SimpleStatement

-----------------------------------------------------------------------------
(***************************************************************************)
(* Steps that end the current block and enter another one.                 *)
(***************************************************************************)

LEMMA NewIsBare ==
  ASSUME TypeOK, TypeOK', NEW dom, NEW lev, Placed(dom, lev), NEW b \in Nat,
         b > Len(blocks), NEW T, NewEdges(T)
  PROVE  /\ Over(dom, b) = {} /\ b # 1
         /\ \A a : ~Edge(blocks, a, b)
         /\ \A a : Edge(blocks', a, b) => a = cur /\ b \in T
<1>1. /\ Len(blocks) \in Nat /\ Len(blocks) >= 1 /\ Len(values) \in Nat
      /\ blocks \in Seq(Block(Len(values), Len(blocks)))
  BY StackFrames
<1>2. b \notin 1 .. Len(blocks) /\ b # 1
  BY <1>1
<1>3. ASSUME NEW a, Edge(blocks, a, b) PROVE FALSE
  <2>1. a \in 1 .. Len(blocks)
    BY <1>3 DEF Edge
  <2>2. blocks[a].succ \in Seq(1 .. Len(blocks))
    BY <1>1, <2>1, BlockFields
  <2>3. PICK i \in DOMAIN blocks[a].succ : blocks[a].succ[i] = b
    BY <1>3 DEF Edge
  <2> QED
    BY <1>2, <2>2, <2>3
<1>4. \A a : Edge(blocks', a, b) => a = cur /\ b \in T
  BY <1>3, EdgesAfter
<1> QED
  BY <1>2, <1>3, <1>4 DEF Placed

LEMMA EnterPlaced ==
  ASSUME TypeOK, TypeOK', NEW dom, NEW lev, Placed(dom, lev), NEW k,
         NEW c, c = cur', Fresh(k, c), NEW S \in SUBSET Nat, NEW M,
         M = Entered(dom, c, S),
         \A a : Edge(blocks, a, c) => S \subseteq Over(dom, a)
  PROVE  /\ Opens(k, dom, M) /\ dom \subseteq M /\ Over(M, c) = S \cup {c}
         /\ \A x : x # c => Over(M, x) = Over(dom, x)
         /\ Over(dom, c) = {} /\ c \in Nat /\ c # cur
         /\ \A x : Over(dom, x) \subseteq Over(M, x)
<1>1. c \in Nat
  BY DEF TypeOK, IRType
<1>2. Over(dom, c) = {}
  BY <1>1, FreshIsBare
<1>3. /\ dom \subseteq M /\ Over(M, c) = S \cup {c}
      /\ \A x : x # c => Over(M, x) = Over(dom, x)
  BY <1>1, <1>2, OverEntered
<1>4. Opens(k, dom, M)
  BY DEF Opens
<1>5. c # cur
  BY <1>2 DEF Placed
<1>6. \A x : Over(dom, x) \subseteq Over(M, x)
  BY <1>3, OverMore
<1> QED
  BY <1>1, <1>2, <1>3, <1>4, <1>5, <1>6

LEMMA SplitCode ==
  ASSUME TypeOK, NEW dom, NEW lev, Placed(dom, lev), NEW M, dom \subseteq M,
         NEW wide, NEW q, Opened(wide, q),
         NEW t \in 1 .. q, NEW e \in 1 .. q, t # e,
         NEW o \in Operand(Len(values)),
         AvailOperand(Params, blocks, Over(dom, cur), o),
         blocks' = CondBranch(wide, cur, o, t, e)
  PROVE  Uses(Params, blocks', M, Nat) /\ DefsKept(blocks, blocks')
<1> DEFINE instr == Choice(o, t, e)
<1>1. /\ SiteAdded(blocks, blocks', instr)
      /\ CodeAdded(blocks, blocks', cur, instr)
      /\ blocks' \in Seq(Block(Len(values), q))
  BY SplitAdds
<1>2. Len(values) \in Nat /\ q \in Nat
  BY StackFrames DEF Opened
<1>3. AvailOperand(Params, blocks, Over(M, cur), o)
  BY DefsSame, OverMore, AvailKept
<1>4. Supplied(Params, blocks, M, cur, instr)
  BY <1>3 DEF Choice, Supplied, AvailArgs
<1> HIDE DEF instr
<1>5. Uses(Params, blocks, dom, Nat)
  BY DEF Placed
<1> QED
  BY <1>1, <1>2, <1>4, <1>5, CodePlaced

LEMMA JumpCode ==
  ASSUME TypeOK, NEW dom, NEW lev, Placed(dom, lev), NEW M, dom \subseteq M,
         NEW n \in Nat, Len(values) <= n, NEW wide, Len(wide) \in Nat,
         wide \in Seq(Block(n, Len(wide))),
         Extends(blocks, wide), NEW t \in 1 .. Len(wide)
  PROVE  /\ Uses(Params, Branch(wide, cur, t), M, Nat)
         /\ DefsKept(blocks, Branch(wide, cur, t))
         /\ Branch(wide, cur, t) \in Seq(Block(n, Len(wide)))
         /\ Len(Branch(wide, cur, t)) = Len(wide)
<1> DEFINE instr == Jump(t)
           new   == Branch(wide, cur, t)
<1>1. /\ SiteAdded(blocks, new, instr) /\ CodeAdded(blocks, new, cur, instr)
      /\ new \in Seq(Block(n, Len(wide))) /\ Len(new) = Len(wide)
  BY BranchAdds
<1>2. Supplied(Params, blocks, M, cur, instr)
  BY NoneAvail DEF Jump, Supplied
<1> HIDE DEF instr, new
<1>3. Uses(Params, blocks, dom, Nat)
  BY DEF Placed
<1>4. Uses(Params, new, M, Nat) /\ DefsKept(blocks, new)
  BY <1>1, <1>2, <1>3, CodePlaced
<1> QED
  BY <1>1, <1>4 DEF new

LEMMA JoinCode ==
  ASSUME TypeOK, NEW dom, NEW lev, Placed(dom, lev), NEW M, dom \subseteq M,
         NEW t \in 1 .. Len(blocks), blocks' = Join(t)
  PROVE  Uses(Params, blocks', M, Nat) /\ DefsKept(blocks, blocks')
<1>1. /\ blocks \in Seq(Block(Len(values), Len(blocks)))
      /\ Len(values) \in Nat /\ Len(blocks) \in Nat
  BY StackFrames
<1>2. CASE blocks[cur].terminated
  <2>1. blocks' = blocks
    BY <1>2 DEF Join
  <2>2. Uses(Params, blocks, dom, Nat) /\ SameSites(blocks, blocks)
    BY DEF Placed, SameSites
  <2>3. Uses(Params, blocks, M, Nat) /\ DefsKept(blocks, blocks)
    BY <2>2, UsesSame
  <2> QED
    BY <2>1, <2>3
<1>3. CASE ~blocks[cur].terminated
  <2>1. blocks' = Branch(blocks, cur, t)
    BY <1>3 DEF Join
  <2>2. Extends(blocks, blocks)
    BY <1>1 DEF Extends
  <2>3. Len(values) <= Len(values)
    BY <1>1
  <2>4. /\ Uses(Params, Branch(blocks, cur, t), M, Nat)
        /\ DefsKept(blocks, Branch(blocks, cur, t))
    BY <1>1, <2>2, <2>3, JumpCode
  <2> QED
    BY <2>1, <2>4
<1> QED
  BY <1>2, <1>3

LEMMA LevelIsSet ==
  ASSUME TypeOK, NEW dom, NEW lev, Placed(dom, lev), NEW k \in Nat,
         k <= Len(ctrl)
  PROVE  lev[k] \in SUBSET Nat
<1>1. Over(dom, cur) \subseteq Nat
  BY DEF Over
<1> QED
  BY <1>1, LevelBelow

LEMMA SplitLogicPlaced ==
  ASSUME TypeOK, TypeOK', FlowInv, SingleInv, NEW dom, NEW lev,
         Placed(dom, lev), SplitLogic
  PROVE  DomInv'
<1> PICK k : k = Len(ctrl) - 1
  OBVIOUS
<1> PICK m : m = Len(blocks)
  OBVIOUS
<1> PICK S : S = Over(dom, cur)
  OBVIOUS
<1> DEFINE right == m + 1
           merge == m + 2
           wide  == blocks \o <<NewBlock, NewBlock>>
           t     == IF Top.isOr THEN merge ELSE right
           e     == IF Top.isOr THEN right ELSE merge
           f     == [kind |-> "RIGHT", wants |-> <<"BOOL">>, args |-> << >>,
                     target |-> Top.target, isOr |-> Top.isOr,
                     decision |-> cur, merge |-> merge]
<1>1. /\ blocks' = CondBranch(wide, cur, Top.args[1], t, e) /\ cur' = right
      /\ Replace(f) /\ UNCHANGED <<fn, status, bindings, dropped>>
      /\ Top.kind = "LEFT" /\ Complete /\ status = "lowering"
  BY DEF SplitLogic, Active, runVars, nameVars
<1>2. /\ Lowering /\ ~blocks[cur].terminated
      /\ m \in Nat /\ Len(ctrl) \in Nat /\ Len(ctrl) >= 1
  BY <1>1, InLowering, StackFrames DEF ListKind
<1>3. /\ t \in 1 .. m + 2 /\ e \in 1 .. m + 2 /\ t # e
      /\ t > m /\ e > m /\ right > m /\ merge > m /\ right # merge
      /\ right \in Nat /\ merge \in Nat
      /\ \A x \in {t, e} : x = right \/ x = merge
  BY <1>2
<1>4. Top.args[1] \in Operand(Len(values))
      /\ AvailOperand(Params, blocks, S, Top.args[1])
  <2>1. Top.kind \in ExprKind
    BY <1>1 DEF ExprKind
  <2>2. 1 \in DOMAIN Top.args /\ Top.args[1] \in Operand(Len(values))
    BY <1>1, <2>1, FirstOperand
  <2> QED
    BY <2>1, <2>2, TopArgs DEF AvailArgs
<1>5. f.kind = "RIGHT" /\ f.merge = merge /\ f.args = << >>
  OBVIOUS
<1> HIDE DEF f, t, e
<1>6. NewEdges({t, e})
  BY <1>1, <1>2, <1>3, <1>4, OpenedWide, SplitEdges
<1>7. Opened(wide, m + 2)
  BY OpenedWide
<1> HIDE DEF wide
<1>8. /\ Shape(k) /\ Len(ctrl') = k + 1 /\ ctrl'[k + 1] = f
      /\ \A i \in 1 .. k : ctrl'[i] = ctrl[i]
  BY <1>1, <1>2, ReplaceTop
<1>9. Fresh(k, right) /\ Fresh(k, merge)
  BY <1>3 DEF Fresh
<1> HIDE DEF right, merge
<1> PICK M : M = Entered(dom, right, S)
  OBVIOUS
<1>10. /\ \A a : ~Edge(blocks, a, right)
       /\ \A a : ~Edge(blocks, a, merge)
       /\ \A a : Edge(blocks', a, merge) => a = cur
       /\ Over(dom, merge) = {} /\ right # 1 /\ merge # 1
  BY <1>3, <1>6, NewIsBare
<1>11. S \in SUBSET Nat /\ S = Over(dom, cur)
  BY DEF Over
<1>12. /\ Opens(k, dom, M) /\ dom \subseteq M
       /\ Over(M, right) = S \cup {right}
       /\ Over(M, merge) = {} /\ Over(M, cur) = S
  BY <1>1, <1>3, <1>9, <1>10, <1>11, EnterPlaced
<1>13. Reached(k, dom, M, {t, e})
  BY <1>3, <1>9, <1>10, <1>11, <1>12 DEF Reached, Fresh
<1>14. Turn(k)
  <2>1. \A b : Awaits(f, b) => b = merge
    BY <1>5 DEF Awaits
  <2> QED
    BY <1>1, <1>8, <1>9, <2>1 DEF Turn, Shape
<1>15. Uses(Params, blocks', M, Nat) /\ DefsKept(blocks, blocks')
  BY <1>1, <1>3, <1>4, <1>7, <1>11, <1>12, SplitCode
<1>16. StackBelow
  BY <1>2, <1>8 DEF StackBelow
<1>17. /\ AvailAll(Params, blocks', S, bindings')
       /\ AvailAll(Params, blocks', Over(M, right), bindings')
  BY <1>1, <1>11, <1>12, <1>15, AvailKept DEF Placed
<1>18. lev[k] \subseteq S /\ S \subseteq Over(M, right) /\ k # k + 1
  BY <1>2, <1>11, <1>12, LevelBelow
<1>19. FramePlaced(Params, blocks', bindings', M, S, Over(M, right), f)
  <2>1. AvailArgs(Params, blocks', Over(M, right), f.args)
    BY <1>5, NoneAvail
  <2>2. \A b : Awaits(f, b) =>
          /\ b # 1 /\ Over(M, b) = {}
          /\ \A a : Edge(blocks', a, b) => S \subseteq Over(M, a)
    BY <1>5, <1>10, <1>12 DEF Awaits
  <2> QED
    BY <1>5, <1>17, <2>1, <2>2 DEF FramePlaced, SnapshotKind, LoopKind
<1>20. Under(k) /\ fn' = fn /\ status' = "lowering"
  BY <1>1 DEF Under
<1>21. Over(M, right) = Over(M, cur') /\ Len(ctrl') = k + 1 /\ ctrl'[k + 1] = f
  BY <1>1, <1>8
<1> QED
  BY <1>2, <1>6, <1>12, <1>13, <1>14, <1>15, <1>16, <1>17, <1>18,
     <1>19, <1>20, <1>21, PlacedTop

\* emit_if enters the then branch; the else branch and the merge block wait.
LEMMA BranchIfPlaced ==
  ASSUME TypeOK, TypeOK', FlowInv, SingleInv, NEW dom, NEW lev,
         Placed(dom, lev), BranchIf
  PROVE  DomInv'
<1> PICK k : k = Len(ctrl) - 1
  OBVIOUS
<1> PICK m : m = Len(blocks)
  OBVIOUS
<1> PICK S : S = Over(dom, cur)
  OBVIOUS
<1> DEFINE then  == m + 1
           else  == m + 2
           merge == m + 3
           wide  == blocks \o <<NewBlock, NewBlock, NewBlock>>
           f     == [kind |-> "THEN", rets |-> FALSE, incoming |-> bindings,
                     count |-> Len(names), else |-> else, merge |-> merge]
<1>1. /\ blocks' = CondBranch(wide, cur, Top.args[1], then, else)
      /\ cur' = then
      /\ Replace(f) /\ UNCHANGED <<fn, status, bindings, dropped>>
      /\ Top.kind = "IFCOND" /\ Complete /\ status = "lowering"
  BY DEF BranchIf, Active, runVars, nameVars
<1>2. /\ Lowering /\ ~blocks[cur].terminated
      /\ m \in Nat /\ Len(ctrl) \in Nat /\ Len(ctrl) >= 1
  BY <1>1, InLowering, StackFrames DEF ListKind
<1>3. /\ then \in 1 .. m + 3 /\ else \in 1 .. m + 3 /\ then # else
      /\ then > m /\ else > m /\ merge > m /\ merge # then /\ merge # else
      /\ then \in Nat /\ else \in Nat /\ merge \in Nat
  BY <1>2
<1>4. Top.args[1] \in Operand(Len(values))
      /\ AvailOperand(Params, blocks, S, Top.args[1])
  <2>1. Top.kind \in ExprKind
    BY <1>1 DEF ExprKind
  <2>2. 1 \in DOMAIN Top.args /\ Top.args[1] \in Operand(Len(values))
    BY <1>1, <2>1, FirstOperand
  <2> QED
    BY <2>1, <2>2, TopArgs DEF AvailArgs
<1>5. /\ f.kind = "THEN" /\ f.merge = merge /\ f.else = else
      /\ f.incoming = bindings
  OBVIOUS
<1> HIDE DEF f
<1>6. NewEdges({then, else})
  BY <1>1, <1>2, <1>3, <1>4, OpenedWide, SplitEdges
<1>7. Opened(wide, m + 3)
  BY OpenedWide
<1> HIDE DEF wide
<1>8. /\ Shape(k) /\ Len(ctrl') = k + 1 /\ ctrl'[k + 1] = f
      /\ \A i \in 1 .. k : ctrl'[i] = ctrl[i]
  BY <1>1, <1>2, ReplaceTop
<1>9. Fresh(k, then) /\ Fresh(k, else) /\ Fresh(k, merge)
  BY <1>3 DEF Fresh
<1> HIDE DEF then, else, merge
<1> PICK M : M = Entered(dom, then, S)
  OBVIOUS
<1>10. /\ \A a : ~Edge(blocks, a, then)
       /\ \A a : Edge(blocks', a, else) => a = cur
       /\ \A a : ~Edge(blocks', a, merge)
       /\ Over(dom, else) = {} /\ Over(dom, merge) = {}
       /\ then # 1 /\ else # 1 /\ merge # 1
  BY <1>3, <1>6, NewIsBare
<1>11. S \in SUBSET Nat /\ S = Over(dom, cur)
  BY DEF Over
<1>12. /\ Opens(k, dom, M) /\ dom \subseteq M /\ Over(M, then) = S \cup {then}
       /\ Over(M, else) = {} /\ Over(M, merge) = {} /\ Over(M, cur) = S
  BY <1>1, <1>3, <1>9, <1>10, <1>11, EnterPlaced
<1>13. Reached(k, dom, M, {then, else})
  BY <1>9, <1>10, <1>11, <1>12 DEF Reached
<1>14. Turn(k)
  <2>1. \A b : Awaits(f, b) => b = else \/ b = merge
    BY <1>5 DEF Awaits
  <2> QED
    BY <1>1, <1>8, <1>9, <2>1 DEF Turn, Shape
<1>15. Uses(Params, blocks', M, Nat) /\ DefsKept(blocks, blocks')
  BY <1>1, <1>3, <1>4, <1>7, <1>11, <1>12, SplitCode
<1>16. StackBelow
  BY <1>2, <1>8 DEF StackBelow
<1>17. /\ AvailAll(Params, blocks', S, bindings)
       /\ AvailAll(Params, blocks', Over(M, then), bindings')
  BY <1>1, <1>11, <1>12, <1>15, AvailKept DEF Placed
<1>18. lev[k] \subseteq S /\ S \subseteq Over(M, then) /\ k # k + 1
  BY <1>2, <1>11, <1>12, LevelBelow
<1>19. FramePlaced(Params, blocks', bindings', M, S, Over(M, then), f)
  <2>1. f.kind \notin ExprKind
    BY <1>5 DEF ExprKind
  <2>2. \A b : Awaits(f, b) =>
          /\ b # 1 /\ Over(M, b) = {}
          /\ \A a : Edge(blocks', a, b) => S \subseteq Over(M, a)
    BY <1>5, <1>10, <1>12 DEF Awaits
  <2> QED
    BY <1>5, <1>17, <2>1, <2>2 DEF FramePlaced, LoopKind
<1>20. Under(k) /\ fn' = fn /\ status' = "lowering"
  BY <1>1 DEF Under
<1>21. Over(M, then) = Over(M, cur') /\ Len(ctrl') = k + 1 /\ ctrl'[k + 1] = f
  BY <1>1, <1>8
<1> QED
  BY <1>2, <1>6, <1>12, <1>13, <1>14, <1>15, <1>16, <1>17, <1>18,
     <1>19, <1>20, <1>21, PlacedTop

\* The statement list below a construct holds no connective.
LEMMA ListBelow ==
  ASSUME TypeOK, Lowering, Top.kind \in StatementKind, NEW k,
         k = Len(ctrl) - 1
  PROVE  /\ Under(k) /\ k \in 1 .. Len(ctrl) /\ Len(ctrl) = k + 1
         /\ k + 1 \in 1 .. Len(ctrl) /\ Top = ctrl[k + 1] /\ k \in Nat
         /\ k # k + 1 /\ (k + 1) - 1 = k /\ k \in 1 .. k
<1>1. ctrl[k].kind \in ListKind /\ Top.kind # "FBODY"
  BY StatementCaller
<1>2. k \in 1 .. Len(ctrl) /\ Len(ctrl) = k + 1
  BY <1>1, StackFrames, PoppedFrames
<1>3. Under(k)
  BY <1>1, <1>2, NoRight
<1> QED
  BY <1>2, <1>3, StackFrames

\* What the innermost activation relies on.
LEMMA TopPlaced ==
  ASSUME TypeOK, NEW dom, NEW lev, Placed(dom, lev), NEW k,
         k = Len(ctrl) - 1
  PROVE  /\ FramePlaced(Params, blocks, bindings, dom, lev[k], Over(dom, cur),
                        Top)
         /\ lev[k] \subseteq Over(dom, cur) /\ lev[k] \in SUBSET Nat
<1>1. /\ Len(ctrl) \in 1 .. Len(ctrl) /\ Top = ctrl[Len(ctrl)]
      /\ k \in Nat /\ k <= Len(ctrl)
  BY StackFrames
<1> QED
  BY <1>1, LevelBelow, LevelIsSet DEF Placed

\* The then branch ends: the else branch starts with what was bound before.
LEMMA EndThenPlaced ==
  ASSUME TypeOK, TypeOK', FlowInv, NEW dom, NEW lev, Placed(dom, lev),
         NEW hasElse \in BOOLEAN, EndThen(hasElse)
  PROVE  DomInv'
<1> PICK k : k = Len(ctrl) - 1
  OBVIOUS
<1> PICK t : t = Top.merge
  OBVIOUS
<1> PICK c : c = Top.else
  OBVIOUS
<1> PICK S : S = lev[k]
  OBVIOUS
<1> DEFINE g == [bound |-> bindings, end |-> cur,
                 reaches |-> ~blocks[cur].terminated, rets |-> Top.rets]
           f == [kind |-> IF hasElse THEN "ELSE" ELSE "NOELSE",
                 rets |-> FALSE, incoming |-> Top.incoming,
                 count |-> Top.count, merge |-> t, then |-> g]
           T == JoinTargets(t)
<1>1. /\ blocks' = Join(t) /\ cur' = c /\ Replace(f)
      /\ bindings' = Top.incoming
      /\ UNCHANGED <<fn, status, dropped>>
      /\ Top.kind = "THEN" /\ status = "lowering"
  BY DEF EndThen, Active, runVars, Restore
<1>2. /\ Lowering /\ Len(ctrl) \in Nat /\ Len(ctrl) = k + 1
      /\ Len(ctrl) \in 1 .. Len(ctrl) /\ Len(ctrl) \in DOMAIN ctrl
      /\ Top = ctrl[Len(ctrl)]
  BY <1>1, InLowering, StackFrames
<1>3. /\ f.kind \in {"ELSE", "NOELSE"} /\ f.merge = t /\ f.then = g
      /\ g.bound = bindings /\ g.end = cur /\ f.incoming = Top.incoming
  OBVIOUS
<1> HIDE DEF f, g
<1>4. t \in 1 .. Len(blocks) /\ c # t
  <2>1. t \in 1 .. Len(blocks)
    BY <1>1, <1>2, FrameBlocks
  <2>2. FlowIn(blocks, cur, values, Top)
    BY <1>2 DEF Lowering, FrameFlow
  <2> QED
    BY <1>1, <2>1, <2>2 DEF FlowIn
<1>5. NewEdges(T)
  BY <1>1, <1>4, JoinEdges
<1>6. /\ Shape(k) /\ Len(ctrl') = k + 1 /\ ctrl'[k + 1] = f
      /\ \A i \in 1 .. k : ctrl'[i] = ctrl[i]
  BY <1>1, <1>2, ReplaceTop
<1>7. Awaits(Top, t) /\ Awaits(Top, c)
  BY <1>1 DEF Awaits
<1>8. Fresh(k, t) /\ Fresh(k, c)
  BY <1>2, <1>7 DEF Fresh, Handed
<1>9. /\ FramePlaced(Params, blocks, bindings, dom, S, Over(dom, cur), Top)
      /\ S \subseteq Over(dom, cur) /\ S \in SUBSET Nat
  BY TopPlaced
<1>10. /\ \A b : b \in {t, c} =>
            /\ b # 1 /\ Over(dom, b) = {}
            /\ \A a : Edge(blocks, a, b) => S \subseteq Over(dom, a)
       /\ AvailAll(Params, blocks, S, Top.incoming)
  BY <1>1, <1>7, <1>9 DEF FramePlaced, SnapshotKind
<1> PICK M : M = Entered(dom, c, S)
  OBVIOUS
<1>11. /\ Opens(k, dom, M) /\ dom \subseteq M /\ Over(M, c) = S \cup {c}
       /\ Over(M, t) = {} /\ Over(M, cur) = Over(dom, cur)
       /\ \A x : Over(dom, x) \subseteq Over(M, x)
  <2>1. /\ Over(dom, c) = {} /\ Over(dom, t) = {} /\ c = cur' /\ t # c
        /\ \A a : Edge(blocks, a, c) => S \subseteq Over(dom, a)
    BY <1>1, <1>4, <1>10
  <2>2. /\ Opens(k, dom, M) /\ dom \subseteq M /\ Over(M, c) = S \cup {c}
        /\ \A x : x # c => Over(M, x) = Over(dom, x)
        /\ \A x : Over(dom, x) \subseteq Over(M, x) /\ c # cur
    BY <1>8, <1>9, <2>1, EnterPlaced
  <2> QED
    BY <2>1, <2>2
<1>12. Reached(k, dom, M, T)
  BY <1>8, <1>10, <1>11 DEF Reached, JoinTargets
<1>13. Turn(k)
  <2>1. \A b : Awaits(f, b) => b = t
    BY <1>3 DEF Awaits
  <2> QED
    BY <1>1, <1>6, <1>8, <2>1 DEF Turn, Shape
<1>14. Uses(Params, blocks', M, Nat) /\ DefsKept(blocks, blocks')
  BY <1>1, <1>4, <1>11, JoinCode
<1>15. StackBelow
  BY <1>2, <1>6 DEF StackBelow
<1>16. /\ AvailAll(Params, blocks', S, Top.incoming)
       /\ AvailAll(Params, blocks', Over(M, c), bindings')
       /\ AvailAll(Params, blocks', Over(M, cur), bindings)
  <2>1. AvailAll(Params, blocks, S, Top.incoming)
    BY <1>10
  <2>2. AvailAll(Params, blocks', S, Top.incoming)
    BY <1>14, <2>1, AvailKept
  <2>3. S \subseteq Over(M, c)
    BY <1>11
  <2>4. AvailAll(Params, blocks', Over(M, c), Top.incoming)
    BY <1>14, <2>1, <2>3, AvailKept
  <2>5. AvailAll(Params, blocks, Over(M, cur), bindings)
    BY <1>11 DEF Placed
  <2>6. AvailAll(Params, blocks', Over(M, cur), bindings)
    BY <1>14, <2>5, AvailKept
  <2> QED
    BY <1>1, <2>2, <2>4, <2>6
<1>17. EndPlaced(Params, blocks', M, S, g)
  BY <1>3, <1>9, <1>11, <1>16 DEF EndPlaced, Placed
<1>18. Under(k) /\ k # k + 1
  BY <1>1, <1>2, ListBelow DEF StatementKind
<1>19. FramePlaced(Params, blocks', bindings', M, S, Over(M, c), f)
  <2>1. f.kind \notin ExprKind
    BY <1>3 DEF ExprKind
  <2>2. ASSUME NEW b, Awaits(f, b)
        PROVE  /\ b # 1 /\ Over(M, b) = {}
               /\ \A a : Edge(blocks', a, b) => S \subseteq Over(M, a)
    <3>1. b = t
      BY <1>3, <2>2 DEF Awaits
    <3>2. ASSUME NEW a, Edge(blocks', a, t) PROVE S \subseteq Over(M, a)
      <4>1. Edge(blocks, a, t) \/ a = cur
        BY <1>5, <3>2, EdgesAfter
      <4> QED
        BY <1>9, <1>10, <1>11, <4>1
    <3> QED
      BY <1>10, <1>11, <3>1, <3>2
  <2> QED
    BY <1>3, <1>16, <1>17, <2>1, <2>2 DEF FramePlaced, LoopKind
<1>20. fn' = fn /\ status' = "lowering" /\ S \subseteq Over(M, c)
  BY <1>1, <1>11
<1> HIDE DEF T
<1>21. Over(M, c) = Over(M, cur') /\ Len(ctrl') = k + 1 /\ ctrl'[k + 1] = f
  BY <1>1, <1>6
<1> QED
  BY <1>2, <1>5, <1>11, <1>12, <1>13, <1>14, <1>15, <1>16, <1>18,
     <1>19, <1>20, <1>21, PlacedTop

\* The predecessors of a block are the blocks that lead to it.
LEMMA SomeOccurrence ==
  ASSUME NEW S, NEW s \in Seq(S), NEW x
  PROVE  Occurrences(s, x) # 0 <=> \E i \in DOMAIN s : s[i] = x
<1> DEFINE I == { i \in DOMAIN s : s[i] = x }
<1>1. DOMAIN s = 1 .. Len(s) /\ Len(s) \in Nat
  OBVIOUS
<1>2. IsFiniteSet(I)
  <2>1. IsFiniteSet(1 .. Len(s))
    <3>1. 1 \in Int /\ Len(s) \in Int
      BY <1>1
    <3> QED
      BY <3>1, FS_Interval
  <2>2. I \subseteq 1 .. Len(s)
    BY <1>1
  <2> QED
    BY <2>1, <2>2, FS_Subset
<1>3. Cardinality(I) = 0 <=> I = {}
  BY <1>2, FS_EmptySet
<1> QED
  BY <1>3 DEF Occurrences

LEMMA EdgeIsPred ==
  ASSUME TypeOK, Flow, NEW a, NEW b
  PROVE  Edge(blocks, a, b) <=>
           /\ a \in 1 .. Len(blocks) /\ b \in 1 .. Len(blocks)
           /\ \E j \in DOMAIN blocks[b].pred : blocks[b].pred[j] = a
<1>1. /\ blocks \in Seq(Block(Len(values), Len(blocks)))
      /\ Len(values) \in Nat /\ Len(blocks) \in Nat
      /\ DOMAIN blocks = 1 .. Len(blocks)
  BY StackFrames
<1>2. Edge(blocks, a, b) => a \in 1 .. Len(blocks) /\ b \in 1 .. Len(blocks)
  <2> SUFFICES ASSUME Edge(blocks, a, b)
               PROVE  a \in 1 .. Len(blocks) /\ b \in 1 .. Len(blocks)
    OBVIOUS
  <2>1. a \in 1 .. Len(blocks)
    BY DEF Edge
  <2>2. blocks[a].succ \in Seq(1 .. Len(blocks))
    BY <1>1, <2>1, BlockFields
  <2>3. PICK i \in DOMAIN blocks[a].succ : blocks[a].succ[i] = b
    BY DEF Edge
  <2> QED
    BY <2>1, <2>2, <2>3
<1>3. CASE a \in 1 .. Len(blocks) /\ b \in 1 .. Len(blocks)
  <2>1. /\ blocks[a].succ \in Seq(1 .. Len(blocks))
        /\ blocks[b].pred \in Seq(1 .. Len(blocks))
    BY <1>1, <1>3, BlockFields
  <2>2. Occurrences(blocks[a].succ, b) = Occurrences(blocks[b].pred, a)
    BY <1>1, <1>3 DEF Flow, FlowOf, EdgesAgree
  <2>3. Occurrences(blocks[a].succ, b) # 0 <=> Edge(blocks, a, b)
    BY <1>3, <2>1, SomeOccurrence DEF Edge
  <2>4. Occurrences(blocks[b].pred, a) # 0 <=>
          \E j \in DOMAIN blocks[b].pred : blocks[b].pred[j] = a
    BY <2>1, SomeOccurrence
  <2> QED
    BY <1>3, <2>2, <2>3, <2>4
<1> QED
  BY <1>2, <1>3

\* The if ends: what follows is below the branch that alone reaches it, if
\* one does, and else below the code before the if.
LEMMA EndElsePlaced ==
  ASSUME TypeOK, TypeOK', FlowInv, NEW dom, NEW lev, Placed(dom, lev),
         EndElse
  PROVE  DomInv'
<1> PICK k : k = Len(ctrl) - 1
  OBVIOUS
<1> PICK t : t = Top.merge
  OBVIOUS
<1> PICK lo : lo = lev[k]
  OBVIOUS
<1> PICK h : h = Top.then
  OBVIOUS
<1> PICK r : r = ~blocks[cur].terminated
  OBVIOUS
<1> PICK S : S = IF h.reaches /\ ~r THEN Over(dom, h.end)
                 ELSE IF r /\ ~h.reaches THEN Over(dom, cur) ELSE lo
  OBVIOUS
<1> DEFINE g == [bound |-> bindings, end |-> cur, reaches |-> r,
                 rets |-> Top.rets]
           f == [kind |-> "MERGE", k |-> 1, count |-> Top.count,
                 incoming |-> Top.incoming, then |-> h, else |-> g]
           T == JoinTargets(t)
<1>1. /\ blocks' = Join(t) /\ cur' = t /\ Replace(f)
      /\ bindings' = Top.incoming
      /\ UNCHANGED <<fn, status, dropped>>
      /\ Top.kind \in {"ELSE", "NOELSE"} /\ status = "lowering"
  BY DEF EndElse, Active, runVars, Restore
<1>2. /\ Lowering /\ Len(ctrl) \in Nat /\ Len(ctrl) = k + 1
      /\ Len(ctrl) \in 1 .. Len(ctrl) /\ Len(ctrl) \in DOMAIN ctrl
      /\ Top = ctrl[Len(ctrl)]
  BY <1>1, InLowering, StackFrames
<1>3. /\ f.kind = "MERGE" /\ f.then = h /\ f.else = g
      /\ g.bound = bindings /\ g.end = cur /\ f.incoming = Top.incoming
      /\ g.reaches = r
  OBVIOUS
<1> HIDE DEF f, g
<1>4. t \in 1 .. Len(blocks)
  BY <1>1, <1>2, FrameBlocks
<1>5. NewEdges(T)
  BY <1>1, <1>4, JoinEdges
<1>6. /\ Shape(k) /\ Len(ctrl') = k + 1 /\ ctrl'[k + 1] = f
      /\ \A i \in 1 .. k : ctrl'[i] = ctrl[i]
  BY <1>1, <1>2, ReplaceTop
<1>7. Awaits(Top, t)
  BY <1>1 DEF Awaits
<1>8. Fresh(k, t)
  BY <1>2, <1>7 DEF Fresh, Handed
<1>9. /\ FramePlaced(Params, blocks, bindings, dom, lo, Over(dom, cur), Top)
      /\ lo \subseteq Over(dom, cur) /\ lo \in SUBSET Nat
  BY TopPlaced
<1>10. /\ t # 1 /\ Over(dom, t) = {}
       /\ \A a : Edge(blocks, a, t) => lo \subseteq Over(dom, a)
       /\ AvailAll(Params, blocks, lo, Top.incoming)
       /\ EndPlaced(Params, blocks, dom, lo, h)
  BY <1>1, <1>7, <1>9 DEF FramePlaced, SnapshotKind
<1>11. S \in SUBSET Nat /\ lo \subseteq S
  <2>1. Over(dom, h.end) \in SUBSET Nat /\ Over(dom, cur) \in SUBSET Nat
    BY DEF Over
  <2> QED
    BY <1>9, <1>10, <2>1 DEF EndPlaced
<1>12. ASSUME NEW a, Edge(blocks, a, t) PROVE S \subseteq Over(dom, a)
  <2>1. PICK j \in DOMAIN blocks[t].pred : blocks[t].pred[j] = a
    BY <1>12, EdgeIsPred DEF FlowInv
  <2>2. blocks[t].pred = Arrived(h)
    BY <1>1, <1>2 DEF Lowering, FrameFlow, FlowIn
  <2>3. h.reaches /\ a = h.end
    BY <2>1, <2>2 DEF Arrived
  <2> QED
    BY <1>10, <1>12, <2>3
<1> PICK M : M = Entered(dom, t, S)
  OBVIOUS
<1>13. /\ Opens(k, dom, M) /\ dom \subseteq M /\ Over(M, t) = S \cup {t}
       /\ Over(M, cur) = Over(dom, cur) /\ Over(M, h.end) = Over(dom, h.end)
       /\ \A x : Over(dom, x) \subseteq Over(M, x)
  <2>1. h.end # t
    BY <1>10 DEF EndPlaced
  <2> QED
    BY <1>1, <1>8, <1>11, <1>12, <2>1, EnterPlaced
<1>14. Reached(k, dom, M, T)
  <2> SUFFICES ASSUME T = {t}, r
               PROVE  Reached(k, dom, M, T)
    BY DEF Reached, JoinTargets
  <2>1. S \subseteq Over(dom, cur)
    BY <1>9
  <2> QED
    BY <1>8, <1>10, <1>13, <2>1 DEF Reached
<1>15. Turn(k)
  <2>1. \A b : ~Awaits(f, b)
    BY <1>3 DEF Awaits
  <2> QED
    BY <1>1, <1>6, <1>8, <2>1 DEF Turn, Shape
<1>16. Uses(Params, blocks', M, Nat) /\ DefsKept(blocks, blocks')
  BY <1>1, <1>4, <1>13, JoinCode
<1>17. StackBelow
  BY <1>2, <1>6 DEF StackBelow
<1>18. /\ AvailAll(Params, blocks', lo, Top.incoming)
       /\ AvailAll(Params, blocks', Over(M, t), bindings')
       /\ AvailAll(Params, blocks', Over(M, cur), bindings)
  <2>1. lo \subseteq Over(M, t)
    BY <1>11, <1>13
  <2>2. AvailAll(Params, blocks, lo, Top.incoming)
    BY <1>10
  <2>3. AvailAll(Params, blocks', lo, Top.incoming)
    BY <1>16, <2>2, AvailKept
  <2>4. AvailAll(Params, blocks', Over(M, t), Top.incoming)
    BY <1>16, <2>1, <2>2, AvailKept
  <2>5. AvailAll(Params, blocks, Over(M, cur), bindings)
    BY <1>13 DEF Placed
  <2>6. AvailAll(Params, blocks', Over(M, cur), bindings)
    BY <1>16, <2>5, AvailKept
  <2> QED
    BY <1>1, <2>3, <2>4, <2>6
<1>19. EndPlaced(Params, blocks', M, lo, g)
  BY <1>3, <1>9, <1>13, <1>18 DEF EndPlaced, Placed
<1>20. EndPlaced(Params, blocks', M, lo, h)
  BY <1>10, <1>13, <1>16, EndKept
<1>21. Under(k) /\ k # k + 1
  BY <1>1, <1>2, ListBelow DEF StatementKind
<1>22. FramePlaced(Params, blocks', bindings', M, lo, Over(M, t), f)
  <2>1. f.kind \notin ExprKind
    BY <1>3 DEF ExprKind
  <2>2. \A b : ~Awaits(f, b)
    BY <1>3 DEF Awaits
  <2>3. /\ h.reaches /\ ~r => Over(M, h.end) \subseteq Over(M, t)
        /\ r /\ ~h.reaches => Over(M, cur) \subseteq Over(M, t)
    BY <1>13
  <2> QED
    BY <1>3, <1>18, <1>19, <1>20, <2>1, <2>2, <2>3 DEF FramePlaced, LoopKind
<1>23. fn' = fn /\ status' = "lowering" /\ lo \subseteq Over(M, t)
  BY <1>1, <1>11, <1>13
<1> HIDE DEF T
<1>24. Over(M, t) = Over(M, cur') /\ Len(ctrl') = k + 1 /\ ctrl'[k + 1] = f
  BY <1>1, <1>6
<1>25. lev[k] \subseteq lo
  OBVIOUS
<1> QED
  BY <1>2, <1>5, <1>13, <1>14, <1>15, <1>16, <1>17, <1>18, <1>21,
     <1>22, <1>23, <1>24, <1>25, PlacedTop

LEMMA AvailValue ==
  ASSUME NEW bs, NEW S, NEW s, AvailAll(Params, bs, S, s), NEW n \in AllName,
         s[n] # Invalid
  PROVE  AvailOperand(Params, bs, S, ValueOf(s[n]))
BY DEF AvailAll, AvailOperand, ValueOf, ValueOp

LEMMA AvailBind ==
  ASSUME NEW bs, NEW S, NEW s, AvailAll(Params, bs, S, s), NEW X,
         s \in [AllName -> X], NEW n, NEW id, AvailIn(Params, bs, S, id)
  PROVE  AvailAll(Params, bs, S, [s EXCEPT ![n] = id])
BY DEF AvailAll

\* The edges are the same.
LEMMA EdgesSame ==
  ASSUME TypeOK, SameSucc, NEW a, NEW b
  PROVE  Edge(blocks', a, b) <=> Edge(blocks, a, b)
BY StackFrames DEF SameSucc, Edge

LEMMA OneBelow ==
  ASSUME NEW k \in Nat, NEW a, NEW b, a = k + 1, b = k + 1
  PROVE  a - 1 = k /\ k <= b
OBVIOUS

\* The frame of a construct takes the place of the innermost one.
LEMMA StayPlaced ==
  ASSUME TypeOK, TypeOK', FlowInv, status = "lowering", NEW dom, NEW lev,
         Placed(dom, lev), Top.kind \in StatementKind, NEW f, Replace(f),
         \A b : Awaits(f, b) => Awaits(Top, b),
         NEW k, k = Len(ctrl) - 1,
         FramePlaced(Params, blocks', bindings', dom, lev[k], Over(dom, cur),
                     f),
         SameSucc, UNCHANGED <<fn, status, cur, dropped>>,
         DefsKept(blocks, blocks'), Uses(Params, blocks', dom, Nat),
         AvailAll(Params, blocks', Over(dom, cur), bindings')
  PROVE  DomInv'
<1>1. Lowering
  BY InLowering
<1>2. /\ Under(k) /\ Len(ctrl) = k + 1 /\ k # k + 1 /\ k \in Nat
  BY <1>1, ListBelow
<1>3. /\ Shape(k) /\ Len(ctrl') = k + 1 /\ ctrl'[k + 1] = f
      /\ \A i \in 1 .. k : ctrl'[i] = ctrl[i]
  BY ReplaceTop
<1>4. StackBelow
  <2>1. Len(ctrl') - 1 = k /\ k <= Len(ctrl)
    BY <1>2, <1>3, OneBelow, Zenon
  <2> QED
    BY <1>3, <2>1 DEF StackBelow
<1>5. \A b : Awaits(f, b) => Fresh(k, b)
  BY <1>2 DEF Fresh, Handed
<1>6. lev[k] \subseteq Over(dom, cur)
  BY TopPlaced
<1> QED
  BY <1>2, <1>3, <1>4, <1>5, <1>6, QuietPlaced

\* The loop over the names goes on.
LEMMA NextNamePlaced ==
  ASSUME TypeOK, TypeOK', FlowInv, status = "lowering", NEW dom, NEW lev,
         Placed(dom, lev), Top.kind \in {"MERGE", "HEADER"}, NextName,
         SameSucc, UNCHANGED <<fn, status, cur, dropped>>,
         DefsKept(blocks, blocks'), Uses(Params, blocks', dom, Nat),
         AvailAll(Params, blocks', Over(dom, cur), bindings')
  PROVE  DomInv'
<1> PICK k : k = Len(ctrl) - 1
  OBVIOUS
<1> PICK lo : lo = lev[k]
  OBVIOUS
<1> DEFINE f == [Top EXCEPT !.k = @ + 1]
<1>1. Replace(f)
  BY DEF NextName
<1>2. f.kind = Top.kind
  <2>1. /\ Top \in Frame(Len(values), Len(blocks), Len(names))
        /\ Len(values) \in Nat /\ Len(blocks) \in Nat /\ Len(names) \in Nat
    BY StackFrames DEF StackFrame
  <2>2. Top \in MergeFrame(Len(values), Len(blocks), Len(names))
                \cup HeaderFrame(Len(values), Len(blocks), Len(names))
    BY <2>1, FrameByKind
  <2> QED
    BY <2>2 DEF MergeFrame, HeaderFrame
<1> HIDE DEF f
<1>3. ctrl'[Len(ctrl)] = f
  BY <1>1, ReplaceShape
<1>4. /\ f.incoming = Top.incoming
      /\ Top.kind = "MERGE" => f.then = Top.then /\ f.else = Top.else
      /\ Top.kind = "HEADER" => f.header = Top.header /\ f.pre = Top.pre
  BY <1>3, NextNameTop
<1>5. FramePlaced(Params, blocks, bindings, dom, lo, Over(dom, cur), Top)
  BY TopPlaced
<1>6. \A b : Awaits(f, b) <=> Awaits(Top, b)
  BY <1>2, <1>4 DEF Awaits
<1>7. AvailAll(Params, blocks', lo, f.incoming)
  <2>1. AvailAll(Params, blocks, lo, Top.incoming)
    BY <1>5 DEF FramePlaced, SnapshotKind
  <2> QED
    BY <1>4, <2>1, AvailKept
<1>8. \A b : Awaits(f, b) =>
        /\ b # 1 /\ Over(dom, b) = {}
        /\ \A a : Edge(blocks', a, b) => lo \subseteq Over(dom, a)
  BY <1>5, <1>6, EdgesSame DEF FramePlaced
<1>9. CASE Top.kind = "MERGE"
  <2>1. /\ EndPlaced(Params, blocks, dom, lo, Top.then)
        /\ EndPlaced(Params, blocks, dom, lo, Top.else)
        /\ Top.then.reaches /\ ~Top.else.reaches =>
             Over(dom, Top.then.end) \subseteq Over(dom, cur)
        /\ Top.else.reaches /\ ~Top.then.reaches =>
             Over(dom, Top.else.end) \subseteq Over(dom, cur)
    BY <1>5, <1>9 DEF FramePlaced
  <2>2. /\ EndPlaced(Params, blocks', dom, lo, Top.then)
        /\ EndPlaced(Params, blocks', dom, lo, Top.else)
    BY <2>1, EndKept
  <2>3. FramePlaced(Params, blocks', bindings', dom, lo, Over(dom, cur), f)
    BY <1>2, <1>4, <1>7, <1>8, <1>9, <2>1, <2>2
    DEF FramePlaced, ExprKind, LoopKind
  <2> QED
    BY <1>1, <1>6, <1>9, <2>3, StayPlaced DEF StatementKind
<1>10. CASE Top.kind = "HEADER"
  <2>1. /\ f.header # 1 /\ f.header \in Over(dom, f.header)
        /\ Over(dom, f.header) \subseteq Over(dom, cur)
        /\ lo \subseteq Over(dom, f.pre)
    BY <1>4, <1>5, <1>10 DEF FramePlaced, LoopKind
  <2>2. \A a, b : Awaits(f, b) => ~Edge(blocks', a, b)
    BY <1>5, <1>6, <1>10, EdgesSame DEF FramePlaced
  <2>3. FramePlaced(Params, blocks', bindings', dom, lo, Over(dom, cur), f)
    BY <1>2, <1>7, <1>8, <1>10, <2>1, <2>2
    DEF FramePlaced, ExprKind, LoopKind
  <2> QED
    BY <1>1, <1>6, <1>10, <2>3, StayPlaced DEF StatementKind
<1> QED
  BY <1>9, <1>10

\* A phi with operands available at its predecessors names its result.
LEMMA PhiPlaced ==
  ASSUME TypeOK, TypeOK', FlowInv, status = "lowering", NEW dom, NEW lev,
         Placed(dom, lev), Top.kind \in {"MERGE", "HEADER"}, NextName,
         UNCHANGED <<fn, status, cur, dropped>>,
         NEW n \in AllName, NEW t, NEW args, NEW blks,
         \A j \in DOMAIN args :
           AvailOperand(Params, blocks, Over(dom, blks[j]), args[j]),
         blocks' = Emit(blocks, cur, Phi(ValueOp(NextId, t), args, blks)),
         bindings' = [bindings EXCEPT ![n] = NextId]
  PROVE  DomInv'
<1> PICK id : id = NextId
  OBVIOUS
<1> DEFINE phi == Phi(ValueOp(id, t), args, blks)
<1>1. /\ phi.op = "PHI" /\ phi.args = args /\ phi.blks = blks
      /\ phi.dest.kind = "VALUE" /\ phi.dest.id = id
  BY DEF Phi, ValueOp
<1>2. blocks' = Emit(blocks, cur, phi)
  OBVIOUS
<1> HIDE DEF phi
<1>3. /\ cur \in 1 .. Len(blocks) /\ dom \subseteq dom
      /\ Uses(Params, blocks, dom, Nat) /\ cur \in Over(dom, cur)
      /\ AvailAll(Params, blocks, Over(dom, cur), bindings)
  BY StackFrames DEF Placed
<1>4. Supplied(Params, blocks, dom, cur, phi)
  BY <1>1 DEF Supplied
<1>5. /\ Uses(Params, blocks', dom, Nat) /\ DefsKept(blocks, blocks')
      /\ \A S : cur \in S => AvailOperand(Params, blocks', S, phi.dest)
  BY <1>2, <1>3, <1>4, EmitPlaced
<1>6. AvailIn(Params, blocks', Over(dom, cur), id)
  BY <1>1, <1>3, <1>5 DEF AvailOperand
<1>7. AvailAll(Params, blocks', Over(dom, cur), bindings')
  <2>1. AvailAll(Params, blocks', Over(dom, cur), bindings)
    BY <1>3, <1>5, AvailKept
  <2>2. bindings \in [AllName -> 0 .. Len(values)]
    BY DEF TypeOK, NamesType, Snapshot
  <2> DEFINE b == [bindings EXCEPT ![n] = id]
  <2>3. AvailAll(Params, blocks', Over(dom, cur), b)
    BY <1>6, <2>1, <2>2, AvailBind
  <2> QED
    BY <2>3
<1>8. SameSucc
  BY <1>2, <1>3, EmitSucc
<1> QED
  BY <1>5, <1>7, <1>8, NextNamePlaced

LEMMA MergeNamePlaced ==
  ASSUME TypeOK, TypeOK', FlowInv, NEW dom, NEW lev, Placed(dom, lev),
         MergeName
  PROVE  DomInv'
<1> DEFINE n     == names[Top.k]
           th    == Top.then.bound
           el    == Top.else.bound
           bound == /\ Top.incoming[n] # Invalid
                    /\ th[n] # Invalid /\ el[n] # Invalid
           both  == Top.then.reaches /\ Top.else.reaches
           type  == values[Top.incoming[n]].type
           args  == <<ValueOf(th[n]), ValueOf(el[n])>>
           blks  == <<Top.then.end, Top.else.end>>
           new   == bound /\ both /\ th[n] # el[n]
<1>1. /\ Top.kind = "MERGE" /\ status = "lowering" /\ NextName
      /\ UNCHANGED <<fn, status, cur, dropped>> /\ Top.k <= Top.count
  BY DEF MergeName, Active, runVars
<1>2. Top \in MergeFrame(Len(values), Len(blocks), Len(names))
  <2>1. Top \in Frame(Len(values), Len(blocks), Len(names))
        /\ Len(values) \in Nat /\ Len(blocks) \in Nat /\ Len(names) \in Nat
    BY StackFrames DEF StackFrame
  <2> QED
    BY <1>1, <2>1, FrameByKind
<1>3. n \in AllName
  BY <1>1, <1>2, StackFrames DEF MergeFrame, TypeOK, NamesType
<1> PICK k : k = Len(ctrl) - 1
  OBVIOUS
<1>4. FramePlaced(Params, blocks, bindings, dom, lev[k], Over(dom, cur), Top)
  BY TopPlaced
<1>5. /\ AvailAll(Params, blocks, Over(dom, Top.then.end), th)
      /\ AvailAll(Params, blocks, Over(dom, Top.else.end), el)
      /\ Top.then.reaches /\ ~Top.else.reaches =>
           Over(dom, Top.then.end) \subseteq Over(dom, cur)
      /\ Top.else.reaches /\ ~Top.then.reaches =>
           Over(dom, Top.else.end) \subseteq Over(dom, cur)
  BY <1>1, <1>4 DEF FramePlaced, EndPlaced
<1>6. /\ AvailAll(Params, blocks, Over(dom, cur), bindings)
      /\ Uses(Params, blocks, dom, Nat)
  BY DEF Placed
<1>7. CASE new
  <2>1. /\ blocks' = Emit(blocks, cur, Phi(ValueOp(NextId, type), args, blks))
        /\ bindings' = [bindings EXCEPT ![n] = NextId]
    BY <1>7 DEF MergeName
  <2>2. \A j \in DOMAIN args :
          AvailOperand(Params, blocks, Over(dom, blks[j]), args[j])
    <3>1. /\ AvailOperand(Params, blocks, Over(dom, Top.then.end),
                          ValueOf(th[n]))
          /\ AvailOperand(Params, blocks, Over(dom, Top.else.end),
                          ValueOf(el[n]))
      <4> HIDE DEF n, th, el
      <4> QED
        BY <1>3, <1>5, <1>7, AvailValue
    <3>2. \A j \in DOMAIN args : j = 1 \/ j = 2
      OBVIOUS
    <3> QED
      BY <3>1, <3>2
  <2> HIDE DEF n, type, args, blks, new
  <2> QED
    BY <1>1, <1>3, <2>1, <2>2, PhiPlaced
<1>8. CASE ~new
  <2>1. /\ bindings' =
              IF bound /\ Top.then.reaches /\ ~Top.else.reaches
              THEN [bindings EXCEPT ![n] = th[n]]
              ELSE IF bound /\ ~Top.then.reaches /\ Top.else.reaches
              THEN [bindings EXCEPT ![n] = el[n]]
              ELSE bindings
        /\ blocks' = blocks
    BY <1>8 DEF MergeName, valueVars
  <2>2. SameSucc /\ DefsKept(blocks, blocks')
    BY <2>1, EdgesKept, DefsSame
  <2>3. AvailAll(Params, blocks, Over(dom, cur), bindings')
    <3>1. bindings \in [AllName -> 0 .. Len(values)]
      BY DEF TypeOK, NamesType, Snapshot
    <3> HIDE DEF n, th, el
    <3>2. bound => /\ AvailIn(Params, blocks, Over(dom, Top.then.end), th[n])
                   /\ AvailIn(Params, blocks, Over(dom, Top.else.end), el[n])
      BY <1>3, <1>5 DEF AvailAll
    <3>3. CASE bound /\ Top.then.reaches /\ ~Top.else.reaches
      <4>1. bindings' = [bindings EXCEPT ![n] = th[n]]
        BY <2>1, <3>3
      <4>2. AvailIn(Params, blocks, Over(dom, cur), th[n])
        BY <1>5, <3>2, <3>3, DefsSame, AvailKept
      <4> QED
        BY <1>6, <3>1, <4>1, <4>2, AvailBind
    <3>4. CASE bound /\ ~Top.then.reaches /\ Top.else.reaches
      <4>1. bindings' = [bindings EXCEPT ![n] = el[n]]
        BY <2>1, <3>4
      <4>2. AvailIn(Params, blocks, Over(dom, cur), el[n])
        BY <1>5, <3>2, <3>4, DefsSame, AvailKept
      <4> QED
        BY <1>6, <3>1, <4>1, <4>2, AvailBind
    <3>5. CASE ~(bound /\ Top.then.reaches /\ ~Top.else.reaches)
               /\ ~(bound /\ ~Top.then.reaches /\ Top.else.reaches)
      <4>1. bindings' = bindings
        BY <2>1, <3>5
      <4> QED
        BY <1>6, <4>1
    <3> QED
      BY <3>3, <3>4, <3>5
  <2> QED
    BY <1>1, <1>6, <2>1, <2>2, <2>3, NextNamePlaced
<1> QED
  BY <1>7, <1>8

LEMMA IfStatementPlaced ==
  ASSUME TypeOK, TypeOK', FlowInv, SingleInv, NEW dom, NEW lev,
         Placed(dom, lev), IfStatement
  PROVE  DomInv'
<1>1. CASE BeginIf
  <2> DEFINE f == [kind |-> "IFCOND", wants |-> <<"BOOL">>, args |-> << >>]
  <2>1. /\ InList /\ ~blocks[cur].terminated /\ Push(f) /\ f.kind = "IFCOND"
        /\ f.args = << >> /\ UNCHANGED <<runVars, irVars, bindings>>
    BY <1>1 DEF BeginIf, StartStatement, NextStatement, nameVars
  <2> HIDE DEF f
  <2> QED
    BY <2>1, BeginStatementPlaced
<1>2. CASE DropIf \/ EndMerge
  <2>1. \E r : EndStatement(r)
    BY <1>2 DEF DropIf, EndMerge
  <2>2. /\ status = "lowering" /\ Top.kind \in StatementKind
        /\ dropped => dropped'
        /\ UNCHANGED <<fn, status, blocks, cur, bindings>>
    BY <1>2 DEF DropIf, EndMerge, Active, irVars, nameVars, runVars,
       StatementKind
  <2>3. SameSucc /\ DefsKept(blocks, blocks')
    BY <2>2, EdgesKept, DefsSame
  <2>4. /\ Uses(Params, blocks', dom, Nat)
        /\ AvailAll(Params, blocks', Over(dom, cur), bindings')
    BY <2>2 DEF Placed
  <2> QED
    BY <2>1, <2>2, <2>3, <2>4, EndStatementPlaced
<1> QED
  BY <1>1, <1>2, BranchIfPlaced, EndThenPlaced, EndElsePlaced,
     MergeNamePlaced
  DEF IfStatement

-----------------------------------------------------------------------------
(***************************************************************************)
(* emit_while                                                              *)
(***************************************************************************)

LEMMA HeaderNamePlaced ==
  ASSUME TypeOK, TypeOK', FlowInv, NEW dom, NEW lev, Placed(dom, lev),
         HeaderName
  PROVE  DomInv'
<1> DEFINE n    == names[Top.k]
           type == values[Top.incoming[n]].type
           args == <<ValueOf(Top.incoming[n])>>
           blks == <<Top.pre>>
<1>1. /\ Top.kind = "HEADER" /\ status = "lowering" /\ NextName
      /\ UNCHANGED <<fn, status, cur, dropped>> /\ Top.k <= Top.count
  BY DEF HeaderName, Active, runVars
<1>2. Top \in HeaderFrame(Len(values), Len(blocks), Len(names))
  <2>1. Top \in Frame(Len(values), Len(blocks), Len(names))
        /\ Len(values) \in Nat /\ Len(blocks) \in Nat /\ Len(names) \in Nat
    BY StackFrames DEF StackFrame
  <2> QED
    BY <1>1, <2>1, FrameByKind
<1>3. n \in AllName
  <2>1. names \in Seq(AllName)
    BY DEF TypeOK, NamesType
  <2>2. Top.k \in 1 .. Len(names)
    <3>1. Len(names) \in Nat
      BY StackFrames
    <3> QED
      BY <1>1, <1>2, <3>1 DEF HeaderFrame
  <2> QED
    BY <2>1, <2>2
<1> PICK k : k = Len(ctrl) - 1
  OBVIOUS
<1>4. FramePlaced(Params, blocks, bindings, dom, lev[k], Over(dom, cur), Top)
  BY TopPlaced
<1>5. AvailAll(Params, blocks, Over(dom, Top.pre), Top.incoming)
  <2>1. AvailAll(Params, blocks, lev[k], Top.incoming)
        /\ lev[k] \subseteq Over(dom, Top.pre)
    BY <1>1, <1>4 DEF FramePlaced, SnapshotKind
  <2> QED
    BY <2>1, DefsSame, AvailKept
<1>6. CASE Top.incoming[n] # Invalid
  <2>1. /\ blocks' = Emit(blocks, cur, Phi(ValueOp(NextId, type), args, blks))
        /\ bindings' = [bindings EXCEPT ![n] = NextId]
    BY <1>6 DEF HeaderName
  <2>2. \A j \in DOMAIN args :
          AvailOperand(Params, blocks, Over(dom, blks[j]), args[j])
    <3>1. AvailOperand(Params, blocks, Over(dom, Top.pre),
                       ValueOf(Top.incoming[n]))
      <4> HIDE DEF n
      <4> QED
        BY <1>3, <1>5, <1>6, AvailValue
    <3> QED
      BY <3>1
  <2> HIDE DEF n, type, args, blks
  <2> QED
    BY <1>1, <1>3, <2>1, <2>2, PhiPlaced
<1>7. CASE ~(Top.incoming[n] # Invalid)
  <2>1. UNCHANGED <<blocks, bindings>>
    BY <1>7 DEF HeaderName, nameVars
  <2>2. SameSucc /\ DefsKept(blocks, blocks')
    BY <2>1, EdgesKept, DefsSame
  <2>3. /\ Uses(Params, blocks', dom, Nat)
        /\ AvailAll(Params, blocks', Over(dom, cur), bindings')
    BY <2>1 DEF Placed
  <2> QED
    BY <1>1, <2>2, <2>3, NextNamePlaced
<1> QED
  BY <1>6, <1>7

LEMMA EndHeaderPlaced ==
  ASSUME TypeOK, TypeOK', FlowInv, NEW dom, NEW lev, Placed(dom, lev),
         EndHeader
  PROVE  DomInv'
<1> PICK k : k = Len(ctrl) - 1
  OBVIOUS
<1> PICK lo : lo = lev[k]
  OBVIOUS
<1> DEFINE f == [kind |-> "WHILECOND", wants |-> <<"BOOL">>, args |-> << >>,
                 incoming |-> Top.incoming, header |-> Top.header]
<1>1. /\ Top.kind = "HEADER" /\ status = "lowering" /\ Replace(f)
      /\ UNCHANGED <<fn, status, blocks, cur, bindings, dropped>>
  BY DEF EndHeader, Active, runVars, irVars, nameVars
<1>2. /\ f.kind = "WHILECOND" /\ f.header = Top.header /\ f.args = << >>
      /\ f.incoming = Top.incoming
  OBVIOUS
<1> HIDE DEF f
<1>3. SameSucc /\ DefsKept(blocks, blocks')
  BY <1>1, EdgesKept, DefsSame
<1>4. FramePlaced(Params, blocks, bindings, dom, lo, Over(dom, cur), Top)
  BY TopPlaced
<1>5. \A b : Awaits(f, b) <=> Awaits(Top, b)
  BY <1>1, <1>2 DEF Awaits
<1>6. FramePlaced(Params, blocks', bindings', dom, lo, Over(dom, cur), f)
  <2>1. /\ AvailAll(Params, blocks, lo, f.incoming)
        /\ f.header # 1 /\ f.header \in Over(dom, f.header)
        /\ Over(dom, f.header) \subseteq Over(dom, cur)
    BY <1>1, <1>2, <1>4 DEF FramePlaced, LoopKind, SnapshotKind
  <2>2. AvailArgs(Params, blocks, Over(dom, cur), f.args)
    BY <1>2, NoneAvail
  <2>3. \A a, b : Awaits(f, b) => ~Edge(blocks, a, b)
    BY <1>1, <1>4, <1>5 DEF FramePlaced
  <2>4. \A b : Awaits(f, b) =>
          /\ b # 1 /\ Over(dom, b) = {}
          /\ \A a : Edge(blocks, a, b) => lo \subseteq Over(dom, a)
    BY <1>4, <1>5 DEF FramePlaced
  <2> QED
    BY <1>1, <1>2, <2>1, <2>2, <2>3, <2>4 DEF FramePlaced
<1>7. /\ Uses(Params, blocks', dom, Nat)
      /\ AvailAll(Params, blocks', Over(dom, cur), bindings')
  BY <1>1 DEF Placed
<1> QED
  BY <1>1, <1>3, <1>5, <1>6, <1>7, StayPlaced DEF StatementKind

\* emit_while enters the header; the body and the block after it wait.
LEMMA BeginWhilePlaced ==
  ASSUME TypeOK, TypeOK', FlowInv, NEW dom, NEW lev, Placed(dom, lev),
         BeginWhile
  PROVE  DomInv'
<1> PICK k : k = Len(ctrl)
  OBVIOUS
<1> PICK m : m = Len(blocks)
  OBVIOUS
<1> PICK h : h = m + 1
  OBVIOUS
<1> PICK S : S = Over(dom, cur)
  OBVIOUS
<1> DEFINE wide == blocks \o <<NewBlock, NewBlock, NewBlock>>
           f    == [kind |-> "HEADER", k |-> 1, count |-> Len(names),
                    incoming |-> bindings, pre |-> cur, header |-> h]
<1>1. /\ blocks' = Branch(wide, cur, h) /\ cur' = h /\ Push(f)
      /\ UNCHANGED <<fn, status, bindings, dropped>>
      /\ Top.kind \in ListKind /\ ~blocks[cur].terminated
      /\ status = "lowering"
  BY DEF BeginWhile, StartStatement, NextStatement, InList, runVars, nameVars
<1>2. /\ Lowering /\ m \in Nat /\ Len(ctrl) \in Nat /\ k \in Nat /\ k # k + 1
      /\ k <= Len(ctrl)
  BY <1>1, InLowering, StackFrames
<1>3. /\ h \in 1 .. m + 3 /\ h > m /\ h + 1 > m /\ h + 2 > m
      /\ h \in Nat /\ h + 1 \in Nat /\ h + 2 \in Nat
      /\ h # h + 1 /\ h # h + 2
  BY <1>2
<1>4. /\ f.kind = "HEADER" /\ f.header = h /\ f.incoming = bindings
      /\ f.pre = cur
  OBVIOUS
<1> HIDE DEF f
<1>5. Opened(wide, m + 3)
  BY OpenedWide
<1> HIDE DEF wide
<1>6. NewEdges({h}) /\ Len(blocks') = m + 3
  BY <1>1, <1>3, <1>5, JumpEdges
<1>7. /\ Shape(k) /\ Len(ctrl') = k + 1 /\ ctrl'[k + 1] = f
      /\ \A i \in 1 .. k : ctrl'[i] = ctrl[i]
  BY <1>1, PushReturning, PushShape
<1>8. Fresh(k, h) /\ Fresh(k, h + 1) /\ Fresh(k, h + 2)
  BY <1>3 DEF Fresh
<1> PICK M : M = Entered(dom, h, S)
  OBVIOUS
<1>9. /\ \A a : ~Edge(blocks, a, h)
      /\ \A a : ~Edge(blocks', a, h + 1)
      /\ \A a : ~Edge(blocks', a, h + 2)
      /\ Over(dom, h + 1) = {} /\ Over(dom, h + 2) = {}
      /\ h # 1 /\ h + 1 # 1 /\ h + 2 # 1
  BY <1>3, <1>6, NewIsBare
<1>10. S \in SUBSET Nat /\ S = Over(dom, cur)
  BY DEF Over
<1>11. /\ Opens(k, dom, M) /\ dom \subseteq M /\ Over(M, h) = S \cup {h}
       /\ Over(M, h + 1) = {} /\ Over(M, h + 2) = {} /\ Over(M, cur) = S
  BY <1>1, <1>3, <1>8, <1>9, <1>10, EnterPlaced
<1>12. Reached(k, dom, M, {h})
  BY <1>8, <1>9, <1>10, <1>11 DEF Reached
<1>13. Turn(k)
  <2>1. \A b : Awaits(f, b) => b = h + 1 \/ b = h + 2
    BY <1>4 DEF Awaits
  <2> QED
    BY <1>1, <1>7, <1>8, <2>1 DEF Turn, Shape
<1>14. Uses(Params, blocks', M, Nat) /\ DefsKept(blocks, blocks')
  <2>1. /\ wide \in Seq(Block(Len(values), m + 3)) /\ Len(wide) = m + 3
        /\ Extends(blocks, wide) /\ m + 3 \in Nat
    BY <1>2, <1>5 DEF Opened
  <2>2. Len(values) \in Nat /\ Len(values) <= Len(values)
    BY StackFrames
  <2> QED
    BY <1>1, <1>3, <1>11, <2>1, <2>2, JumpCode
<1>15. StackBelow
  BY <1>2, <1>7 DEF StackBelow
<1>16. /\ AvailAll(Params, blocks', S, bindings)
       /\ AvailAll(Params, blocks', Over(M, h), bindings')
  <2>1. AvailAll(Params, blocks, S, bindings) /\ S \subseteq Over(M, h)
    BY <1>10, <1>11 DEF Placed
  <2>2. AvailAll(Params, blocks', S, bindings)
        /\ AvailAll(Params, blocks', Over(M, h), bindings)
    BY <1>14, <2>1, AvailKept
  <2> QED
    BY <1>1, <2>2
<1>17. lev[k] \subseteq S /\ S \subseteq Over(M, h)
  BY <1>2, <1>10, <1>11, LevelBelow
<1>18. FramePlaced(Params, blocks', bindings', M, S, Over(M, h), f)
  <2>1. \A b : Awaits(f, b) =>
          b # 1 /\ Over(M, b) = {} /\ \A a : ~Edge(blocks', a, b)
    BY <1>4, <1>9, <1>11 DEF Awaits
  <2>2. h \in Over(M, h)
    BY <1>11
  <2> QED
    BY <1>4, <1>9, <1>11, <1>16, <2>1, <2>2 DEF FramePlaced, ExprKind
<1>19. Under(k) /\ fn' = fn /\ status' = "lowering"
  BY <1>1 DEF Under
<1>20. \E new : Placed(M, new)'
  BY <1>1, <1>2, <1>6, <1>7, <1>11, <1>12, <1>13, <1>14, <1>15, <1>16, <1>17,
     <1>18, <1>19, PlacedStep
<1> QED
  BY <1>19, <1>20, StillPlaced

\* The condition of the loop decides between the body and the block after it.
LEMMA BranchWhilePlaced ==
  ASSUME TypeOK, TypeOK', FlowInv, SingleInv, NEW dom, NEW lev,
         Placed(dom, lev), BranchWhile
  PROVE  DomInv'
<1> PICK k : k = Len(ctrl) - 1
  OBVIOUS
<1> PICK h : h = Top.header
  OBVIOUS
<1> PICK c : c = h + 1
  OBVIOUS
<1> PICK e : e = h + 2
  OBVIOUS
<1> PICK T : T = {c, e}
  OBVIOUS
<1> PICK S : S = Over(dom, cur)
  OBVIOUS
<1> PICK lo : lo = lev[k]
  OBVIOUS
<1> DEFINE f == [kind |-> "LOOP", rets |-> FALSE, incoming |-> Top.incoming,
                 bound |-> bindings, header |-> h]
<1>1. /\ Top.kind = "WHILECOND" /\ Complete /\ status = "lowering"
      /\ \/ Fail(WhileType)
         \/ /\ blocks' = CondBranch(blocks, cur, Top.args[1], c, e)
            /\ cur' = c /\ Replace(f)
            /\ UNCHANGED <<fn, status, bindings, dropped>>
  BY DEF BranchWhile, Active, runVars, nameVars
<1>2. CASE Fail(WhileType)
  BY <1>2, FailPlaced DEF Error
<1>3. CASE /\ blocks' = CondBranch(blocks, cur, Top.args[1], c, e)
           /\ cur' = c /\ Replace(f)
           /\ UNCHANGED <<fn, status, bindings, dropped>>
  <2>1. /\ Lowering /\ ~blocks[cur].terminated
        /\ Len(ctrl) \in Nat /\ Len(ctrl) = k + 1 /\ Len(ctrl) >= 1
        /\ Len(ctrl) \in 1 .. Len(ctrl) /\ Top = ctrl[Len(ctrl)]
    BY <1>1, InLowering, StackFrames DEF ListKind
  <2>2. /\ c \in 1 .. Len(blocks) /\ e \in 1 .. Len(blocks)
        /\ h \in 1 .. Len(blocks)
    BY <1>1, <2>1, FrameBlocks
  <2>3. c # e /\ k \in Nat /\ k <= Len(ctrl) /\ k # k + 1
    BY <2>1, <2>2
  <2>4. /\ Top.args[1] \in Operand(Len(values))
        /\ AvailOperand(Params, blocks, Over(dom, cur), Top.args[1])
    <3>1. Top.kind \in ExprKind
      BY <1>1 DEF ExprKind
    <3>2. 1 \in DOMAIN Top.args /\ Top.args[1] \in Operand(Len(values))
      BY <1>1, <3>1, FirstOperand
    <3> QED
      BY <3>1, <3>2, TopArgs DEF AvailArgs
  <2>5. /\ f.kind = "LOOP" /\ f.header = h /\ f.incoming = Top.incoming
        /\ f.bound = bindings
    OBVIOUS
  <2> HIDE DEF f
  <2>6. NewEdges(T) /\ Len(blocks') = Len(blocks)
    BY <1>3, <1>1, <2>1, <2>2, <2>3, <2>4, OpenedSame, SplitEdges
  <2>7. /\ Shape(k) /\ Len(ctrl') = k + 1 /\ ctrl'[k + 1] = f
        /\ \A i \in 1 .. k : ctrl'[i] = ctrl[i]
    BY <1>3, ReplaceTop
  <2>8. Awaits(Top, c) /\ Awaits(Top, e)
    BY <1>1 DEF Awaits
  <2>9. Fresh(k, c) /\ Fresh(k, e)
    BY <2>1, <2>8 DEF Fresh, Handed
  <2>10. /\ FramePlaced(Params, blocks, bindings, dom, lo, S, Top)
         /\ lo \subseteq S
    BY TopPlaced
  <2>11. /\ \A b : b \in {c, e} =>
              b # 1 /\ Over(dom, b) = {} /\ \A a : ~Edge(blocks, a, b)
         /\ AvailAll(Params, blocks, lo, Top.incoming)
         /\ h # 1 /\ h \in Over(dom, h) /\ Over(dom, h) \subseteq S
    BY <1>1, <2>8, <2>10 DEF FramePlaced, SnapshotKind, LoopKind
  <2> PICK M : M = Entered(dom, c, S)
    OBVIOUS
  <2>12. S \in SUBSET Nat /\ S = Over(dom, cur)
    BY DEF Over
  <2>13. /\ Opens(k, dom, M) /\ dom \subseteq M /\ Over(M, c) = S \cup {c}
         /\ Over(M, e) = {} /\ Over(M, cur) = S /\ Over(M, h) = Over(dom, h)
    <3>1. h # c /\ e # c /\ c = cur'
      BY <1>3, <2>3, <2>11
    <3>2. /\ Over(dom, c) = {} /\ Over(dom, e) = {}
          /\ \A a : Edge(blocks, a, c) => S \subseteq Over(dom, a)
      BY <2>11
    <3>3. /\ Opens(k, dom, M) /\ dom \subseteq M /\ Over(M, c) = S \cup {c}
          /\ \A x : x # c => Over(M, x) = Over(dom, x)
          /\ c # cur
      BY <2>9, <2>12, <3>1, <3>2, EnterPlaced
    <3> QED
      BY <2>12, <3>1, <3>2, <3>3
  <2>14. Reached(k, dom, M, T)
    BY <2>9, <2>11, <2>12, <2>13 DEF Reached
  <2>15. Turn(k)
    <3>1. \A b : Awaits(f, b) => b = e
      BY <2>5 DEF Awaits
    <3> QED
      BY <1>3, <2>7, <2>9, <3>1 DEF Turn, Shape
  <2>16. Uses(Params, blocks', M, Nat) /\ DefsKept(blocks, blocks')
    BY <1>3, <2>2, <2>3, <2>4, <2>13, OpenedSame, SplitCode
  <2>17. StackBelow
    BY <2>1, <2>7 DEF StackBelow
  <2>18. /\ AvailAll(Params, blocks', S, bindings)
         /\ AvailAll(Params, blocks', Over(M, c), bindings')
         /\ AvailAll(Params, blocks', S, Top.incoming)
    <3>1. AvailAll(Params, blocks, S, bindings)
      BY <2>12 DEF Placed
    <3>2. lo \subseteq S /\ S \subseteq Over(M, c)
      BY <2>10, <2>13
    <3>3. AvailAll(Params, blocks', S, bindings)
          /\ AvailAll(Params, blocks', Over(M, c), bindings)
      BY <2>16, <3>1, <3>2, AvailKept
    <3>4. AvailAll(Params, blocks', S, Top.incoming)
      BY <2>11, <2>16, <3>2, AvailKept
    <3> QED
      BY <1>3, <3>3, <3>4
  <2>19. lev[k] \subseteq S /\ S \subseteq Over(M, c)
    BY <2>10, <2>13
  <2>20. FramePlaced(Params, blocks', bindings', M, S, Over(M, c), f)
    <3>1. f.kind \notin ExprKind
      BY <2>5 DEF ExprKind
    <3>2. ASSUME NEW b, Awaits(f, b)
          PROVE  /\ b # 1 /\ Over(M, b) = {}
                 /\ \A a : Edge(blocks', a, b) => S \subseteq Over(M, a)
      <4>1. b = e
        BY <2>5, <3>2 DEF Awaits
      <4>2. \A a : Edge(blocks', a, e) => a = cur
        BY <2>6, <2>11, EdgesAfter
      <4> QED
        BY <2>11, <2>13, <4>1, <4>2
    <3>3. Over(M, h) \subseteq S /\ h \in Over(M, h)
      BY <2>11, <2>13
    <3> QED
      BY <2>5, <2>11, <2>18, <3>1, <3>2, <3>3 DEF FramePlaced
  <2>21. Under(k) /\ fn' = fn /\ status' = "lowering"
    BY <1>1, <1>3 DEF Under
  <2>22. Over(M, c) = Over(M, cur') /\ Len(ctrl') = k + 1
         /\ ctrl'[k + 1] = f
    BY <1>3, <2>7
  <2> QED
    BY <2>1, <2>3, <2>6, <2>13, <2>14, <2>15, <2>16, <2>17, <2>18,
       <2>19, <2>20, <2>21, <2>22, PlacedTop
<1> QED
  BY <1>1, <1>2, <1>3

\* The phi that chooses between the operands of a connective.
LEMMA LogicCode ==
  ASSUME TypeOK, TypeOK', NEW dom, NEW lev, Placed(dom, lev), NEW M,
         dom \subseteq M, ValuesKept, NEW t \in 1 .. Len(blocks), NEW phi,
         blocks' = Emit(Branch(blocks, cur, t), t, phi),
         phi.op = "PHI",
         \A j \in DOMAIN phi.args :
           AvailOperand(Params, blocks, Over(M, phi.blks[j]), phi.args[j])
  PROVE  /\ Uses(Params, blocks', M, Nat) /\ DefsKept(blocks, blocks')
         /\ \A S : t \in S => AvailOperand(Params, blocks', S, phi.dest)
<1> PICK mid : mid = Branch(blocks, cur, t)
  OBVIOUS
<1> DEFINE n   == Len(values')
           m   == Len(blocks)
           new == blocks'
<1>1. new = Emit(mid, t, phi)
  OBVIOUS
<1>2. /\ m \in Nat /\ n \in Nat /\ Len(values) <= n
      /\ blocks \in Seq(Block(n, m)) /\ Extends(blocks, blocks)
  <2>1. /\ m \in Nat /\ Len(values) \in Nat
        /\ blocks \in Seq(Block(Len(values), m))
    BY StackFrames
  <2>2. n \in Nat /\ Len(values) <= n
    BY DEF TypeOK, NamesType, Values, ValuesKept
  <2>3. Seq(Block(Len(values), m)) \subseteq Seq(Block(n, m))
    BY <2>1, <2>2, BlockGrows, SeqGrows
  <2> QED
    BY <2>1, <2>2, <2>3 DEF Extends
<1> HIDE DEF n, new
<1>3. t \in 1 .. m /\ mid = Branch(blocks, cur, t) /\ Len(blocks) = m
  OBVIOUS
<1> HIDE DEF m
<1>4. /\ Uses(Params, mid, M, Nat) /\ DefsKept(blocks, mid)
      /\ mid \in Seq(Block(n, m)) /\ Len(mid) = m
  <2>1. /\ Len(blocks) \in Nat /\ blocks \in Seq(Block(n, Len(blocks)))
        /\ Extends(blocks, blocks) /\ n \in Nat /\ Len(values) <= n
    BY <1>2, <1>3
  <2>2. /\ Uses(Params, Branch(blocks, cur, t), M, Nat)
        /\ DefsKept(blocks, Branch(blocks, cur, t))
        /\ Branch(blocks, cur, t) \in Seq(Block(n, Len(blocks)))
        /\ Len(Branch(blocks, cur, t)) = Len(blocks)
    BY <2>1, JumpCode
  <2> QED
    BY <1>3, <2>2
<1>5. Emitted(mid, new, t, phi) /\ t \in 1 .. Len(mid)
  <2>1. t \in 1 .. Len(mid)
    BY <1>3, <1>4
  <2> QED
    BY <1>1, <1>4, <2>1, EmitOn
<1>6. new \in Seq(Block(n, m)) /\ t \in 1 .. Len(new)
  <2>1. Len(new) = m
    BY <1>4, <1>5 DEF Emitted
  <2> QED
    BY <1>3, <2>1 DEF TypeOK, IRType, new, n
<1>7. SiteAdded(mid, new, phi)
  <2>1. CodeAdded(mid, new, t, phi)
    BY <1>2, <1>4, <1>5 DEF Emitted, CodeAdded
  <2> QED
    BY <1>2, <1>4, <1>5, <1>6, <2>1, SitesAdded
<1>8. AddedLast(mid, new, t, phi)
  <2>1. new[t].code = Append(mid[t].code, phi)
    BY <1>5 DEF Emitted
  <2> QED
    BY <1>2, <1>4, <1>5, <1>6, <1>7, <2>1, AddedIsLast
<1>9. Supplied(Params, mid, M, t, phi)
  <2>1. \A j \in DOMAIN phi.args :
          AvailOperand(Params, mid, Over(M, phi.blks[j]), phi.args[j])
    <3> SUFFICES ASSUME NEW j \in DOMAIN phi.args
                 PROVE  AvailOperand(Params, mid, Over(M, phi.blks[j]),
                                     phi.args[j])
      OBVIOUS
    <3> PICK o : o = phi.args[j]
      OBVIOUS
    <3> PICK V : V = Over(M, phi.blks[j])
      OBVIOUS
    <3>1. DefsKept(blocks, mid) /\ AvailOperand(Params, blocks, V, o)
      BY <1>4
    <3>2. AvailOperand(Params, mid, V, o)
      <4>1. V \subseteq V
        OBVIOUS
      <4> QED
        BY <3>1, <4>1, AvailKept
    <3> QED
      BY <3>2
  <2> QED
    BY <2>1 DEF Supplied
<1>10. /\ Uses(Params, new, M, Nat) /\ DefsKept(mid, new)
       /\ \A S : t \in S => AvailOperand(Params, new, S, phi.dest)
  BY <1>4, <1>8, <1>9, UsesAdded
<1>11. DefsKept(blocks, new)
  BY <1>4, <1>10, DefsTwice
<1> QED
  BY <1>10, <1>11 DEF new

LEMMA FinishLogicPlaced ==
  ASSUME TypeOK, TypeOK', FlowInv, SingleInv, NEW dom, NEW lev,
         Placed(dom, lev), FinishLogic
  PROVE  DomInv'
<1> PICK k : k = Len(ctrl) - 1
  OBVIOUS
<1> PICK t : t = Top.merge
  OBVIOUS
<1> PICK S : S = lev[k]
  OBVIOUS
<1> PICK M : M = Entered(dom, t, S)
  OBVIOUS
<1> PICK U : U = Over(M, t)
  OBVIOUS
<1> DEFINE r     == Result(Top.target, "BOOL")
           short == LitOp("BOOL", IF Top.isOr THEN 1 ELSE 0)
           o     == Top.args[1]
           phi   == Phi(r, <<short, o>>, <<Top.decision, cur>>)
<1>1. /\ Top.kind = "RIGHT" /\ status = "lowering" /\ Complete
      /\ NewResult(Top.target, "BOOL")
      /\ blocks' = Emit(Branch(blocks, cur, t), t, phi) /\ cur' = t
      /\ Return(r) /\ UNCHANGED <<fn, status, bindings, dropped>>
  BY DEF FinishLogic, Active, runVars
<1>2. /\ Lowering /\ ~blocks[cur].terminated
      /\ Len(ctrl) \in 1 .. Len(ctrl) /\ Top = ctrl[Len(ctrl)]
      /\ IsOperand
  BY <1>1, InLowering, StackFrames DEF ListKind, IsOperand, OperandKind
<1>3. /\ k \in 1 .. Len(ctrl) /\ k \in Nat /\ k <= Len(ctrl) /\ k # k + 1
      /\ Len(ctrl) \in Nat /\ k - 1 = Len(ctrl) - 2 /\ Len(ctrl) = k + 1
      /\ ctrl[k].kind \in ExprKind /\ Top.kind # "FBODY" /\ Caller = ctrl[k]
  BY <1>2, StackFrames, OperandCaller DEF IsOperand, Caller
<1>4. t \in 1 .. Len(blocks)
  BY <1>1, <1>2, FrameBlocks
<1>5. /\ phi.dest = r /\ phi.op = "PHI" /\ phi.args = <<short, o>>
      /\ phi.blks = <<Top.decision, cur>> /\ short.kind # "VALUE"
  BY DEF Phi, LitOp
<1> HIDE DEF phi, r
<1>6. NewEdges({t})
  BY <1>1, <1>2, <1>4, LogicEdges
<1>7. Shape(k) /\ Len(ctrl') = k
  BY <1>1, <1>2, ReturnReturning DEF IsOperand, Caller
<1>8. /\ \A i \in 1 .. k - 1 : ctrl'[i] = ctrl[i]
      /\ ctrl'[k].args = Append(ctrl[k].args, r)
  BY <1>1, <1>3, ReturnShape
<1>9. StackBelow
  <2>1. Len(ctrl') - 1 = k - 1 /\ k - 1 <= Len(ctrl)
    BY <1>3, <1>7
  <2> QED
    BY <1>8, <2>1 DEF StackBelow
<1>10. Awaits(Top, t)
  BY <1>1 DEF Awaits
<1>11. Fresh(k, t)
  BY <1>3, <1>10 DEF Fresh, Handed
<1>12. /\ FramePlaced(Params, blocks, bindings, dom, S, Over(dom, cur), Top)
       /\ S \subseteq Over(dom, cur) /\ S \in SUBSET Nat
  BY TopPlaced
<1>13. /\ t # 1 /\ Over(dom, t) = {}
       /\ \A a : Edge(blocks, a, t) => S \subseteq Over(dom, a)
       /\ AvailAll(Params, blocks, S, bindings)
  BY <1>1, <1>10, <1>12 DEF FramePlaced
<1>14. /\ Opens(k, dom, M) /\ dom \subseteq M /\ U = S \cup {t}
       /\ Over(M, cur) = Over(dom, cur)
  BY <1>1, <1>11, <1>12, <1>13, EnterPlaced
<1>15. Reached(k, dom, M, {t})
  BY <1>11, <1>12, <1>13, <1>14 DEF Reached
<1>16. Turn(k)
  BY <1>1, <1>3, <1>7, <1>11 DEF Turn, Shape
<1>17. AvailOperand(Params, blocks, Over(M, cur), o)
  <2>1. Top.kind \in ExprKind
    BY <1>1 DEF ExprKind
  <2>2. 1 \in DOMAIN Top.args
    BY <1>1, <2>1, FirstOperand
  <2> QED
    BY <1>14, <2>1, <2>2, TopArgs DEF AvailArgs
<1>18. \A j \in DOMAIN phi.args :
         AvailOperand(Params, blocks, Over(M, phi.blks[j]), phi.args[j])
  <2>1. AvailOperand(Params, blocks, Over(M, Top.decision), short)
    BY <1>5 DEF AvailOperand
  <2> HIDE DEF short, o
  <2>2. \A j \in DOMAIN phi.args : j = 1 \/ j = 2
    BY <1>5
  <2> QED
    BY <1>5, <1>17, <2>1, <2>2
<1>19. ValuesKept
  BY <1>1, NewResultKeeps
<1>20. /\ Uses(Params, blocks', M, Nat) /\ DefsKept(blocks, blocks')
       /\ AvailOperand(Params, blocks', U, r)
  <2>1. t \in U
    BY <1>14
  <2> QED
    BY <1>1, <1>4, <1>5, <1>14, <1>18, <1>19, <2>1, LogicCode
<1>21. lev[k] \subseteq U /\ U = Over(M, cur')
  BY <1>1, <1>14
<1>22. AvailAll(Params, blocks', U, bindings')
  BY <1>1, <1>13, <1>14, <1>20, AvailKept
<1>23. AvailArgs(Params, blocks', U, ctrl'[k].args)
  <2>1. AvailArgs(Params, blocks, lev[k], ctrl[k].args)
    BY <1>3 DEF Placed, FramePlaced
  <2>2. AvailArgs(Params, blocks', U, ctrl[k].args)
    BY <1>20, <1>21, <2>1, AvailKept
  <2>3. ctrl[k].args \in Seq(Operand(Len(values)))
    BY <1>3, FrameArgs
  <2>4. AvailArgs(Params, blocks', U, Append(ctrl[k].args, r))
    BY <1>20, <2>2, <2>3, AvailAppend
  <2> QED
    BY <1>8, <2>4
<1>24. Under(k) /\ fn' = fn /\ status' = "lowering"
  BY <1>1 DEF Under
<1> QED
  BY <1>2, <1>3, <1>6, <1>7, <1>9, <1>14, <1>15, <1>16, <1>20, <1>21, <1>22,
     <1>23, <1>24, PlacedBelow

-----------------------------------------------------------------------------
(***************************************************************************)
(* The end of a loop: its phis receive the values that the body carries    *)
(* back.                                                                   *)
(***************************************************************************)

\* Some phis get an entry for block b.
LEMMA UsesEntered ==
  ASSUME NEW P, NEW bs, NEW new, Positions(new) = Positions(bs), NEW dom,
         NEW R, Uses(P, bs, dom, R), NEW b, NEW n \in Nat, NEW m \in Nat,
         \A q \in Positions(bs) :
           \/ At(new, q) = At(bs, q)
           \/ /\ At(bs, q) \in Instr(n, m) /\ At(bs, q).op = "PHI"
              /\ Len(At(bs, q).args) = Len(At(bs, q).blks)
              /\ \E o : /\ At(new, q) = PhiEntry(At(bs, q), o, b)
                        /\ AvailOperand(P, bs, Over(dom, b), o)
  PROVE  Uses(P, new, dom, R) /\ DefsKept(bs, new)
<1>1. ASSUME NEW q \in Positions(bs)
      PROVE  At(new, q).dest = At(bs, q).dest
  BY PhiEntryParts
<1>2. DefsKept(bs, new)
  BY <1>1 DEF DefsKept, DefSites, Defines
<1>3. ASSUME NEW u \in Positions(new), NEW j \in DOMAIN At(new, u).args
      PROVE  UseFits(P, new, dom, R, u, j)
  <2>1. CASE At(new, u) = At(bs, u)
    <3>1. UseFits(P, bs, dom, R, u, j)
      BY <2>1 DEF Uses
    <3>2. dom \subseteq dom
      OBVIOUS
    <3> QED
      BY <1>2, <2>1, <3>1, <3>2, FitsKept
  <2>2. CASE At(new, u) # At(bs, u)
    <3> DEFINE old  == At(bs, u)
               args == old.args
               blks == old.blks
    <3>1. PICK o : /\ At(new, u) = PhiEntry(old, o, b)
                   /\ AvailOperand(P, bs, Over(dom, b), o)
      BY <2>2
    <3>2. /\ old \in Instr(n, m) /\ old.op = "PHI" /\ Len(args) = Len(blks)
          /\ u \in Positions(bs)
      BY <2>2
    <3>3. /\ At(new, u).op = "PHI" /\ At(new, u).args = Append(args, o)
          /\ At(new, u).blks = Append(blks, b)
      BY <3>1, <3>2, PhiEntryParts
    <3>4. /\ args \in Seq(Operand(n)) /\ blks \in Seq(1 .. m)
      BY <3>2 DEF Instr
    <3>5. /\ \A i \in DOMAIN args : UseFits(P, bs, dom, R, u, i)
      BY <3>2 DEF Uses
    <3>6. \A i \in DOMAIN args :
            AvailOperand(P, bs, Over(dom, blks[i]), args[i])
      BY <3>2, <3>5 DEF UseFits
    <3> HIDE DEF old, args, blks
    <3>7. /\ DOMAIN Append(args, o) = 1 .. Len(args) + 1 /\ Len(args) \in Nat
          /\ DOMAIN args = 1 .. Len(args)
          /\ \A i \in 1 .. Len(args) : Append(args, o)[i] = args[i]
          /\ Append(args, o)[Len(args) + 1] = o
      BY <3>4, AppendParts
    <3>8. /\ \A i \in 1 .. Len(blks) : Append(blks, b)[i] = blks[i]
          /\ Append(blks, b)[Len(blks) + 1] = b
      BY <3>4, AppendParts
    <3>9. j \in 1 .. Len(args) \/ j = Len(args) + 1
      BY <3>3, <3>7
    <3>10. AvailOperand(P, bs, Over(dom, At(new, u).blks[j]),
                        At(new, u).args[j])
      BY <3>1, <3>2, <3>3, <3>6, <3>7, <3>8, <3>9 DEF args, blks
    <3> PICK a : a = At(new, u).args[j]
      OBVIOUS
    <3> PICK V : V = Over(dom, At(new, u).blks[j])
      OBVIOUS
    <3>11. AvailOperand(P, new, V, a)
      <4>1. AvailOperand(P, bs, V, a)
        BY <3>10
      <4> QED
        BY <1>2, <4>1, AvailKept
    <3> QED
      BY <3>3, <3>11 DEF UseFits
  <2> QED
    BY <2>1, <2>2
<1> QED
  BY <1>2, <1>3 DEF Uses

LEMMA CloseLoopCode ==
  ASSUME TypeOK, Top.kind = "LOOP", NEW bs,
         bs \in Seq(Block(Len(values), Len(blocks))), Len(bs) = Len(blocks),
         bs[Top.header].code = blocks[Top.header].code, Flow,
         NEW dom, Uses(Params, bs, dom, Nat),
         AvailAll(Params, bs, Over(dom, cur), bindings),
         AvailAll(Params, bs, Over(dom, cur), Top.incoming),
         NEW new, new = CloseLoop(bs, Top.header)
  PROVE  Uses(Params, new, dom, Nat) /\ DefsKept(bs, new)
<1> DEFINE n == Len(values)
           m == Len(blocks)
           h == Top.header
<1>1. n \in Nat /\ m \in Nat /\ DOMAIN blocks = 1 .. m
  BY StackFrames
<1>2. h \in 1 .. m
  <2>1. Len(ctrl) \in 1 .. Len(ctrl) /\ Top = ctrl[Len(ctrl)]
    BY StackFrames
  <2> QED
    BY <2>1, FrameBlocks
<1>3. ASSUME NEW q \in Positions(bs)
      PROVE  \/ At(new, q) = At(bs, q)
             \/ /\ At(bs, q) \in Instr(n, m) /\ At(bs, q).op = "PHI"
                /\ Len(At(bs, q).args) = Len(At(bs, q).blks)
                /\ \E o : /\ At(new, q) = PhiEntry(At(bs, q), o, cur)
                          /\ AvailOperand(Params, bs, Over(dom, cur), o)
  <2> DEFINE instr == At(bs, q)
             v     == BackEdgeValue(instr.dest.id)
  <2> SUFFICES ASSUME At(new, q) # instr
               PROVE  /\ instr \in Instr(n, m) /\ instr.op = "PHI"
                      /\ Len(instr.args) = Len(instr.blks)
                      /\ \E o : /\ At(new, q) = PhiEntry(instr, o, cur)
                                /\ AvailOperand(Params, bs, Over(dom, cur), o)
    OBVIOUS
  <2>1. /\ \E i \in DOMAIN blocks[h].code : instr = blocks[h].code[i]
        /\ instr \in Instr(n, m)
        /\ instr.op = "PHI" /\ v # Invalid
        /\ At(new, q) = PhiEntry(instr, ValueOf(v), cur)
    BY CloseLoopGrows
  <2>2. Len(instr.args) = Len(instr.blks)
    BY <1>1, <1>2, <2>1 DEF Flow, FlowOf, BlockFlow
  <2>3. values[instr.dest.id].name \in AllName
    <3>1. instr.dest.id \in 1 .. Len(values)
      BY <1>1, <2>1, PhiDest
    <3>2. \A k \in 1 .. Len(values) : values[k].name \in AllName
      BY ValueOfType DEF TypeOK
    <3> QED
      BY <3>1, <3>2
  <2> HIDE DEF instr
  <2>4. AvailIn(Params, bs, Over(dom, cur), v)
    BY <2>1, <2>3 DEF BackEdgeValue, AvailAll
  <2> HIDE DEF v
  <2>5. AvailOperand(Params, bs, Over(dom, cur), ValueOf(v))
    BY <2>4 DEF AvailOperand, ValueOf, ValueOp
  <2> QED
    BY <2>1, <2>2, <2>5
<1>4. Positions(new) = Positions(bs)
  BY CloseLoopGrows
<1> HIDE DEF n, m, h
<1> QED
  BY <1>1, <1>3, <1>4, UsesEntered

LEMMA LoopCode ==
  ASSUME TypeOK, FlowInv, status = "lowering", Top.kind = "LOOP",
         NEW h, h = Top.header, NEW dom, NEW lev, Placed(dom, lev), NEW M,
         dom \subseteq M, Over(M, cur) = Over(dom, cur),
         blocks' = IF blocks[cur].terminated THEN blocks
                   ELSE CloseLoop(Branch(blocks, cur, h), h)
  PROVE  Uses(Params, blocks', M, Nat) /\ DefsKept(blocks, blocks')
<1> PICK br : br = Branch(blocks, cur, h)
  OBVIOUS
<1> PICK n : n = Len(values)
  OBVIOUS
<1> PICK m : m = Len(blocks)
  OBVIOUS
<1> PICK k : k = Len(ctrl) - 1
  OBVIOUS
<1>1. /\ m \in Nat /\ n \in Nat /\ blocks \in Seq(Block(n, m))
      /\ n <= n /\ m <= m /\ Extends(blocks, blocks) /\ cur \in 1 .. m
  BY StackFrames DEF Extends
<1>2. /\ Len(ctrl) \in 1 .. Len(ctrl) /\ Len(ctrl) \in DOMAIN ctrl
      /\ Top = ctrl[Len(ctrl)] /\ Lowering /\ Flow
  BY StackFrames, InLowering
<1>3. h \in 1 .. m /\ blocks[h].terminated
  BY <1>2, FrameBlocks DEF Lowering, FrameFlow, FlowIn
<1>4. CASE blocks[cur].terminated
  <2>1. blocks' = blocks
    BY <1>4
  <2>2. Uses(Params, blocks, dom, Nat) /\ SameSites(blocks, blocks)
    BY DEF Placed, SameSites
  <2>3. Uses(Params, blocks, M, Nat) /\ DefsKept(blocks, blocks)
    BY <2>2, UsesSame
  <2> QED
    BY <2>1, <2>3
<1>5. CASE ~blocks[cur].terminated
  <2>1. h # cur /\ blocks' = CloseLoop(br, h)
    BY <1>3, <1>5
  <2>2. Branched(blocks, br, cur, h)
    BY <1>1, <1>3, BranchEffect
  <2>3. br[h].code = blocks[h].code
    BY <1>3, <2>1, <2>2 DEF Branched
  <2>4. /\ Uses(Params, br, M, Nat) /\ DefsKept(blocks, br)
        /\ br \in Seq(Block(n, m)) /\ Len(br) = m
    BY <1>1, <1>3, JumpCode
  <2>5. /\ FramePlaced(Params, blocks, bindings, dom, lev[k], Over(dom, cur),
                       Top)
        /\ lev[k] \subseteq Over(dom, cur)
    BY TopPlaced
  <2>6. /\ AvailAll(Params, blocks, lev[k], Top.incoming)
        /\ AvailAll(Params, blocks, Over(dom, cur), bindings)
    BY <2>5 DEF FramePlaced, SnapshotKind, Placed
  <2>7. /\ AvailAll(Params, br, Over(M, cur), Top.incoming)
        /\ AvailAll(Params, br, Over(M, cur), bindings)
    BY <2>4, <2>5, <2>6, AvailKept
  <2>8. Uses(Params, blocks', M, Nat) /\ DefsKept(br, blocks')
    BY <1>2, <2>1, <2>3, <2>4, <2>7, CloseLoopCode
  <2> QED
    BY <2>4, <2>8, DefsTwice
<1> QED
  BY <1>4, <1>5

\* The block after the loop is entered with what was bound at its header.
LEMMA EndLoopPlaced ==
  ASSUME TypeOK, TypeOK', FlowInv, NEW dom, NEW lev, Placed(dom, lev),
         EndLoop
  PROVE  DomInv'
<1> PICK k : k = Len(ctrl) - 1
  OBVIOUS
<1> PICK h : h = Top.header
  OBVIOUS
<1> PICK c : c = h + 2
  OBVIOUS
<1> PICK T : T = JoinTargets(h)
  OBVIOUS
<1> PICK S : S = lev[k]
  OBVIOUS
<1> PICK M : M = Entered(dom, c, S)
  OBVIOUS
<1> PICK U : U = Over(M, c)
  OBVIOUS
<1>1. /\ Top.kind = "LOOP" /\ status = "lowering" /\ EndStatement(FALSE)
      /\ cur' = c /\ bindings' = Top.bound
      /\ UNCHANGED <<fn, status, dropped>>
      /\ blocks' = IF blocks[cur].terminated THEN blocks
                   ELSE CloseLoop(Branch(blocks, cur, h), h)
  BY DEF EndLoop, Active, runVars, Restore
<1>2. Lowering /\ Top.kind \in StatementKind
  BY <1>1, InLowering DEF StatementKind
<1>3. /\ Under(k) /\ k \in 1 .. Len(ctrl) /\ Len(ctrl) = k + 1
      /\ k + 1 \in 1 .. Len(ctrl) /\ Top = ctrl[k + 1] /\ k \in Nat
      /\ k # k + 1 /\ k \in 1 .. k
  BY <1>2, ListBelow
<1>4. NewEdges(T)
  BY <1>1, LoopEdges
<1>5. /\ ctrl[k].kind \in ListKind /\ Keeps(k) /\ Len(ctrl') = k
      /\ \A i \in 1 .. k - 1 : ctrl'[i] = ctrl[i]
  <2>1. ctrl[k].kind \in ListKind /\ Top.kind # "FBODY"
    BY <1>2, StatementCaller
  <2>2. /\ Keeps(k) /\ Len(ctrl') = k
        /\ \A i \in 1 .. Len(ctrl) - 2 : ctrl'[i] = ctrl[i]
    BY <1>1, <2>1, EndShape
  <2>3. k - 1 = Len(ctrl) - 2
    <3>1. Len(ctrl) \in Nat
      BY StackFrames
    <3> QED
      BY <3>1
  <2> QED
    BY <2>1, <2>2, <2>3
<1>6. Shape(k) /\ Len(ctrl') # k + 1
  BY <1>3, <1>5 DEF Shape
<1>7. StackBelow
  <2>1. Len(ctrl') - 1 = k - 1 /\ k - 1 <= Len(ctrl)
    BY <1>3, <1>5
  <2> QED
    BY <1>5, <2>1 DEF StackBelow
<1>8. Awaits(Top, c)
  BY <1>1 DEF Awaits
<1>9. Fresh(k, c)
  BY <1>3, <1>8 DEF Fresh, Handed
<1>10. /\ FramePlaced(Params, blocks, bindings, dom, S, Over(dom, cur), Top)
       /\ S \subseteq Over(dom, cur) /\ S \in SUBSET Nat
  BY TopPlaced
<1>11. /\ c # 1 /\ Over(dom, c) = {}
       /\ \A a : Edge(blocks, a, c) => S \subseteq Over(dom, a)
       /\ h # 1 /\ h \in Over(dom, h) /\ Over(dom, h) \subseteq S
       /\ AvailAll(Params, blocks, S, Top.bound)
  BY <1>1, <1>8, <1>10 DEF FramePlaced, LoopKind
<1>12. /\ Opens(k, dom, M) /\ dom \subseteq M /\ U = S \cup {c}
       /\ Over(M, cur) = Over(dom, cur) /\ Over(M, h) = Over(dom, h)
  <2>1. h # c
    BY <1>11
  <2> QED
    BY <1>1, <1>9, <1>10, <1>11, <2>1, EnterPlaced
<1>13. Reached(k, dom, M, T)
  <2>1. ~Awaited(h)
    BY <1>1, <1>2, <1>3, HeaderStarted
  <2> QED
    BY <1>10, <1>11, <1>12, <2>1 DEF Reached, JoinTargets
<1>14. Turn(k)
  BY <1>1, <1>6, <1>9 DEF Turn, Shape
<1>15. Uses(Params, blocks', M, Nat) /\ DefsKept(blocks, blocks')
  BY <1>1, <1>12, LoopCode
<1>16. lev[k] \subseteq U /\ U = Over(M, cur')
  BY <1>1, <1>12
<1>17. AvailAll(Params, blocks', U, bindings')
  BY <1>1, <1>11, <1>15, <1>16, AvailKept
<1>18. ctrl'[k].kind \notin ExprKind
  <2>1. Alike(ctrl[k], ctrl'[k])
    <3>1. k \in 1 .. k
      BY <1>3
    <3> QED
      BY <1>5, <3>1 DEF Keeps
  <2> QED
    BY <1>5, <2>1 DEF Alike, ListKind, ExprKind
<1>19. fn' = fn /\ status' = "lowering"
  BY <1>1
<1>20. Len(ctrl') = k /\ Under(k) /\ k # k + 1
  BY <1>3, <1>5
<1> QED
  BY <1>2, <1>4, <1>7, <1>12, <1>13, <1>14, <1>15, <1>16, <1>17,
     <1>18, <1>19, <1>20, PlacedBelow

LEMMA WhileStatementPlaced ==
  ASSUME TypeOK, TypeOK', FlowInv, SingleInv, NEW dom, NEW lev,
         Placed(dom, lev), WhileStatement
  PROVE  DomInv'
BY BeginWhilePlaced, HeaderNamePlaced, EndHeaderPlaced, BranchWhilePlaced,
   EndLoopPlaced
DEF WhileStatement

-----------------------------------------------------------------------------
(***************************************************************************)
(* emit_expression and the end of the function, every step.                *)
(***************************************************************************)

LEMMA ExpressionPlaced ==
  ASSUME TypeOK, TypeOK', FlowInv, SingleInv, NEW dom, NEW lev,
         Placed(dom, lev), Expression
  PROVE  DomInv'
<1>1. ASSUME NEW t \in ValType, Literal(t)
      PROVE  DomInv'
  <2>1. PICK v \in Literals[t] : Receive(LitOp(t, v))
    BY <1>1 DEF Literal
  <2> DEFINE o == LitOp(t, v)
  <2>2. /\ Wanting(t) /\ Receive(o) /\ o.kind # "VALUE"
        /\ UNCHANGED <<runVars, irVars, nameVars, semVars, fuel>>
    BY <1>1, <2>1 DEF Literal, LitOp
  <2> HIDE DEF o
  <2>3. AvailOperand(Params, blocks, Over(dom, cur), o)
    BY <2>2 DEF AvailOperand
  <2> QED
    BY <2>2, <2>3, LeafPlaced
<1>2. ASSUME NEW n \in Name, Identifier(n)
      PROVE  DomInv'
  BY <1>2, IdentifierPlaced
<1>3. ASSUME NEW n \in Name, UnboundIdentifier(n)
      PROVE  DomInv'
  BY <1>3, FailPlaced DEF UnboundIdentifier, Error
<1>4. ASSUME NEW t, NEW op, BeginBinary(op, t)
      PROVE  DomInv'
  <2> DEFINE f == [kind |-> "BINARY", op |-> op, wants |-> <<t, t>>,
                   args |-> << >>, target |-> Target]
             u == CheckedType(op, t)
  <2>1. Wanting(u) /\ BeginExpr(f) /\ f.kind = "BINARY" /\ f.args = << >>
    BY <1>4 DEF BeginBinary
  <2> HIDE DEF f, u
  <2> QED
    BY <2>1, BeginExprPlaced
<1>5. ASSUME BeginNot
      PROVE  DomInv'
  <2> DEFINE f == [kind |-> "NOT", wants |-> <<"BOOL">>, args |-> << >>,
                   target |-> Target]
  <2>1. Wanting("BOOL") /\ BeginExpr(f) /\ f.kind = "NOT" /\ f.args = << >>
    BY <1>5 DEF BeginNot
  <2> HIDE DEF f
  <2> QED
    BY <2>1, BeginExprPlaced
<1>6. ASSUME NEW isOr, BeginLogic(isOr)
      PROVE  DomInv'
  <2> DEFINE f == [kind |-> "LEFT", wants |-> <<"BOOL">>, args |-> << >>,
                   target |-> Target, isOr |-> isOr]
  <2>1. Wanting("BOOL") /\ BeginExpr(f) /\ f.kind = "LEFT" /\ f.args = << >>
    BY <1>6 DEF BeginLogic
  <2> HIDE DEF f
  <2> QED
    BY <2>1, BeginExprPlaced
<1>7. ASSUME NEW g, BeginCall(g)
      PROVE  DomInv'
  <2> DEFINE f == [kind |-> "CALL", ret |-> g.ret, wants |-> g.params,
                   args |-> << >>, target |-> Target]
             u == g.ret
  <2>1. Wanting(u) /\ BeginExpr(f) /\ f.kind = "CALL" /\ f.args = << >>
    BY <1>7 DEF BeginCall
  <2> HIDE DEF f, u
  <2> QED
    BY <2>1, BeginExprPlaced
<1>8. ASSUME ArgumentMismatch
      PROVE  DomInv'
  BY <1>8, FailPlaced DEF ArgumentMismatch, Error
<1> QED
  BY <1>1, <1>2, <1>3, <1>4, <1>5, <1>6, <1>7, <1>8, FinishBinaryPlaced,
     FinishNotPlaced, DropLogicPlaced, SplitLogicPlaced, FinishLogicPlaced,
     FinishCallPlaced
  DEF Expression

LEMMA EndFunctionPlaced ==
  ASSUME TypeOK, TypeOK', FlowInv, NEW dom, NEW lev, Placed(dom, lev),
         EndFunction
  PROVE  DomInv'
<1> DEFINE instr == Instruction("RET", NoOperand, << >>)
<1>1. /\ status' # "lowering" /\ fn' = fn
      /\ blocks' = blocks \/ blocks' = Emit(blocks, cur, instr)
  BY DEF EndFunction, NoReturn, FinalReturn
<1>2. instr.op = "RET" /\ instr.args = << >>
  BY DEF Instruction
<1> HIDE DEF instr
<1>3. Uses(Params, blocks, dom, Nat) /\ dom \subseteq dom
      /\ cur \in 1 .. Len(blocks)
  BY StackFrames DEF Placed
<1>4. CASE blocks' = blocks
  <2>1. SameSucc
    BY <1>4, EdgesKept
  <2> QED
    BY <1>1, <1>3, <1>4, <2>1, LeftPlaced
<1>5. CASE blocks' = Emit(blocks, cur, instr)
  <2>1. SameSucc
    BY <1>3, <1>5, EmitSucc
  <2>2. Supplied(Params, blocks, dom, cur, instr)
    BY <1>2, NoneAvail DEF Supplied
  <2>3. Uses(Params, blocks', dom, Nat)
    BY <1>3, <1>5, <2>2, EmitPlaced
  <2> QED
    BY <1>1, <1>3, <2>1, <2>3, LeftPlaced
<1> QED
  BY <1>1, <1>4, <1>5

\* At the beginning the entry block is over itself, and only parameters are
\* bound.
LEMMA InitPlaced ==
  ASSUME Init
  PROVE  DomInv
<1> DEFINE top == [kind |-> "FBODY", rets |-> FALSE]
<1>1. /\ blocks = <<NewBlock>> /\ ctrl = <<top>> /\ cur = 1
      /\ fn \in Headers /\ status = "lowering"
      /\ bindings = [n \in AllName |-> IF n \in ParamNames(fn)
                                       THEN ParamIndex(fn, n) ELSE Invalid]
  BY DEF Init
<1>2. /\ Len(blocks) = 1 /\ blocks[1] = NewBlock /\ DOMAIN blocks = {1}
      /\ Len(ctrl) = 1 /\ ctrl[1] = top
      /\ top.kind = "FBODY"
  BY <1>1
<1> HIDE DEF top
<1> PICK dom : dom = {<<1, 1>>}
  OBVIOUS
<1> PICK lev : lev = [i \in 0 .. 1 |-> IF i = 0 THEN {} ELSE {1}]
  OBVIOUS
<1>3. Over(dom, 1) = {1} /\ \A b : b # 1 => Over(dom, b) = {}
  BY DEF Over
<1>4. blocks[1].succ = << >> /\ blocks[1].code = << >>
  BY <1>2 DEF NewBlock
<1>5. Tree(blocks, dom)
  <2>1. \A a, t : ~Edge(blocks, a, t)
    BY <1>2, <1>4 DEF Edge
  <2> QED
    BY <1>3, <2>1 DEF Tree
<1>6. Uses(Params, blocks, dom, Nat)
  <2>1. Positions(blocks) = {}
    BY <1>2, <1>4 DEF Positions
  <2> QED
    BY <2>1 DEF Uses
<1>7. AvailAll(Params, blocks, Over(dom, cur), bindings)
  <2> SUFFICES ASSUME NEW n \in AllName, bindings[n] # Invalid
               PROVE  bindings[n] \in Params
    BY DEF AvailAll, AvailIn
  <2>1. n \in ParamNames(fn) /\ bindings[n] = ParamIndex(fn, n)
    BY <1>1
  <2>2. \E i \in DOMAIN fn.params : fn.params[i].name = n
    BY <2>1 DEF ParamNames
  <2>3. ParamIndex(fn, n) \in DOMAIN fn.params
    BY <2>2 DEF ParamIndex
  <2> QED
    BY <2>1, <2>3 DEF Params
<1>8. /\ lev[1] = {1} /\ lev[0] = {}
  OBVIOUS
<1>9. \A i, j \in 0 .. Len(ctrl) : i <= j => lev[i] \subseteq lev[j]
  <2>1. \A i, j \in 0 .. 1 : i <= j => i = j \/ (i = 0 /\ j = 1)
    OBVIOUS
  <2> QED
    BY <1>2, <1>8, <2>1
<1>10. \A i \in 1 .. Len(ctrl) :
         FramePlaced(Params, blocks, bindings, dom,
                     lev[i - 1], lev[i], ctrl[i])
  <2>1. \A b : ~Awaits(top, b)
    BY <1>2 DEF Awaits
  <2>2. \A lo, hi : FramePlaced(Params, blocks, bindings, dom, lo, hi, top)
    BY <1>2, <2>1 DEF FramePlaced, ExprKind, SnapshotKind, LoopKind
  <2>3. \A i \in 1 .. Len(ctrl) : ctrl[i] = top
    BY <1>2
  <2> QED
    BY <2>2, <2>3
<1>11. \A b : b \notin 1 .. Len(blocks) => Over(dom, b) = {}
  BY <1>2, <1>3
<1>12. cur \in Over(dom, cur) /\ lev[Len(ctrl)] = Over(dom, cur)
  BY <1>1, <1>2, <1>3, <1>8
<1>13. Placed(dom, lev)
  BY <1>5, <1>6, <1>7, <1>9, <1>10, <1>11, <1>12 DEF Placed
<1> QED
  BY <1>1, <1>13 DEF DomInv

-----------------------------------------------------------------------------
(***************************************************************************)
(* collapse_degenerate_phis.                                               *)
(***************************************************************************)

LEMMA RemovalSucc ==
  ASSUME TypeOK, VisitPhi, PhiCollapses(CursorCode[cursor.index])
  PROVE  SameSucc
<1> DEFINE b   == cursor.block
           i   == cursor.index
           phi == CursorCode[i]
           id  == phi.dest.id
           o   == Replacement(phi)
           rw  == RewriteUses(blocks, id, o)
           p   == Len(values)
           m   == Len(blocks)
           new == blocks'
<1>1. b <= m /\ AtPhi /\ new = RemoveInstr(rw, b, i)
  BY DEF VisitPhi
<1>2. /\ m \in Nat /\ p \in Nat /\ blocks \in Seq(Block(p, m))
      /\ DOMAIN blocks = 1 .. m
  BY StackFrames
<1>3. cursor \in [block : Nat \ {0}, index : Nat \ {0}, changed : BOOLEAN]
  BY DEF TypeOK, RestType
<1>4. /\ b \in 1 .. m /\ i \in 1 .. Len(blocks[b].code)
      /\ blocks[b].code \in Seq(Instr(p, m))
      /\ phi = blocks[b].code[i]
  <2>1. b \in 1 .. m
    BY <1>1, <1>2, <1>3
  <2>2. blocks[b].code \in Seq(Instr(p, m)) /\ Len(blocks[b].code) \in Nat
    BY <1>2, <2>1, BlockFields
  <2> QED
    BY <1>1, <1>3, <2>1, <2>2 DEF AtPhi, CursorCode
<1>5. o \in Operand(p)
  <2>1. phi \in Instr(p, m)
    BY <1>4
  <2> QED
    BY <1>2, <2>1, ReplacementType
<1> HIDE DEF id, o, phi, b, i, p, m, new
<1>6. /\ rw \in Seq(Block(p, m)) /\ Len(rw) = m
      /\ \A x \in 1 .. m : Rewritten(blocks[x], rw[x], id, o)
  BY <1>2, <1>5, RewriteType, RewriteEffect DEF m
<1> HIDE DEF rw
<1>7. b \in 1 .. Len(rw) /\ i \in 1 .. Len(rw[b].code)
  BY <1>4, <1>6 DEF Rewritten
<1>8. /\ Len(new) = m /\ Removed(rw[b], new[b], i)
      /\ \A x \in 1 .. m : x # b => new[x] = rw[x]
  BY <1>1, <1>2, <1>6, <1>7, RemoveEffect
<1>9. \A x \in 1 .. m : new[x].succ = blocks[x].succ
  BY <1>6, <1>8 DEF Rewritten, Removed
<1> QED
  BY <1>8, <1>9 DEF SameSucc, new, m

\* With the same edges, the same blocks are inside.
LEMMA InnerSame ==
  ASSUME TypeOK, SameSucc
  PROVE  /\ Inner' = Inner
         /\ \A a, t : Edge(blocks', a, t) <=> Edge(blocks, a, t)
<1>1. Len(blocks) \in Nat /\ Len(blocks') = Len(blocks)
      /\ \A x \in 1 .. Len(blocks) : blocks'[x].succ = blocks[x].succ
  BY StackFrames DEF SameSucc
<1>2. \A L : Closed(L)' <=> Closed(L)
  BY <1>1 DEF Closed
<1>3. Inner' = Inner
  BY <1>1, <1>2 DEF Inner
<1>4. \A a, t : Edge(blocks', a, t) <=> Edge(blocks, a, t)
  BY <1>1 DEF Edge
<1> QED
  BY <1>3, <1>4

\* The operand o is available wherever the block c is over the code, by a
\* definition in another block if the code is in R.
Carried(P, bs, dom, M, R, c, o) ==
  o.kind = "VALUE" /\ o.id \notin P =>
    \E p \in DefSites(bs, o.id) :
      \A b : b = c \/ c \in Over(dom, b) =>
        p[1] \in Over(M, b) /\ (b \in R => p[1] # b)

\* Uses of the phi at gone become uses of what replaces it.
LEMMA UsesMoved ==
  ASSUME NEW P, NEW bs, NEW new, NEW gone \in Positions(bs), NEW id, NEW o,
         NEW S, Moves(S, bs, new, gone, id, o), Slides(S, bs, new),
         OnceIn(P, bs), Defines(At(bs, gone), id), ~Refers(o, id),
         NEW dom, NEW M, dom \subseteq M, NEW R, Uses(P, bs, dom, R),
         Carried(P, bs, dom, M, R, gone[1], o)
  PROVE  Uses(P, new, M, R)
<1> DEFINE c == gone[1]
<1>1. ASSUME NEW x, x # id, NEW p \in DefSites(bs, x)
      PROVE  \E q \in DefSites(new, x) : S[q] = p /\ q[1] = p[1]
                                         /\ q \in Positions(new)
  <2>1. p \in Positions(bs) /\ p # gone /\ Defines(At(bs, p), x)
    BY <1>1 DEF DefSites, Defines, Refers
  <2>2. PICK q \in Positions(new) : S[q] = p
    BY <2>1 DEF Moves
  <2>3. q \in DefSites(new, x)
    BY <2>1, <2>2 DEF Moves, DefSites, Defines
  <2> QED
    BY <2>2, <2>3 DEF Slides
<1>2. id \notin P /\ \A p \in DefSites(bs, id) : p = gone
  BY DEF OnceIn, DefSites
<1>3. ASSUME NEW T, NEW a, ~Refers(a, id), AvailOperand(P, bs, T, a)
      PROVE  AvailOperand(P, new, T, a)
  BY <1>1, <1>3 DEF AvailOperand, AvailIn, Refers
<1>4. ASSUME NEW b, b = c \/ c \in Over(dom, b)
      PROVE  AvailOperand(P, new, Over(M, b), o)
  <2> SUFFICES ASSUME o.kind = "VALUE", o.id \notin P
               PROVE  \E q \in DefSites(new, o.id) : q[1] \in Over(M, b)
    BY DEF AvailOperand, AvailIn
  <2>1. PICK p \in DefSites(bs, o.id) : p[1] \in Over(M, b)
    BY <1>4 DEF Carried
  <2>2. o.id # id
    BY DEF Refers
  <2> QED
    BY <1>1, <2>1, <2>2
<1> SUFFICES ASSUME NEW u \in Positions(new), NEW j \in DOMAIN At(new, u).args
             PROVE  UseFits(P, new, M, R, u, j)
  BY DEF Uses
<1> DEFINE q   == S[u]
           old == At(bs, q).args[j]
           a   == At(new, u).args[j]
<1>5. /\ q \in Positions(bs) /\ q[1] = u[1]
      /\ At(new, u).op = At(bs, q).op /\ At(new, u).blks = At(bs, q).blks
      /\ j \in DOMAIN At(bs, q).args /\ a = RewriteOperand(old, id, o)
  BY DEF Moves, Slides
<1>6. UseFits(P, bs, dom, R, q, j)
  BY <1>5 DEF Uses
<1>7. IF Refers(old, id) THEN a = o ELSE a = old
  BY <1>5 DEF RewriteOperand
<1>8. CASE At(new, u).op = "PHI"
  <2> DEFINE b == At(bs, q).blks[j]
  <2>1. AvailOperand(P, bs, Over(dom, b), old)
    BY <1>5, <1>6, <1>8 DEF UseFits
  <2>2. AvailOperand(P, new, Over(M, b), a)
    <3>1. CASE Refers(old, id)
      <4>1. c \in Over(dom, b)
        BY <1>2, <2>1, <3>1 DEF AvailOperand, AvailIn, Refers
      <4> QED
        BY <1>4, <1>7, <3>1, <4>1
    <3>2. CASE ~Refers(old, id)
      <4>1. AvailOperand(P, new, Over(dom, b), old)
        BY <1>3, <2>1, <3>2
      <4>2. AvailOperand(P, new, Over(M, b), old)
        BY <4>1, DefsSame, OverMore, AvailKept
      <4> QED
        BY <1>7, <3>2, <4>2
    <3> QED
      BY <3>1, <3>2
  <2> QED
    BY <1>5, <1>8, <2>2 DEF UseFits
<1>9. CASE At(new, u).op # "PHI"
  <2> SUFFICES ASSUME a.kind = "VALUE", u[1] \in R, a.id \notin P
               PROVE  \E p \in DefSites(new, a.id) : Before(M, p, u)
    BY <1>9 DEF UseFits
  <2>1. CASE Refers(old, id)
    <3>1. a = o
      BY <1>7, <2>1
    <3>2. PICK p \in DefSites(bs, id) : Before(dom, p, q)
      BY <1>2, <1>5, <1>6, <1>9, <2>1 DEF UseFits, Refers
    <3>3. u[1] = c \/ c \in Over(dom, u[1])
      BY <1>2, <1>5, <3>2 DEF Before
    <3>4. PICK d \in DefSites(bs, o.id) :
            d[1] \in Over(M, u[1]) /\ d[1] # u[1]
      BY <3>1, <3>3 DEF Carried
    <3>5. o.id # id
      BY <3>1 DEF Refers
    <3>6. PICK e \in DefSites(new, o.id) : e[1] = d[1]
      BY <1>1, <3>4, <3>5
    <3>7. Before(M, e, u)
      BY <3>4, <3>6 DEF Before
    <3> QED
      BY <3>1, <3>6, <3>7
  <2>2. CASE ~Refers(old, id)
    <3>1. a = old /\ old.id # id
      BY <1>7, <2>2 DEF Refers
    <3>2. PICK p \in DefSites(bs, old.id) : Before(dom, p, q)
      BY <1>5, <1>6, <1>9, <3>1 DEF UseFits
    <3>3. PICK e \in DefSites(new, old.id) :
            S[e] = p /\ e[1] = p[1] /\ e \in Positions(new)
      BY <1>1, <3>1, <3>2
    <3>4. Before(M, e, u)
      <4>1. CASE e[1] = u[1]
        BY <1>5, <3>2, <3>3, <4>1 DEF Before, Slides
      <4>2. CASE e[1] # u[1]
        BY <1>5, <3>2, <3>3, <4>2, OverMore DEF Before
      <4> QED
        BY <4>1, <4>2
    <3> QED
      BY <3>1, <3>3, <3>4
  <2> QED
    BY <2>1, <2>2
<1> QED
  BY <1>8, <1>9

\* Where block c is over the code, block d is too.
Lifted(dom, c, d) ==
  dom \cup { <<y, d>> : y \in { z \in {c} \cup { e[1] : e \in dom } :
                                  z = c \/ c \in Over(dom, z) } }

LEMMA OverLifted ==
  ASSUME NEW dom, NEW c \in Nat, NEW d \in Nat, NEW M, M = Lifted(dom, c, d)
  PROVE  /\ dom \subseteq M
         /\ \A b : Over(M, b) = IF b = c \/ c \in Over(dom, b)
                                THEN Over(dom, b) \cup {d} ELSE Over(dom, b)
<1>1. dom \subseteq M
  BY DEF Lifted
<1>2. ASSUME NEW b, c \in Over(dom, b)
      PROVE  b \in { e[1] : e \in dom }
  <2>1. <<b, c>> \in dom /\ <<b, c>>[1] = b
    BY <1>2 DEF Over
  <2> QED
    BY <2>1
<1>3. ASSUME NEW b, NEW x
      PROVE  <<b, x>> \in M <=> \/ <<b, x>> \in dom
                                \/ x = d /\ (b = c \/ c \in Over(dom, b))
  BY <1>2 DEF Lifted
<1>4. ASSUME NEW b
      PROVE  Over(M, b) = IF b = c \/ c \in Over(dom, b)
                          THEN Over(dom, b) \cup {d} ELSE Over(dom, b)
  <2>1. CASE b = c \/ c \in Over(dom, b)
    <3>1. \A x : <<b, x>> \in M <=> <<b, x>> \in dom \/ x = d
      BY <1>3, <2>1
    <3>2. Over(M, b) = Over(dom, b) \cup {d}
      BY <3>1 DEF Over
    <3> QED
      BY <2>1, <3>2
  <2>2. CASE ~(b = c \/ c \in Over(dom, b))
    <3>1. \A x : <<b, x>> \in M <=> <<b, x>> \in dom
      BY <1>3, <2>2
    <3>2. Over(M, b) = Over(dom, b)
      BY <3>1 DEF Over
    <3> QED
      BY <2>2, <3>2
  <2> QED
    BY <2>1, <2>2
<1> QED
  BY <1>1, <1>4

\* A block below c, that or c itself is over each predecessor of c, is
\* entered by no path.
LEMMA CycleFree ==
  ASSUME TypeOK, NEW dom, Tree(blocks, dom), NEW c, c # 1, NEW x,
         x = c \/ c \in Over(dom, x),
         \A a : Edge(blocks, a, c) => x \in Over(dom, a) \/ c \in Over(dom, a)
  PROVE  x \notin Inner
<1> DEFINE L == { b \in 1 .. Len(blocks) :
                    /\ b # x /\ b # c
                    /\ x \notin Over(dom, b) /\ c \notin Over(dom, b) }
<1>1. /\ Len(blocks) \in Nat /\ Len(blocks) >= 1
      /\ blocks \in Seq(Block(Len(values), Len(blocks)))
      /\ Len(values) \in Nat
  BY StackFrames
<1>2. 1 \in L
  <2>1. Over(dom, 1) \subseteq {1} /\ x # 1
    BY DEF Tree
  <2> QED
    BY <1>1, <2>1
<1>3. ASSUME NEW b \in L, NEW i \in DOMAIN blocks[b].succ
      PROVE  blocks[b].succ[i] \in L
  <2> DEFINE t == blocks[b].succ[i]
  <2>1. t \in 1 .. Len(blocks)
    <3>1. blocks[b].succ \in Seq(1 .. Len(blocks))
      BY <1>1, BlockFields
    <3> QED
      BY <3>1
  <2>2. Edge(blocks, b, t)
    BY DEF Edge
  <2> HIDE DEF t
  <2>3. Over(dom, t) \subseteq Over(dom, b) \cup {t}
    BY <2>2 DEF Tree
  <2>4. t # c
    BY <2>2
  <2>5. t # x
    BY <2>3, <2>4
  <2>6. t \in L
    BY <2>1, <2>3, <2>4, <2>5
  <2> QED
    BY <2>6 DEF t
<1>4. x \notin L /\ L \in SUBSET (1 .. Len(blocks))
  OBVIOUS
<1> HIDE DEF L
<1>5. Closed(L)
  BY <1>2, <1>3, <1>4 DEF Closed
<1> QED
  BY <1>4, <1>5 DEF Inner

\* A predecessor of the block of a phi that collapses: what replaces the phi
\* is available there, or the phi itself is.
LEMMA PhiPreds ==
  ASSUME TypeOK, Flow, OnceIn(Params, blocks), NEW dom, NEW R,
         Tree(blocks, dom), Uses(Params, blocks, dom, R),
         NEW gone \in Positions(blocks), NEW phi, phi = At(blocks, gone),
         phi.op = "PHI", phi \in Instr(Len(values), Len(blocks)),
         PhiCollapses(phi), NEW c, c = gone[1]
  PROVE  /\ c \in Nat /\ c # 1
         /\ \A a : Edge(blocks, a, c) =>
              \/ AvailOperand(Params, blocks, Over(dom, a), Replacement(phi))
              \/ c \in Over(dom, a)
<1>1. /\ Len(blocks) \in Nat /\ Len(values) \in Nat
      /\ blocks \in Seq(Block(Len(values), Len(blocks)))
      /\ DOMAIN blocks = 1 .. Len(blocks)
  BY StackFrames
<1>2. PICK i : gone = <<c, i>>
  BY PositionPairs
<1>3. c \in 1 .. Len(blocks) /\ i \in DOMAIN blocks[c].code
  BY <1>1, <1>2, PositionsOf
<1>4. phi = blocks[c].code[i]
  BY <1>2 DEF At
<1>5. phi.blks = blocks[c].pred /\ Len(phi.args) = Len(phi.blks)
  BY <1>1, <1>3, <1>4 DEF Flow, FlowOf, BlockFlow
<1>6. DOMAIN phi.args = DOMAIN phi.blks
  <2>1. /\ phi.args \in Seq(Operand(Len(values)))
        /\ phi.blks \in Seq(1 .. Len(blocks))
    BY DEF Instr
  <2> QED
    BY <1>5, <2>1
<1>7. c # 1
  <2>1. PICK j \in DOMAIN phi.args : TRUE
    BY DEF PhiCollapses, Incoming
  <2> DEFINE a == blocks[c].pred[j]
  <2>2. j \in DOMAIN blocks[c].pred /\ a \in 1 .. Len(blocks)
    <3>1. blocks[c].pred \in Seq(1 .. Len(blocks))
      BY <1>1, <1>3, BlockFields
    <3> QED
      BY <1>5, <1>6, <2>1, <3>1
  <2>3. Edge(blocks, a, c)
    BY <1>3, <2>2, EdgeIsPred
  <2> QED
    BY <2>3 DEF Tree
<1>8. ASSUME NEW a, Edge(blocks, a, c)
      PROVE  \/ AvailOperand(Params, blocks, Over(dom, a), Replacement(phi))
             \/ c \in Over(dom, a)
  <2>1. PICK j \in DOMAIN blocks[c].pred : blocks[c].pred[j] = a
    BY <1>8, EdgeIsPred
  <2>2. j \in DOMAIN phi.args /\ phi.blks[j] = a
    BY <1>5, <1>6, <2>1
  <2>3. UseFits(Params, blocks, dom, R, gone, j)
    BY <2>2 DEF Uses
  <2>4. AvailOperand(Params, blocks, Over(dom, a), phi.args[j])
    BY <2>2, <2>3 DEF UseFits
  <2>5. CASE Refers(phi.args[j], phi.dest.id)
    <3>1. Defines(phi, phi.dest.id)
      <4>1. phi.dest \in ValueOperand(Len(values))
        BY <1>1, PhiDest
      <4> QED
        BY <1>1, <4>1 DEF Defines, Refers, ValueOperand
    <3>2. gone \in DefSites(blocks, phi.dest.id)
      BY <3>1 DEF DefSites
    <3>3. /\ phi.dest.id \notin Params
          /\ \A p \in DefSites(blocks, phi.dest.id) : p = gone
      BY <3>2 DEF OnceIn
    <3> QED
      BY <2>4, <2>5, <3>3 DEF AvailOperand, AvailIn, Refers
  <2>6. CASE ~Refers(phi.args[j], phi.dest.id)
    <3>1. phi.args[j] \in Incoming(phi)
      BY <2>2, <2>6 DEF Incoming
    <3>2. Replacement(phi) = phi.args[j]
      BY <3>1 DEF PhiCollapses, Replacement
    <3> QED
      BY <2>4, <3>2
  <2> QED
    BY <2>5, <2>6
<1> QED
  BY <1>1, <1>3, <1>7, <1>8

\* The block that defines what replaces the phi is now over whatever the
\* block of the phi is over.
LEMMA LiftedTree ==
  ASSUME NEW bs, NEW dom, Tree(bs, dom), NEW c \in Nat, c # 1, NEW d \in Nat,
         NEW M, M = Lifted(dom, c, d),
         \A a : Edge(bs, a, c) => d \in Over(dom, a) \/ c \in Over(dom, a)
  PROVE  Tree(bs, M)
<1>1. /\ dom \subseteq M
      /\ \A b : Over(M, b) = IF b = c \/ c \in Over(dom, b)
                             THEN Over(dom, b) \cup {d} ELSE Over(dom, b)
  BY OverLifted
<1>2. Over(M, 1) \subseteq {1}
  BY <1>1 DEF Tree
<1>3. ASSUME NEW a, NEW t, Edge(bs, a, t)
      PROVE  /\ t # 1 /\ a \in Over(M, a)
             /\ Over(M, t) \subseteq Over(M, a) \cup {t}
  <2>1. /\ t # 1 /\ a \in Over(dom, a)
        /\ Over(dom, t) \subseteq Over(dom, a) \cup {t}
    BY <1>3 DEF Tree
  <2>2. Over(dom, a) \subseteq Over(M, a)
    BY <1>1
  <2>3. t = c \/ c \in Over(dom, t) => d \in Over(M, a)
    <3>1. CASE t = c
      BY <1>1, <1>3, <2>2, <3>1
    <3>2. CASE t # c /\ c \in Over(dom, t)
      BY <1>1, <2>1, <3>2
    <3> QED
      BY <3>1, <3>2
  <2> QED
    BY <1>1, <2>1, <2>2, <2>3
<1> QED
  BY <1>2, <1>3 DEF Tree

LEMMA RemovePhiPlaced ==
  ASSUME TypeOK, TypeOK', SingleInv, FlowInv, VisitPhi,
         PhiCollapses(CursorCode[cursor.index]), NEW dom, Tree(blocks, dom),
         Uses(Params, blocks, dom, Inner)
  PROVE  DomInv'
<1> PICK phi : phi = CursorCode[cursor.index]
  OBVIOUS
<1> PICK gone : gone = <<cursor.block, cursor.index>>
  OBVIOUS
<1> PICK id : id = phi.dest.id
  OBVIOUS
<1> PICK o : o = Replacement(phi)
  OBVIOUS
<1> PICK c : c = gone[1]
  OBVIOUS
<1>1. /\ gone \in Positions(blocks) /\ phi = At(blocks, gone)
      /\ phi \in Instr(Len(values), Len(blocks)) /\ phi.op = "PHI"
      /\ \E S : Moves(S, blocks, blocks', gone, id, o)
                /\ Slides(S, blocks, blocks')
      /\ PhiCollapses(phi)
  BY PhiRemoved
<1>2. OnceIn(Params, blocks) /\ Flow
  BY DEF SingleInv, FlowInv
<1>3. /\ KnownOperand(Params, blocks, o) /\ ~Refers(o, id)
      /\ Defines(At(blocks, gone), id)
  <2>1. KnownArgs(Params, blocks, phi.args)
    BY <1>1, <1>2 DEF OnceIn
  <2>2. Len(values) \in Nat /\ Len(blocks) \in Nat
    BY StackFrames
  <2>3. phi.dest \in ValueOperand(Len(values))
    BY <1>1, <2>2, PhiDest
  <2> QED
    BY <1>1, <2>1, <2>2, <2>3, ReplacementKnown
       DEF Defines, Refers, ValueOperand
<1>4. /\ c \in Nat /\ c # 1
      /\ \A a : Edge(blocks, a, c) =>
           AvailOperand(Params, blocks, Over(dom, a), o) \/ c \in Over(dom, a)
  BY <1>1, <1>2, PhiPreds
<1>5. /\ Inner' = Inner /\ Params' = Params /\ status' # "lowering"
      /\ \A a, t : Edge(blocks', a, t) <=> Edge(blocks, a, t)
  <2>1. SameSucc
    BY RemovalSucc
  <2> QED
    BY <2>1, InnerSame DEF VisitPhi, Params
<1>6. \E M : /\ dom \subseteq M /\ Tree(blocks, M)
             /\ Carried(Params, blocks, dom, M, Inner, c, o)
  <2>1. CASE ~(o.kind = "VALUE" /\ o.id \notin Params)
    BY <2>1 DEF Carried
  <2>2. CASE o.kind = "VALUE" /\ o.id \notin Params
    <3>1. PICK p \in DefSites(blocks, o.id) : TRUE
      BY <1>3, <2>2 DEF KnownOperand, Known
    <3>2. \A q \in DefSites(blocks, o.id) : q = p
      BY <1>2 DEF OnceIn
    <3> PICK d : d = p[1]
      OBVIOUS
    <3>3. d \in Nat
      <4>1. p \in Positions(blocks)
        BY <3>1 DEF DefSites
      <4>2. d \in DOMAIN blocks
        BY <4>1 DEF Positions
      <4> QED
        BY <4>2, StackFrames
    <3>4. \A a : Edge(blocks, a, c) => d \in Over(dom, a) \/ c \in Over(dom, a)
      BY <1>4, <2>2, <3>2 DEF AvailOperand, AvailIn
    <3> PICK M : M = Lifted(dom, c, d)
      OBVIOUS
    <3>5. Tree(blocks, M)
      BY <1>4, <3>3, <3>4, LiftedTree
    <3>6. /\ dom \subseteq M
          /\ \A b : b = c \/ c \in Over(dom, b) => d \in Over(M, b)
      BY <1>4, <3>3, OverLifted
    <3>7. ASSUME NEW b, b = c \/ c \in Over(dom, b), b \in Inner
          PROVE  d # b
      BY <1>4, <3>4, <3>7, CycleFree
    <3>8. Carried(Params, blocks, dom, M, Inner, c, o)
      BY <3>1, <3>6, <3>7 DEF Carried
    <3> QED
      BY <3>5, <3>6, <3>8
  <2> QED
    BY <2>1, <2>2
<1>7. PICK M : /\ dom \subseteq M /\ Tree(blocks, M)
               /\ Carried(Params, blocks, dom, M, Inner, c, o)
  BY <1>6
<1>8. Uses(Params, blocks', M, Inner)
  BY <1>1, <1>2, <1>3, <1>7, UsesMoved
<1>9. Tree(blocks', M)
  BY <1>5, <1>7 DEF Tree
<1> QED
  BY <1>5, <1>8, <1>9 DEF DomInv

LEMMA CollapsePlaced ==
  ASSUME TypeOK, TypeOK', SingleInv, FlowInv, DomInv, Collapse
  PROVE  DomInv'
<1>1. status # "lowering" /\ status' # "lowering" /\ fn' = fn
  BY DEF Collapse, VisitPhi, NextBlock, EndPass
<1>2. PICK dom : Tree(blocks, dom) /\ Uses(Params, blocks, dom, Inner)
  BY <1>1 DEF DomInv
<1>3. CASE VisitPhi /\ PhiCollapses(CursorCode[cursor.index])
  BY <1>2, <1>3, RemovePhiPlaced
<1>4. CASE ~(VisitPhi /\ PhiCollapses(CursorCode[cursor.index]))
  <2>1. blocks' = blocks
    BY <1>4 DEF Collapse, VisitPhi, NextBlock, EndPass, irVars
  <2>2. Inner' = Inner /\ Params' = Params
    BY <1>1, <2>1 DEF Inner, Closed, Params
  <2> QED
    BY <1>1, <1>2, <2>1, <2>2 DEF DomInv
<1> QED
  BY <1>3, <1>4

\* The set of all blocks is closed under successors.
LEMMA EveryBlock ==
  ASSUME TypeOK
  PROVE  Closed(1 .. Len(blocks)) /\ Len(blocks) \in Nat
<1>1. /\ Len(blocks) \in Nat /\ Len(blocks) >= 1
      /\ blocks \in Seq(Block(Len(values), Len(blocks)))
      /\ Len(values) \in Nat
  BY StackFrames
<1>2. \A b \in 1 .. Len(blocks) : blocks[b].succ \in Seq(1 .. Len(blocks))
  BY <1>1, BlockFields
<1> QED
  BY <1>1, <1>2 DEF Closed

LEMMA NotCollapsing ==
  ASSUME Expression \/ SimpleStatement \/ IfStatement \/ WhileStatement
         \/ EndFunction
  PROVE  status = "lowering"
<1>1. CASE Expression
  BY <1>1 DEF Expression, Literal, Identifier, UnboundIdentifier, Readable,
     BeginBinary, BeginNot, BeginLogic, BeginCall, Wanting, FinishBinary,
     FinishNot, DropLogic, SplitLogic, FinishLogic, FinishCall,
     ArgumentMismatch, Active
<1>2. CASE SimpleStatement
  BY <1>2 DEF SimpleStatement, StatementAfterReturn, DeclareOnly,
     DeclareAndAssign, Assign, AssignUnbound, FinishAssignment, BeginReturn,
     FinishReturn, ReturnNothing, CallStatement, BeginBlock, EndBlock,
     StartStatement, NextStatement, InList, Active
<1>3. CASE IfStatement
  BY <1>3 DEF IfStatement, BeginIf, BranchIf, DropIf, EndThen, EndElse,
     MergeName, EndMerge, StartStatement, NextStatement, InList, Active
<1>4. CASE WhileStatement
  BY <1>4 DEF WhileStatement, BeginWhile, HeaderName, EndHeader, BranchWhile,
     EndLoop, StartStatement, NextStatement, InList, Active
<1>5. CASE EndFunction
  BY <1>5 DEF EndFunction, Active
<1> QED
  BY <1>1, <1>2, <1>3, <1>4, <1>5

LEMMA NextPlaced ==
  ASSUME TypeOK, TypeOK', SingleInv, FlowInv, DomInv, [Next]_vars
  PROVE  DomInv'
<1>1. CASE UNCHANGED vars
  <2>1. UNCHANGED <<fn, blocks, cur, bindings, ctrl, status>>
    BY <1>1 DEF vars, irVars
  <2>2. Inner' = Inner /\ Params' = Params
    BY <2>1 DEF Inner, Closed, Params
  <2>3. ASSUME NEW dom, NEW lev, Placed(dom, lev)
        PROVE  Placed(dom, lev)'
    BY <2>1, <2>2, <2>3 DEF Placed
  <2> QED
    BY <2>1, <2>2, <2>3 DEF DomInv
<1>2. CASE Expression \/ SimpleStatement \/ IfStatement \/ WhileStatement
           \/ EndFunction
  <2>1. status = "lowering"
    BY <1>2, NotCollapsing
  <2>2. PICK dom, lev : Placed(dom, lev)
    BY <2>1 DEF DomInv
  <2> QED
    BY <1>2, <2>2, ExpressionPlaced, SimpleStatementPlaced, IfStatementPlaced,
       WhileStatementPlaced, EndFunctionPlaced
<1>3. CASE Collapse
  BY <1>3, CollapsePlaced
<1> QED
  BY <1>1, <1>2, <1>3 DEF Next

\* For programs of any size: in code that control can reach, a value is
\* defined before it is used, on every path from the entry block; the operand
\* of a phi, on every path to the end of the block that it comes from.  It
\* holds while the function is lowered and after each phi that
\* collapse_degenerate_phis removes.
THEOREM DefinitionsDominate == Spec => []DefDominatesUse
<1>1. Init => TypeOK /\ FlowInv /\ AtStart /\ SingleInv /\ DomInv
  BY InitType, InitFlow, InitSingle, InitPlaced
<1>2. TypeOK /\ FlowInv /\ AtStart /\ SingleInv /\ DomInv /\ [Next]_vars
        => (TypeOK /\ FlowInv /\ AtStart /\ SingleInv /\ DomInv)'
  BY NextType, NextFlow, StartKept, NextSingle, NextPlaced
<1>3. TypeOK /\ FlowInv /\ DomInv => DefDominatesUse
  <2> SUFFICES ASSUME TypeOK, FlowInv, DomInv
               PROVE  DefDominatesUse
    OBVIOUS
  <2>1. CASE status = "lowering"
    <3>1. PICK dom, lev : Placed(dom, lev)
      BY <2>1 DEF DomInv
    <3>2. Reachable(blocks) \subseteq Nat
      <4>1. Closed(1 .. Len(blocks)) /\ Len(blocks) \in Nat
        BY EveryBlock
      <4>2. Reachable(blocks) \subseteq 1 .. Len(blocks)
        BY <4>1, ReachableIsLive
      <4> QED
        BY <4>1, <4>2
    <3> QED
      BY <3>1, <3>2, OverDominates DEF Placed
  <2>2. CASE status # "lowering"
    <3>1. PICK dom : Tree(blocks, dom) /\ Uses(Params, blocks, dom, Inner)
      BY <2>2 DEF DomInv
    <3>2. Reachable(blocks) \subseteq Inner
      <4>1. /\ Reachable(blocks) \subseteq 1 .. Len(blocks)
            /\ Len(blocks) \in Nat
        BY EveryBlock, ReachableIsLive
      <4>2. \A L : Closed(L) => Reachable(blocks) \subseteq L
        BY <4>1, ReachableIsLive
      <4> QED
        BY <4>1, <4>2 DEF Inner
    <3> QED
      BY <3>1, <3>2, OverDominates
  <2> QED
    BY <2>1, <2>2
<1> QED
  BY <1>1, <1>2, <1>3, PTL DEF Spec

=============================================================================
