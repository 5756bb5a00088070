--------------------------- MODULE AnalyzerProofs ---------------------------
(***************************************************************************)
(* For all programs and expressions: the scopes follow the blocks, the     *)
(* tables are the view that the lowering is modelled with, the functions   *)
(* of an accepted program are described, and the errors are those of the   *)
(* typing rules.                                                           *)
(***************************************************************************)
EXTENDS AnalyzerProperties, FiniteSetTheorems, WellFoundedInduction, TLAPS

-----------------------------------------------------------------------------
(***************************************************************************)
(* Induction and recursion over a set D whose elements have a height H.    *)
(***************************************************************************)

LEMMA LeastNumber ==
  ASSUME NEW S \in SUBSET Nat, S # {}
  PROVE  \E n \in S : \A m \in S : n <= m
<1> DEFINE R == {s \in Nat \X Nat : s[1] < s[2]}
<1>1. IsWellFoundedOn(R, Nat)
  BY NatLessThanWellFounded DEF OpToRel
<1> HIDE DEF R
<1>2. PICK n \in S : \A m \in S : ~(<<m, n>> \in R)
  BY <1>1, WFMin
<1>3. \A m \in S : ~(m < n)
  BY <1>2 DEF R
<1> QED
  BY <1>3

LEMMA ByHeight ==
  ASSUME NEW D, NEW H \in [D -> Nat], NEW S,
         \A e \in D : (\A p \in D : H[p] < H[e] => p \in S) => e \in S
  PROVE  D \subseteq S
<1> SUFFICES ASSUME ~(D \subseteq S) PROVE FALSE
  OBVIOUS
<1> DEFINE T == { H[e] : e \in D \ S }
<1>1. T \in SUBSET Nat /\ T # {}
  OBVIOUS
<1> HIDE DEF T
<1>2. PICK n \in T : \A m \in T : n <= m
  BY <1>1, LeastNumber
<1>3. PICK e \in D \ S : H[e] = n
  BY DEF T
<1>4. ASSUME NEW p \in D, H[p] < H[e] PROVE p \in S
  <2> SUFFICES ASSUME p \notin S PROVE FALSE
    OBVIOUS
  <2>1. H[p] \in T
    BY DEF T
  <2> QED
    BY <1>2, <1>3, <1>4, <2>1
<1> QED
  BY <1>3, <1>4

\* f is a solution below n.
Below(D, H, B, n, f) == \A e \in D : H[e] < n => f[e] = B[f][e]

\* B looks at lower elements only.
LooksBelow(D, V, H, B) ==
  \A f, g \in [D -> V], e \in D :
    (\A p \in D : H[p] < H[e] => f[p] = g[p]) => B[f][e] = B[g][e]

LEMMA BelowUnique ==
  ASSUME NEW D, NEW V, NEW H \in [D -> Nat],
         NEW B, LooksBelow(D, V, H, B)
  PROVE  \A n, m \in Nat : \A f, g \in [D -> V] :
           n <= m /\ Below(D, H, B, n, f) /\ Below(D, H, B, m, g) =>
             \A e \in D : H[e] < n => f[e] = g[e]
<1> SUFFICES ASSUME NEW n \in Nat, NEW m \in Nat, n <= m,
                    NEW f \in [D -> V], Below(D, H, B, n, f),
                    NEW g \in [D -> V], Below(D, H, B, m, g)
             PROVE  \A e \in D : H[e] < n => f[e] = g[e]
  OBVIOUS
<1> DEFINE S == {e \in D : H[e] < n => f[e] = g[e]}
<1>1. ASSUME NEW e \in D, \A p \in D : H[p] < H[e] => p \in S
      PROVE  e \in S
  <2> SUFFICES ASSUME H[e] < n PROVE f[e] = g[e]
    OBVIOUS
  <2>1. H[e] \in Nat /\ H[e] < m
    OBVIOUS
  <2>2. \A p \in D : H[p] < H[e] => f[p] = g[p]
    BY <1>1, <2>1
  <2>3. B[f][e] = B[g][e]
    BY <2>2 DEF LooksBelow
  <2> QED
    BY <2>1, <2>3 DEF Below
<1> HIDE DEF S
<1>2. D \subseteq S
  BY <1>1, ByHeight
<1> QED
  BY <1>2 DEF S

LEMMA BelowExists ==
  ASSUME NEW D, NEW V, V # {}, NEW H \in [D -> Nat],
         NEW B, \A f \in [D -> V] : B[f] \in [D -> V],
         LooksBelow(D, V, H, B), NEW n \in Nat
  PROVE  \E f \in [D -> V] : Below(D, H, B, n, f)
<1> DEFINE S == {k \in Nat : ~\E f \in [D -> V] : Below(D, H, B, k, f)}
<1> SUFFICES ASSUME S # {} PROVE FALSE
  OBVIOUS
<1>1. S \in SUBSET Nat
  OBVIOUS
<1>2. PICK k \in S : \A m \in S : k <= m
  <2> HIDE DEF S
  <2> QED
    BY <1>1, LeastNumber
<1>3. k # 0
  <2>1. PICK v \in V : TRUE
    OBVIOUS
  <2> DEFINE f == [e \in D |-> v]
  <2>2. f \in [D -> V] /\ Below(D, H, B, 0, f)
    BY DEF Below
  <2> QED
    BY <2>2
<1>4. k - 1 \in Nat /\ ~(k <= k - 1)
  BY <1>3
<1>5. PICK f \in [D -> V] : Below(D, H, B, k - 1, f)
  BY <1>2, <1>4
<1>6. B[f] \in [D -> V]
  OBVIOUS
<1>7. ASSUME NEW e \in D, H[e] < k PROVE B[f][e] = B[B[f]][e]
  <2>1. \A p \in D : H[p] < H[e] => f[p] = B[f][p]
    <3> SUFFICES ASSUME NEW p \in D, H[p] < H[e] PROVE f[p] = B[f][p]
      OBVIOUS
    <3>1. H[p] < k - 1
      BY <1>7
    <3> QED
      BY <1>5, <3>1 DEF Below
  <2> QED
    BY <1>6, <2>1 DEF LooksBelow
<1>8. Below(D, H, B, k, B[f])
  BY <1>7 DEF Below
<1> QED
  BY <1>2, <1>6, <1>8

LEMMA Recursion ==
  ASSUME NEW D, NEW V, V # {}, NEW H \in [D -> Nat],
         NEW B, \A f \in [D -> V] : B[f] \in [D -> V],
         LooksBelow(D, V, H, B)
  PROVE  \E f \in [D -> V] : f = B[f]
<1>0. \A n, m \in Nat : \A g, h \in [D -> V] :
        n <= m /\ Below(D, H, B, n, g) /\ Below(D, H, B, m, h) =>
          \A e \in D : H[e] < n => g[e] = h[e]
  BY BelowUnique
<1> DEFINE Up(n) == CHOOSE f \in [D -> V] : Below(D, H, B, n, f)
           f == [e \in D |-> Up(H[e] + 1)[e]]
<1>1. \A n \in Nat : Up(n) \in [D -> V] /\ Below(D, H, B, n, Up(n))
  BY BelowExists
<1> HIDE DEF Up
<1>2. f \in [D -> V]
  <2>1. \A e \in D : H[e] + 1 \in Nat
    OBVIOUS
  <2> QED
    BY <1>1, <2>1
<1>3. ASSUME NEW e \in D PROVE f[e] = B[f][e]
  <2> DEFINE n == H[e] + 1
  <2>1. n \in Nat /\ H[e] < n
    OBVIOUS
  <2>2. Up(n) \in [D -> V] /\ Up(n)[e] = B[Up(n)][e]
    BY <1>1, <2>1 DEF Below
  <2>3. ASSUME NEW p \in D, H[p] < H[e] PROVE f[p] = Up(n)[p]
    <3> DEFINE m == H[p] + 1
    <3>1. m \in Nat /\ m <= n /\ H[p] < m
      BY <2>3
    <3>2. /\ Up(m) \in [D -> V] /\ Below(D, H, B, m, Up(m))
          /\ Up(n) \in [D -> V] /\ Below(D, H, B, n, Up(n))
      BY <1>1, <2>1, <3>1
    <3>3. Up(m)[p] = Up(n)[p]
      <4> HIDE DEF m, n, f
      <4> QED
        BY <1>0, <2>1, <3>1, <3>2
    <3> QED
      BY <3>3
  <2>4. B[f][e] = B[Up(n)][e]
    <3> HIDE DEF f, n
    <3> QED
      BY <1>2, <2>2, <2>3 DEF LooksBelow
  <2> QED
    BY <2>2, <2>4
<1>4. B[f] \in [D -> V]
  <2> HIDE DEF f
  <2> QED
    BY <1>2
<1>5. f = B[f]
  <2> HIDE DEF f
  <2> QED
    BY <1>2, <1>3, <1>4
<1> HIDE DEF f
<1> QED
  BY <1>2, <1>5

-----------------------------------------------------------------------------
(***************************************************************************)
(* What is found of several parts.                                         *)
(***************************************************************************)

Result == [type : Type, errors : Nat, crash : BOOLEAN]

\* One step of the sum of the errors over a set.
SumStep(rs, D, f) ==
  [s \in D |-> IF s = {} THEN 0
               ELSE LET x == CHOOSE x \in s : TRUE
                    IN  rs[x].errors + f[s \ {x}]]

LEMMA SubsetsAreFinite ==
  ASSUME NEW n \in Nat
  PROVE  /\ [s \in SUBSET (1 .. n) |-> Cardinality(s)]
              \in [SUBSET (1 .. n) -> Nat]
         /\ \A s \in SUBSET (1 .. n) : \A x \in s :
              Cardinality(s \ {x}) < Cardinality(s)
<1>1. IsFiniteSet(1 .. n)
  BY FS_Interval
<1>2. ASSUME NEW s \in SUBSET (1 .. n)
      PROVE  IsFiniteSet(s) /\ Cardinality(s) \in Nat
  BY <1>1, FS_Subset, FS_CardinalityType
<1>3. ASSUME NEW s \in SUBSET (1 .. n), NEW x \in s
      PROVE  Cardinality(s \ {x}) < Cardinality(s)
  BY <1>2, FS_RemoveElement
<1> QED
  BY <1>2, <1>3

LEMMA SumExists ==
  ASSUME NEW n \in Nat, NEW rs, \A i \in 1 .. n : rs[i].errors \in Nat
  PROVE  \E f : f = SumStep(rs, SUBSET (1 .. n), f)
<1> DEFINE D == SUBSET (1 .. n)
           H == [s \in D |-> Cardinality(s)]
           B == [f \in [D -> Nat] |-> SumStep(rs, D, f)]
<1>1. H \in [D -> Nat] /\ \A s \in D : \A x \in s : H[s \ {x}] < H[s]
  BY SubsetsAreFinite
<1>2. ASSUME NEW f \in [D -> Nat] PROVE SumStep(rs, D, f) \in [D -> Nat]
  <2> SUFFICES ASSUME NEW s \in D, s # {}
               PROVE  LET x == CHOOSE x \in s : TRUE
                      IN  rs[x].errors + f[s \ {x}] \in Nat
    BY DEF SumStep
  <2> DEFINE x == CHOOSE x \in s : TRUE
  <2>1. x \in s
    OBVIOUS
  <2> HIDE DEF x
  <2>2. rs[x].errors \in Nat /\ s \ {x} \in D
    BY <2>1
  <2>3. rs[x].errors + f[s \ {x}] \in Nat
    BY <2>2
  <2> QED
    BY <2>3 DEF x
<1>3. \A f \in [D -> Nat] : B[f] \in [D -> Nat]
  BY <1>2
<1>4. LooksBelow(D, Nat, H, B)
  <2> SUFFICES ASSUME NEW f \in [D -> Nat], NEW g \in [D -> Nat], NEW s \in D,
                      \A p \in D : H[p] < H[s] => f[p] = g[p]
               PROVE  SumStep(rs, D, f)[s] = SumStep(rs, D, g)[s]
    BY DEF LooksBelow
  <2> HIDE DEF H
  <2>1. CASE s = {}
    BY <2>1 DEF SumStep
  <2>2. CASE s # {}
    <3> DEFINE x == CHOOSE x \in s : TRUE
    <3>1. x \in s
      BY <2>2
    <3>2. /\ SumStep(rs, D, f)[s] = rs[x].errors + f[s \ {x}]
          /\ SumStep(rs, D, g)[s] = rs[x].errors + g[s \ {x}]
      BY <2>2 DEF SumStep
    <3> HIDE DEF x
    <3>3. f[s \ {x}] = g[s \ {x}]
      <4>1. s \ {x} \in D /\ H[s \ {x}] < H[s]
        BY <1>1, <3>1
      <4> QED
        BY <4>1
    <3> QED
      BY <3>2, <3>3
  <2> QED
    BY <2>1, <2>2
<1>5. \E f \in [D -> Nat] : f = B[f]
  <2> HIDE DEF D, H, B
  <2> QED
    BY <1>1, <1>3, <1>4, Recursion
<1> QED
  BY <1>5, <1>2

LEMMA TogetherRule ==
  ASSUME NEW n \in Nat, NEW rs, DOMAIN rs = 1 .. n,
         \A i \in 1 .. n : rs[i] \in Result
  PROVE  /\ Together(rs) \in Result
         /\ Together(rs).errors = 0 <=> \A i \in 1 .. n : rs[i].errors = 0
         /\ Together(rs).crash <=> \E i \in 1 .. n : rs[i].crash
<1> DEFINE D == SUBSET (1 .. n)
           H == [s \in D |-> Cardinality(s)]
           f == CHOOSE f : f = SumStep(rs, D, f)
           S == {s \in D : /\ f[s] \in Nat
                           /\ f[s] = 0 <=> \A i \in s : rs[i].errors = 0}
<1>1. \A i \in 1 .. n : rs[i].errors \in Nat
  BY DEF Result
<1>2. f = SumStep(rs, D, f)
  BY <1>1, SumExists
<1>3. H \in [D -> Nat] /\ \A s \in D : \A x \in s : H[s \ {x}] < H[s]
  BY SubsetsAreFinite
<1>4. Together(rs)
        = Checked("VOID", f[1 .. n], \E i \in DOMAIN rs : rs[i].crash)
  BY DEF Together, MapThenSumSet, MapThenFoldSet, SumStep
<1> HIDE DEF f, H
<1>5. ASSUME NEW s \in D, \A p \in D : H[p] < H[s] => p \in S
      PROVE  s \in S
  <2>1. CASE s = {}
    BY <1>2, <2>1 DEF SumStep
  <2>2. CASE s # {}
    <3> DEFINE x == CHOOSE x \in s : TRUE
    <3>1. x \in s
      BY <2>2
    <3>2. f[s] = rs[x].errors + f[s \ {x}]
      BY <1>2, <2>2 DEF SumStep
    <3> HIDE DEF x
    <3>3. s \ {x} \in D /\ s \ {x} \in S
      BY <1>3, <1>5, <3>1
    <3>4. rs[x].errors \in Nat
      BY <1>1, <3>1
    <3> QED
      BY <3>1, <3>2, <3>3, <3>4
  <2> QED
    BY <2>1, <2>2
<1>6. 1 .. n \in S
  <2> HIDE DEF S, D
  <2>1. D \subseteq S
    BY <1>3, <1>5, ByHeight
  <2> QED
    BY <2>1 DEF D
<1>7. (\E i \in DOMAIN rs : rs[i].crash) \in BOOLEAN
  OBVIOUS
<1> QED
  BY <1>4, <1>6, <1>7 DEF Checked, Result, Type
-----------------------------------------------------------------------------
(***************************************************************************)
(* The stack of symbol tables.                                             *)
(***************************************************************************)

Entry == [type : Type, init : BOOLEAN, fun : 0 .. Len(program)]

\* Only functions have an f_info, and only the global table has functions.
EntryFits(e, i) ==
  \/ e = Absent
  \/ e.fun = 0 /\ e.type \in ValType
  \/ e.fun # 0 /\ e.type = "F" /\ i = 1

Typed ==
  /\ program \in Seq(Header)
  /\ symbols \in Seq([Name -> Entry])
  /\ symbols # << >>
  /\ \A i \in DOMAIN symbols, m \in Name : EntryFits(symbols[i][m], i)

LEMMA StackLength ==
  ASSUME Typed
  PROVE  /\ Len(symbols) \in Nat \ {0} /\ DOMAIN symbols = 1 .. Len(symbols)
         /\ Len(program) \in Nat /\ DOMAIN program = 1 .. Len(program)
         /\ \A i \in 1 .. Len(symbols) : symbols[i] \in [Name -> Entry]
         /\ Last(symbols) = symbols[Len(symbols)]
BY DEF Typed, Last

LEMMA MaxOfNumbers ==
  ASSUME NEW n \in Nat, NEW S \in SUBSET (0 .. n), S # {}
  PROVE  Max(S) \in S /\ \A x \in S : Max(S) >= x
<1> DEFINE T == {n - x : x \in S}
<1>1. T \in SUBSET Nat /\ T # {}
  <2>1. \A x \in S : x \in Nat /\ x <= n
    OBVIOUS
  <2>2. \A x \in S : n - x \in Nat
    BY <2>1
  <2> QED
    BY <2>2
<1> HIDE DEF T
<1>2. PICK k \in T : \A j \in T : k <= j
  BY <1>1, LeastNumber
<1>3. PICK x \in S : k = n - x
  BY DEF T
<1>4. \A y \in S : x >= y
  <2> SUFFICES ASSUME NEW y \in S PROVE x >= y
    OBVIOUS
  <2>1. n - y \in T
    BY DEF T
  <2> QED
    BY <1>2, <1>3, <2>1
<1>5. \E z \in S : \A y \in S : z >= y
  BY <1>4
<1> QED
  BY <1>5 DEF Max

LEMMA MinOfTwo ==
  ASSUME NEW a \in Nat, NEW b \in Nat
  PROVE  Min({a, b}) = IF a <= b THEN a ELSE b
<1>1. \A z \in {a, b} : (\A y \in {a, b} : z =< y) =>
        z = IF a <= b THEN a ELSE b
  OBVIOUS
<1>2. \E z \in {a, b} : \A y \in {a, b} : z =< y
  OBVIOUS
<1> QED
  BY <1>1, <1>2 DEF Min

LEMMA ScopeFound ==
  ASSUME Typed, NEW m \in Name
  PROVE  /\ ScopeOf(m) \in 0 .. Len(symbols)
         /\ ScopeOf(m) # 0 => symbols[ScopeOf(m)][m] # Absent
         /\ \A i \in DOMAIN symbols :
              symbols[i][m] # Absent => i <= ScopeOf(m)
<1> DEFINE S == { i \in DOMAIN symbols : symbols[i][m] # Absent }
           T == {0} \cup S
<1>1. Len(symbols) \in Nat /\ DOMAIN symbols = 1 .. Len(symbols)
  BY StackLength
<1>2. T \in SUBSET (0 .. Len(symbols)) /\ T # {}
  BY <1>1
<1>3. ScopeOf(m) = Max(T)
  BY DEF ScopeOf
<1> HIDE DEF T
<1>4. Max(T) \in T /\ \A x \in T : Max(T) >= x
  BY <1>1, <1>2, MaxOfNumbers
<1> QED
  BY <1>1, <1>2, <1>3, <1>4 DEF T

LEMMA LookupFound ==
  ASSUME Typed, NEW m \in Name
  PROVE  /\ LookupAll(m) \in Entry
         /\ LookupAll(m) # Absent =>
              /\ ScopeOf(m) \in DOMAIN symbols
              /\ LookupAll(m) = symbols[ScopeOf(m)][m]
              /\ EntryFits(LookupAll(m), ScopeOf(m))
         /\ LookupAll(m) = Absent <=>
              \A i \in DOMAIN symbols : symbols[i][m] = Absent
<1>1. Absent \in Entry
  BY StackLength DEF Absent, Entry, Type
<1>2. CASE ScopeOf(m) = 0
  <2>1. \A i \in DOMAIN symbols : symbols[i][m] = Absent
    BY <1>2, ScopeFound, StackLength
  <2> QED
    BY <1>1, <1>2, <2>1 DEF LookupAll
<1>3. CASE ScopeOf(m) # 0
  <2>1. /\ ScopeOf(m) \in DOMAIN symbols
        /\ symbols[ScopeOf(m)][m] # Absent
        /\ symbols[ScopeOf(m)][m] \in Entry
    BY <1>3, ScopeFound, StackLength
  <2>2. LookupAll(m) = symbols[ScopeOf(m)][m]
    BY <1>3 DEF LookupAll
  <2>3. EntryFits(symbols[ScopeOf(m)][m], ScopeOf(m))
    BY <2>1 DEF Typed
  <2> QED
    BY <2>1, <2>2, <2>3
<1> QED
  BY <1>2, <1>3

-----------------------------------------------------------------------------
(***************************************************************************)
(* What is found of an expression, from what is found of its parts.        *)
(***************************************************************************)

LEMMA CallFound ==
  ASSUME Typed, NEW e, e.name \in Name, NEW args \in Seq(Result)
  PROVE  LET f      == LookupAll(e.name)
             params == program[f.fun].params
             r      == CheckFcall(e, args)
         IN  /\ r \in Result
             /\ f = Absent => r = Failed(1, FALSE)
             /\ f # Absent /\ f.fun = 0 => r = Failed(0, TRUE)
             /\ f.fun # 0 =>
                  /\ f.fun \in DOMAIN program
                  /\ r.type = program[f.fun].ret
                  /\ r.errors = 0 <=>
                       /\ Len(args) = Len(params)
                       /\ \A i \in 1 .. Len(args) :
                            /\ args[i].errors = 0
                            /\ MatchType(args[i].type, params[i].type)
                  /\ r.crash <=> \E i \in 1 .. Len(args) :
                                   i <= Len(params) /\ args[i].crash
<1> DEFINE f      == LookupAll(e.name)
           params == program[f.fun].params
           r      == CheckFcall(e, args)
           k      == Min({Len(args), Len(params)})
           passed == [i \in 1 .. k |-> args[i]]
           wrong  == { i \in DOMAIN passed :
                         ~MatchType(passed[i].type, params[i].type) }
           all    == Together(passed)
<1>1. f \in Entry
  BY LookupFound
<1>2. CASE f = Absent
  <2>1. r = Failed(1, FALSE)
    BY <1>2 DEF CheckFcall
  <2>2. f.fun = 0
    BY <1>2 DEF Absent
  <2>3. Failed(1, FALSE) \in Result
    BY DEF Failed, Checked, Result, Type
  <2> QED
    BY <1>2, <2>1, <2>2, <2>3
<1>3. CASE f # Absent /\ f.fun = 0
  <2>1. r = Failed(0, TRUE)
    BY <1>3 DEF CheckFcall
  <2>2. Failed(0, TRUE) \in Result
    BY DEF Failed, Checked, Result, Type
  <2> QED
    BY <1>3, <2>1, <2>2
<1>4. CASE f # Absent /\ f.fun # 0
  <2>1. f.fun \in DOMAIN program /\ program[f.fun] \in Header
    BY <1>1, <1>4, StackLength DEF Entry, Typed
  <2>2. /\ params \in Seq([name : Name, type : Type \ {"TYPE_ERROR"}])
        /\ program[f.fun].ret \in Type
    BY <2>1 DEF Header
  <2>3. r = Checked(program[f.fun].ret,
                    all.errors + Cardinality(wrong)
                      + WrongCount(args, params), all.crash)
    BY <1>4 DEF CheckFcall
  <2> HIDE DEF f, params, r
  <2>4. Len(args) \in Nat /\ Len(params) \in Nat
    BY <2>2
  <2>5. k = IF Len(args) <= Len(params) THEN Len(args) ELSE Len(params)
    BY <2>4, MinOfTwo
  <2>6. k \in Nat /\ k <= Len(args) /\ k <= Len(params)
    BY <2>4, <2>5
  <2> HIDE DEF k
  <2>7. DOMAIN passed = 1 .. k /\ \A i \in 1 .. k : passed[i] = args[i]
    OBVIOUS
  <2> HIDE DEF passed
  <2>8. \A i \in 1 .. k : passed[i] \in Result
    BY <2>4, <2>6, <2>7
  <2>9. /\ all \in Result
        /\ all.errors = 0 <=> \A i \in 1 .. k : passed[i].errors = 0
        /\ all.crash <=> \E i \in 1 .. k : passed[i].crash
    BY <2>6, <2>7, <2>8, TogetherRule
  <2> HIDE DEF all
  <2>10. Cardinality(wrong) \in Nat /\ (Cardinality(wrong) = 0 <=> wrong = {})
    <3>1. IsFiniteSet(1 .. k)
      BY <2>6, FS_Interval
    <3>2. wrong \in SUBSET (1 .. k)
      BY <2>7
    <3> HIDE DEF wrong
    <3>3. IsFiniteSet(wrong)
      BY <3>1, <3>2, FS_Subset
    <3> QED
      BY <3>3, FS_CardinalityType, FS_EmptySet
  <2>11. wrong = {} <=>
           \A i \in 1 .. k : MatchType(args[i].type, params[i].type)
    BY <2>7
  <2> HIDE DEF wrong
  <2>12. /\ WrongCount(args, params) \in Nat
         /\ WrongCount(args, params) = 0 <=> Len(args) = Len(params)
    BY DEF WrongCount, OneIf
  <2>13. r.errors = all.errors + Cardinality(wrong) + WrongCount(args, params)
    BY <2>3 DEF Checked
  <2>14. all.errors \in Nat /\ all.crash \in BOOLEAN
    BY <2>9 DEF Result
  <2>15. r.type = program[f.fun].ret /\ r.crash = all.crash /\ r \in Result
    BY <2>2, <2>3, <2>10, <2>12, <2>14 DEF Checked, Result
  <2>16. r.errors = 0 <=>
           /\ Len(args) = Len(params)
           /\ \A i \in 1 .. Len(args) :
                /\ args[i].errors = 0
                /\ MatchType(args[i].type, params[i].type)
    <3>1. r.errors = 0 <=> /\ all.errors = 0
                           /\ Cardinality(wrong) = 0
                           /\ WrongCount(args, params) = 0
      BY <2>10, <2>12, <2>13, <2>14
    <3>2. Len(args) = Len(params) => k = Len(args)
      BY <2>5
    <3> QED
      BY <2>7, <2>9, <2>10, <2>11, <2>12, <3>1, <3>2
  <2>17. r.crash <=> \E i \in 1 .. Len(args) :
                       i <= Len(params) /\ args[i].crash
    <3>1. \A i : i \in 1 .. k <=> i \in 1 .. Len(args) /\ i <= Len(params)
      BY <2>4, <2>5
    <3> QED
      BY <2>7, <2>9, <2>15, <3>1
  <2> QED
    BY <1>4, <2>1, <2>15, <2>16, <2>17 DEF r, f, params
<1> QED
  BY <1>2, <1>3, <1>4

\* An expression has one of five forms, and its parts nest less deep.
LEMMA Form ==
  ASSUME NEW e \in Expr
  PROVE  /\ e.kind \in {"VALUE", "ID", "NOT", "OPERATOR", "FCALL"}
         /\ e.kind = "VALUE" => e.type \in ValType
         /\ e.kind = "ID" => e.name \in Name
         /\ e.kind = "NOT" => e.a \in Expr /\ Height[e.a] < Height[e]
         /\ e.kind = "OPERATOR" =>
              /\ e.op \in BinaryOp
              /\ e.a \in Expr /\ Height[e.a] < Height[e]
              /\ e.b \in Expr /\ Height[e.b] < Height[e]
         /\ e.kind = "FCALL" =>
              /\ e.name \in Name /\ e.args \in Seq(Expr)
              /\ \A i \in DOMAIN e.args : /\ e.args[i] \in Expr
                                          /\ Height[e.args[i]] < Height[e]
<1>1. e \in ExprForm /\ \A p \in Parts(e) : Height[p] < Height[e]
  BY ExprsAssumption, HeightAssumption
<1>2. CASE e \in [kind : {"VALUE"}, type : ValType]
                \cup [kind : {"ID"}, name : Name]
  BY <1>2
<1>3. CASE e \in [kind : {"NOT"}, a : Expr]
  <2>1. e.kind = "NOT" /\ e.a \in Expr
    BY <1>3
  <2>2. e.a \in Parts(e)
    BY <2>1 DEF Parts
  <2> QED
    BY <1>1, <2>1, <2>2
<1>4. CASE e \in [kind : {"OPERATOR"}, op : BinaryOp, a : Expr, b : Expr]
  <2>1. e.kind = "OPERATOR" /\ e.a \in Expr /\ e.b \in Expr
        /\ e.op \in BinaryOp
    BY <1>4
  <2>2. e.a \in Parts(e) /\ e.b \in Parts(e)
    BY <2>1 DEF Parts
  <2> QED
    BY <1>1, <2>1, <2>2
<1>5. CASE e \in [kind : {"FCALL"}, name : Name, args : Seq(Expr)]
  <2>1. e.kind = "FCALL" /\ e.name \in Name /\ e.args \in Seq(Expr)
    BY <1>5
  <2>2. Parts(e) = Range(e.args)
    BY <2>1 DEF Parts
  <2>3. \A i \in DOMAIN e.args : e.args[i] \in Expr /\ e.args[i] \in Parts(e)
    BY <2>1, <2>2 DEF Range
  <2> QED
    BY <1>1, <2>1, <2>3
<1> QED
  BY <1>1, <1>2, <1>3, <1>4, <1>5 DEF ExprForm

\* expr_type of an expression, when f is what it finds of the parts.
TypeAt(f, e) ==
  CASE e.kind = "VALUE"    -> Checked(e.type, 0, FALSE)
    [] e.kind = "ID"       -> CheckId(e.name)
    [] e.kind = "NOT"      -> CheckNot(f[e.a])
    [] e.kind = "OPERATOR" -> CheckBinary(e.op, f[e.a], f[e.b])
    [] e.kind = "FCALL"    ->
         CheckCallValue(e, [i \in DOMAIN e.args |-> f[e.args[i]]])

TypeStep(f) ==
  [e \in Expr |->
    CASE e.kind = "VALUE"    -> Checked(e.type, 0, FALSE)
      [] e.kind = "ID"       -> CheckId(e.name)
      [] e.kind = "NOT"      -> CheckNot(f[e.a])
      [] e.kind = "OPERATOR" -> CheckBinary(e.op, f[e.a], f[e.b])
      [] e.kind = "FCALL"    ->
           CheckCallValue(e, [i \in DOMAIN e.args |-> f[e.args[i]]])]

LEMMA IdFound ==
  ASSUME Typed, NEW m \in Name
  PROVE  CheckId(m) \in Result
<1>1. LookupAll(m) \in Entry
  BY LookupFound
<1>2. LookupAll(m).type \in Type
  BY <1>1 DEF Entry
<1> QED
  BY <1>2 DEF CheckId, Failed, Checked, Result, Type

LEMMA CheckedFound ==
  ASSUME NEW t \in Type, NEW k \in Nat, NEW c \in BOOLEAN
  PROVE  /\ Checked(t, k, c) \in Result
         /\ Failed(k, c) \in Result /\ Failed(k + 1, c) \in Result
<1>1. "TYPE_ERROR" \in Type /\ k + 1 \in Nat
  BY DEF Type
<1> QED
  BY <1>1 DEF Failed, Checked, Result

LEMMA NotFound ==
  ASSUME NEW r \in Result
  PROVE  CheckNot(r) \in Result
<1>1. r.errors \in Nat /\ r.crash \in BOOLEAN /\ "BOOL" \in Type
  BY DEF Result, Type, ValType
<1>2. CheckNot(r) \in {Checked("BOOL", r.errors, r.crash),
                      Failed(r.errors + 1, r.crash)}
  BY DEF CheckNot
<1> QED
  BY <1>1, <1>2, CheckedFound

LEMMA BinaryFound ==
  ASSUME NEW op, NEW l \in Result, NEW r \in Result
  PROVE  CheckBinary(op, l, r) \in Result
<1>1. /\ l.errors \in Nat /\ r.errors \in Nat /\ l.type \in Type
      /\ l.crash \in BOOLEAN /\ r.crash \in BOOLEAN
  BY DEF Result
<1>2. /\ l.errors + r.errors \in Nat /\ l.errors + r.errors + 1 \in Nat
      /\ (l.crash \/ r.crash) \in BOOLEAN
  BY <1>1
<1> DEFINE k == l.errors + r.errors
           c == l.crash \/ r.crash
           t == IF op = "ARITH" THEN l.type ELSE "BOOL"
<1>3. CheckBinary(op, l, r) \in {Failed(k, c), Failed(k + 1, c),
                                Checked(t, k, c)}
  BY DEF CheckBinary
<1>4. k \in Nat /\ c \in BOOLEAN /\ t \in Type
  BY <1>1, <1>2 DEF Type, ValType
<1> HIDE DEF k, c, t
<1> QED
  BY <1>3, <1>4, CheckedFound

LEMMA CallValueFound ==
  ASSUME Typed, NEW e, e.name \in Name, NEW args \in Seq(Result)
  PROVE  CheckCallValue(e, args) \in Result
<1> DEFINE r == CheckFcall(e, args)
<1>1. r \in Result
  BY CallFound
<1>2. CheckCallValue(e, args) \in {r, Failed(r.errors + 1, FALSE)}
  BY DEF CheckCallValue
<1> HIDE DEF r
<1>3. Failed(r.errors + 1, FALSE) \in Result
  BY <1>1 DEF Failed, Checked, Result, Type
<1> QED
  BY <1>1, <1>2, <1>3

LEMMA ArgsFound ==
  ASSUME NEW s \in Seq(Expr), NEW f, NEW V, \A i \in DOMAIN s : f[s[i]] \in V
  PROVE  /\ [i \in DOMAIN s |-> f[s[i]]] \in Seq(V)
         /\ Len([i \in DOMAIN s |-> f[s[i]]]) = Len(s)
<1>1. DOMAIN s = 1 .. Len(s) /\ Len(s) \in Nat
  OBVIOUS
<1> QED
  BY <1>1

LEMMA TypeAtFound ==
  ASSUME Typed, NEW e \in Expr, NEW f,
         \A p \in Expr : Height[p] < Height[e] => f[p] \in Result
  PROVE  TypeAt(f, e) \in Result
<1>1. CASE e.kind = "VALUE"
  <2>1. TypeAt(f, e) = Checked(e.type, 0, FALSE)
    BY <1>1 DEF TypeAt
  <2>2. e.type \in Type
    BY <1>1, Form DEF Type
  <2> QED
    BY <2>1, <2>2 DEF Checked, Result
<1>2. CASE e.kind = "ID"
  BY <1>2, Form, IdFound DEF TypeAt
<1>3. CASE e.kind = "NOT"
  BY <1>3, Form, NotFound DEF TypeAt
<1>4. CASE e.kind = "OPERATOR"
  BY <1>4, Form, BinaryFound DEF TypeAt
<1>5. CASE e.kind = "FCALL"
  <2> DEFINE args == [i \in DOMAIN e.args |-> f[e.args[i]]]
  <2>1. args \in Seq(Result) /\ e.name \in Name
    BY <1>5, Form, ArgsFound
  <2>2. TypeAt(f, e) = CheckCallValue(e, args)
    BY <1>5 DEF TypeAt
  <2> HIDE DEF args
  <2> QED
    BY <2>1, <2>2, CallValueFound
<1> QED
  BY <1>1, <1>2, <1>3, <1>4, <1>5, Form

LEMMA TypeAtLooks ==
  ASSUME NEW e \in Expr, NEW f, NEW g,
         \A p \in Expr : Height[p] < Height[e] => f[p] = g[p]
  PROVE  TypeAt(f, e) = TypeAt(g, e)
<1>1. CASE e.kind \in {"VALUE", "ID"}
  BY <1>1 DEF TypeAt
<1>2. CASE e.kind = "NOT"
  BY <1>2, Form DEF TypeAt
<1>3. CASE e.kind = "OPERATOR"
  BY <1>3, Form DEF TypeAt
<1>4. CASE e.kind = "FCALL"
  <2>1. [i \in DOMAIN e.args |-> f[e.args[i]]]
          = [i \in DOMAIN e.args |-> g[e.args[i]]]
    BY <1>4, Form
  <2> QED
    BY <1>4, <2>1 DEF TypeAt
<1> QED
  BY <1>1, <1>2, <1>3, <1>4, Form

\* expr_type finds what its cases say.
LEMMA ExprTypeRule ==
  ASSUME Typed, NEW e \in Expr
  PROVE  ExprType[e] \in Result /\ ExprType[e] = TypeAt(ExprType, e)
<1> DEFINE H == [x \in Expr |-> Height[x]]
           B == [f \in [Expr -> Result] |-> TypeStep(f)]
<1>1. H \in [Expr -> Nat] /\ \A x \in Expr : H[x] = Height[x]
  BY HeightAssumption
<1>2. \A f, x : x \in Expr => TypeStep(f)[x] = TypeAt(f, x)
  BY DEF TypeStep, TypeAt
<1>3. ASSUME NEW f \in [Expr -> Result]
      PROVE  TypeStep(f) \in [Expr -> Result]
  <2>1. \A x \in Expr : TypeStep(f)[x] \in Result
    BY <1>2, TypeAtFound
  <2> QED
    BY <2>1 DEF TypeStep
<1>4. \A f \in [Expr -> Result] : B[f] \in [Expr -> Result]
  BY <1>3
<1>5. LooksBelow(Expr, Result, H, B)
  <2> SUFFICES ASSUME NEW f \in [Expr -> Result], NEW g \in [Expr -> Result],
                      NEW x \in Expr,
                      \A p \in Expr : H[p] < H[x] => f[p] = g[p]
               PROVE  TypeStep(f)[x] = TypeStep(g)[x]
    BY DEF LooksBelow
  <2>1. \A p \in Expr : Height[p] < Height[x] => f[p] = g[p]
    BY <1>1
  <2> QED
    BY <1>2, <2>1, TypeAtLooks
<1>6. Result # {}
  <2>1. Checked("VOID", 0, FALSE) \in Result
    BY DEF Checked, Result, Type
  <2> QED
    BY <2>1
<1>7. \E f \in [Expr -> Result] : f = B[f]
  <2> HIDE DEF H, B
  <2> QED
    BY <1>1, <1>4, <1>5, <1>6, Recursion
<1>8. \E f : f = TypeStep(f)
  BY <1>7
<1>9. ExprType = TypeStep(ExprType)
  BY <1>8 DEF ExprType, TypeStep
<1>10. \A x \in Expr : ExprType[x] = TypeAt(ExprType, x)
  BY <1>2, <1>9
<1> DEFINE S == { x \in Expr : ExprType[x] \in Result }
<1>11. ASSUME NEW x \in Expr, \A p \in Expr : H[p] < H[x] => p \in S
       PROVE  x \in S
  <2>1. \A p \in Expr : Height[p] < Height[x] => ExprType[p] \in Result
    BY <1>1, <1>11
  <2> QED
    BY <1>10, <2>1, TypeAtFound
<1>12. Expr \subseteq S
  <2> HIDE DEF H, S
  <2> QED
    BY <1>1, <1>11, ByHeight
<1> QED
  BY <1>10, <1>12

LEMMA ArgTypesFound ==
  ASSUME Typed, NEW e \in Expr, e.kind = "FCALL"
  PROVE  /\ ArgTypes(e) \in Seq(Result) /\ Len(ArgTypes(e)) = Len(e.args)
         /\ \A i \in DOMAIN e.args : ArgTypes(e)[i] = ExprType[e.args[i]]
         /\ DOMAIN e.args = 1 .. Len(e.args) /\ Len(e.args) \in Nat
         /\ CheckFcall(e, ArgTypes(e)) \in Result
<1>1. e.args \in Seq(Expr) /\ e.name \in Name
  BY Form
<1>2. \A i \in DOMAIN e.args : ExprType[e.args[i]] \in Result
  BY <1>1, ExprTypeRule
<1>3. /\ ArgTypes(e) \in Seq(Result) /\ Len(ArgTypes(e)) = Len(e.args)
      /\ \A i \in DOMAIN e.args : ArgTypes(e)[i] = ExprType[e.args[i]]
  BY <1>1, <1>2, ArgsFound DEF ArgTypes
<1>4. CheckFcall(e, ArgTypes(e)) \in Result
  BY <1>1, <1>3, CallFound
<1>5. DOMAIN e.args = 1 .. Len(e.args) /\ Len(e.args) \in Nat
  BY <1>1
<1> QED
  BY <1>3, <1>4, <1>5

\* The walk over an expression, when f is what it finds of the parts.
WalkAt(f, e) ==
  CASE e.kind \in {"VALUE", "ID"} -> Checked("VOID", 0, FALSE)
    [] e.kind = "NOT"      -> f[e.a]
    [] e.kind = "OPERATOR" -> Together(<<f[e.a], f[e.b]>>)
    [] e.kind = "FCALL"    ->
         Together(<<CheckFcall(e, ArgTypes(e))>>
                  \o [i \in DOMAIN e.args |-> f[e.args[i]]])

WalkStep(f) ==
  [e \in Expr |->
    CASE e.kind \in {"VALUE", "ID"} -> Checked("VOID", 0, FALSE)
      [] e.kind = "NOT"      -> f[e.a]
      [] e.kind = "OPERATOR" -> Together(<<f[e.a], f[e.b]>>)
      [] e.kind = "FCALL"    ->
           Together(<<CheckFcall(e, ArgTypes(e))>>
                    \o [i \in DOMAIN e.args |-> f[e.args[i]]])]

\* A result before others.
LEMMA FirstAndRest ==
  ASSUME NEW r \in Result, NEW s \in Seq(Result)
  PROVE  LET all == <<r>> \o s
         IN  /\ DOMAIN all = 1 .. Len(s) + 1 /\ Len(s) + 1 \in Nat
             /\ \A i \in 1 .. Len(s) + 1 : all[i] \in Result
             /\ all[1] = r /\ \A i \in 1 .. Len(s) : all[i + 1] = s[i]
             /\ Together(all) \in Result
             /\ Together(all).errors = 0 <=>
                  r.errors = 0 /\ \A i \in 1 .. Len(s) : s[i].errors = 0
<1> DEFINE all == <<r>> \o s
           n   == Len(s) + 1
<1>1. /\ DOMAIN all = 1 .. n /\ n \in Nat /\ all[1] = r
      /\ \A i \in 1 .. n : all[i] \in Result
      /\ \A i \in 1 .. Len(s) : all[i + 1] = s[i]
  OBVIOUS
<1>2. Len(s) \in Nat
  OBVIOUS
<1> HIDE DEF all
<1>3. /\ Together(all) \in Result
      /\ Together(all).errors = 0 <=> \A i \in 1 .. n : all[i].errors = 0
  BY <1>1, TogetherRule
<1>4. (\A i \in 1 .. n : all[i].errors = 0) <=>
        r.errors = 0 /\ \A i \in 1 .. Len(s) : s[i].errors = 0
  <2>1. ASSUME \A i \in 1 .. n : all[i].errors = 0
        PROVE  r.errors = 0 /\ \A i \in 1 .. Len(s) : s[i].errors = 0
    <3>1. 1 \in 1 .. n /\ \A i \in 1 .. Len(s) : i + 1 \in 1 .. n
      BY <1>2
    <3> QED
      BY <1>1, <2>1, <3>1
  <2>2. ASSUME r.errors = 0, \A i \in 1 .. Len(s) : s[i].errors = 0,
               NEW i \in 1 .. n
        PROVE  all[i].errors = 0
    <3>1. CASE i = 1
      BY <1>1, <2>2, <3>1
    <3>2. CASE i # 1
      <4>1. i - 1 \in 1 .. Len(s) /\ (i - 1) + 1 = i
        BY <1>2, <3>2
      <4>2. all[(i - 1) + 1] = s[i - 1]
        BY <1>1, <4>1
      <4> QED
        BY <2>2, <4>1, <4>2
    <3> QED
      BY <3>1, <3>2
  <2> QED
    BY <2>1, <2>2
<1> QED
  BY <1>1, <1>3, <1>4 DEF all

LEMMA PairFound ==
  ASSUME NEW l \in Result, NEW r \in Result
  PROVE  /\ Together(<<l, r>>) \in Result
         /\ Together(<<l, r>>).errors = 0 <=> l.errors = 0 /\ r.errors = 0
<1> DEFINE rs == <<l, r>>
<1>1. /\ DOMAIN rs = 1 .. 2 /\ rs[1] = l /\ rs[2] = r
      /\ \A i \in 1 .. 2 : rs[i] \in Result
  OBVIOUS
<1> HIDE DEF rs
<1>2. /\ Together(rs) \in Result
      /\ Together(rs).errors = 0 <=> \A i \in 1 .. 2 : rs[i].errors = 0
  BY <1>1, TogetherRule
<1>3. (\A i \in 1 .. 2 : rs[i].errors = 0) <=> l.errors = 0 /\ r.errors = 0
  BY <1>1
<1> QED
  BY <1>2, <1>3 DEF rs

LEMMA WalkAtFound ==
  ASSUME Typed, NEW e \in Expr, NEW f,
         \A p \in Expr : Height[p] < Height[e] => f[p] \in Result
  PROVE  WalkAt(f, e) \in Result
<1>1. CASE e.kind \in {"VALUE", "ID"}
  <2>1. "VOID" \in Type
    BY DEF Type
  <2> QED
    BY <1>1, <2>1, CheckedFound DEF WalkAt
<1>2. CASE e.kind = "NOT"
  BY <1>2, Form DEF WalkAt
<1>3. CASE e.kind = "OPERATOR"
  BY <1>3, Form, PairFound DEF WalkAt
<1>4. CASE e.kind = "FCALL"
  <2> DEFINE s == [i \in DOMAIN e.args |-> f[e.args[i]]]
             r == CheckFcall(e, ArgTypes(e))
  <2>1. s \in Seq(Result)
    BY <1>4, Form, ArgsFound
  <2>2. r \in Result
    BY <1>4, ArgTypesFound
  <2>3. WalkAt(f, e) = Together(<<r>> \o s)
    BY <1>4 DEF WalkAt
  <2> HIDE DEF s, r
  <2> QED
    BY <2>1, <2>2, <2>3, FirstAndRest
<1> QED
  BY <1>1, <1>2, <1>3, <1>4, Form

LEMMA WalkAtLooks ==
  ASSUME NEW e \in Expr, NEW f, NEW g,
         \A p \in Expr : Height[p] < Height[e] => f[p] = g[p]
  PROVE  WalkAt(f, e) = WalkAt(g, e)
<1>1. CASE e.kind \in {"VALUE", "ID"}
  BY <1>1 DEF WalkAt
<1>2. CASE e.kind = "NOT"
  BY <1>2, Form DEF WalkAt
<1>3. CASE e.kind = "OPERATOR"
  BY <1>3, Form DEF WalkAt
<1>4. CASE e.kind = "FCALL"
  <2>1. [i \in DOMAIN e.args |-> f[e.args[i]]]
          = [i \in DOMAIN e.args |-> g[e.args[i]]]
    BY <1>4, Form
  <2> QED
    BY <1>4, <2>1 DEF WalkAt
<1> QED
  BY <1>1, <1>2, <1>3, <1>4, Form

\* The walk over an expression finds what its cases say.
LEMMA WalkRule ==
  ASSUME Typed, NEW e \in Expr
  PROVE  Walk[e] \in Result /\ Walk[e] = WalkAt(Walk, e)
<1> DEFINE H == [x \in Expr |-> Height[x]]
           B == [f \in [Expr -> Result] |-> WalkStep(f)]
<1>1. H \in [Expr -> Nat] /\ \A x \in Expr : H[x] = Height[x]
  BY HeightAssumption
<1>2. \A f, x : x \in Expr => WalkStep(f)[x] = WalkAt(f, x)
  BY DEF WalkStep, WalkAt
<1>3. ASSUME NEW f \in [Expr -> Result]
      PROVE  WalkStep(f) \in [Expr -> Result]
  <2>1. \A x \in Expr : WalkStep(f)[x] \in Result
    BY <1>2, WalkAtFound
  <2> QED
    BY <2>1 DEF WalkStep
<1>4. \A f \in [Expr -> Result] : B[f] \in [Expr -> Result]
  BY <1>3
<1>5. LooksBelow(Expr, Result, H, B)
  <2> SUFFICES ASSUME NEW f \in [Expr -> Result], NEW g \in [Expr -> Result],
                      NEW x \in Expr,
                      \A p \in Expr : H[p] < H[x] => f[p] = g[p]
               PROVE  WalkStep(f)[x] = WalkStep(g)[x]
    BY DEF LooksBelow
  <2>1. \A p \in Expr : Height[p] < Height[x] => f[p] = g[p]
    BY <1>1
  <2> QED
    BY <1>2, <2>1, WalkAtLooks
<1>6. Result # {}
  <2>1. Checked("VOID", 0, FALSE) \in Result
    BY DEF Checked, Result, Type
  <2> QED
    BY <2>1
<1>7. \E f \in [Expr -> Result] : f = B[f]
  <2> HIDE DEF H, B
  <2> QED
    BY <1>1, <1>4, <1>5, <1>6, Recursion
<1>8. \E f : f = WalkStep(f)
  BY <1>7
<1>9. Walk = WalkStep(Walk)
  BY <1>8 DEF Walk, WalkStep
<1>10. \A x \in Expr : Walk[x] = WalkAt(Walk, x)
  BY <1>2, <1>9
<1> DEFINE S == { x \in Expr : Walk[x] \in Result }
<1>11. ASSUME NEW x \in Expr, \A p \in Expr : H[p] < H[x] => p \in S
       PROVE  x \in S
  <2>1. \A p \in Expr : Height[p] < Height[x] => Walk[p] \in Result
    BY <1>1, <1>11
  <2> QED
    BY <1>10, <2>1, WalkAtFound
<1>12. Expr \subseteq S
  <2> HIDE DEF H, S
  <2> QED
    BY <1>1, <1>11, ByHeight
<1> QED
  BY <1>10, <1>12

\* The types that the rules accept, when f are those of the parts.
AcceptAt(f, e) ==
  CASE e.kind = "VALUE" -> {e.type}
    [] e.kind = "ID"    ->
         { t \in Type : Flat[e.name].init /\ Flat[e.name].type = t }
    [] e.kind = "NOT"   -> {"BOOL"} \cap f[e.a]
    [] e.kind = "OPERATOR" ->
         { IF e.op = "ARITH" THEN t ELSE "BOOL" :
             t \in (OperandTypes(e.op) \ {"TYPE_ERROR"})
                  \cap f[e.a] \cap f[e.b] }
    [] e.kind = "FCALL" ->
         { program[k].ret : k \in { k \in DOMAIN program :
             /\ LookupAll(e.name).fun = k
             /\ program[k].ret \notin {"VOID", "TYPE_ERROR"}
             /\ Len(e.args) = Len(program[k].params)
             /\ \A i \in DOMAIN e.args :
                  program[k].params[i].type \in f[e.args[i]] } }

AcceptStep(f) ==
  [e \in Expr |->
    CASE e.kind = "VALUE" -> {e.type}
      [] e.kind = "ID"    ->
           { t \in Type : Flat[e.name].init /\ Flat[e.name].type = t }
      [] e.kind = "NOT"   -> {"BOOL"} \cap f[e.a]
      [] e.kind = "OPERATOR" ->
           { IF e.op = "ARITH" THEN t ELSE "BOOL" :
               t \in (OperandTypes(e.op) \ {"TYPE_ERROR"})
                    \cap f[e.a] \cap f[e.b] }
      [] e.kind = "FCALL" ->
           { program[k].ret : k \in { k \in DOMAIN program :
               /\ LookupAll(e.name).fun = k
               /\ program[k].ret \notin {"VOID", "TYPE_ERROR"}
               /\ Len(e.args) = Len(program[k].params)
               /\ \A i \in DOMAIN e.args :
                    program[k].params[i].type \in f[e.args[i]] } }]

LEMMA AcceptAtFound ==
  ASSUME Typed, NEW e \in Expr, NEW f,
         \A p \in Expr : Height[p] < Height[e] => f[p] \in SUBSET Type
  PROVE  AcceptAt(f, e) \in SUBSET Type
<1>1. CASE e.kind = "VALUE"
  BY <1>1, Form DEF AcceptAt, Type
<1>2. CASE e.kind = "ID"
  BY <1>2 DEF AcceptAt
<1>3. CASE e.kind = "NOT"
  BY <1>3, Form DEF AcceptAt
<1>4. CASE e.kind = "OPERATOR"
  <2>1. f[e.a] \in SUBSET Type /\ "BOOL" \in Type
    BY <1>4, Form DEF Type, ValType
  <2> QED
    BY <1>4, <2>1 DEF AcceptAt
<1>5. CASE e.kind = "FCALL"
  <2>1. \A k \in DOMAIN program : program[k].ret \in Type
    <3>1. \A k \in DOMAIN program : program[k] \in Header
      BY DEF Typed
    <3> QED
      BY <3>1 DEF Header
  <2> QED
    BY <1>5, <2>1 DEF AcceptAt
<1> QED
  BY <1>1, <1>2, <1>3, <1>4, <1>5, Form

LEMMA AcceptAtLooks ==
  ASSUME NEW e \in Expr, NEW f, NEW g,
         \A p \in Expr : Height[p] < Height[e] => f[p] = g[p]
  PROVE  AcceptAt(f, e) = AcceptAt(g, e)
<1>1. CASE e.kind \in {"VALUE", "ID"}
  BY <1>1 DEF AcceptAt
<1>2. CASE e.kind = "NOT"
  BY <1>2, Form DEF AcceptAt
<1>3. CASE e.kind = "OPERATOR"
  <2>1. f[e.a] = g[e.a] /\ f[e.b] = g[e.b]
    BY <1>3, Form
  <2> QED
    BY <1>3, <2>1 DEF AcceptAt
<1>4. CASE e.kind = "FCALL"
  <2>1. \A i \in DOMAIN e.args : f[e.args[i]] = g[e.args[i]]
    BY <1>4, Form
  <2> QED
    BY <1>4, <2>1 DEF AcceptAt
<1> QED
  BY <1>1, <1>2, <1>3, <1>4, Form

LEMMA AcceptedRule ==
  ASSUME Typed, NEW e \in Expr
  PROVE  Accepted[e] = AcceptAt(Accepted, e)
<1> DEFINE H == [x \in Expr |-> Height[x]]
           V == SUBSET Type
           B == [f \in [Expr -> V] |-> AcceptStep(f)]
<1>1. H \in [Expr -> Nat] /\ \A x \in Expr : H[x] = Height[x]
  BY HeightAssumption
<1>2. \A f, x : x \in Expr => AcceptStep(f)[x] = AcceptAt(f, x)
  BY DEF AcceptStep, AcceptAt
<1>3. ASSUME NEW f \in [Expr -> V]
      PROVE  AcceptStep(f) \in [Expr -> V]
  <2>1. \A x \in Expr : AcceptStep(f)[x] \in V
    BY <1>2, AcceptAtFound
  <2> QED
    BY <2>1 DEF AcceptStep
<1>4. \A f \in [Expr -> V] : B[f] \in [Expr -> V]
  BY <1>3
<1>5. LooksBelow(Expr, V, H, B)
  <2> SUFFICES ASSUME NEW f \in [Expr -> V], NEW g \in [Expr -> V],
                      NEW x \in Expr,
                      \A p \in Expr : H[p] < H[x] => f[p] = g[p]
               PROVE  AcceptStep(f)[x] = AcceptStep(g)[x]
    BY DEF LooksBelow
  <2>1. \A p \in Expr : Height[p] < Height[x] => f[p] = g[p]
    BY <1>1
  <2> QED
    BY <1>2, <2>1, AcceptAtLooks
<1>6. V # {}
  OBVIOUS
<1>7. \E f \in [Expr -> V] : f = B[f]
  <2> HIDE DEF H, B, V
  <2> QED
    BY <1>1, <1>4, <1>5, <1>6, Recursion
<1>8. \E f : f = AcceptStep(f)
  BY <1>7
<1>9. Accepted = AcceptStep(Accepted)
  BY <1>8 DEF Accepted, AcceptStep
<1> QED
  BY <1>2, <1>9

-----------------------------------------------------------------------------
(***************************************************************************)
(* The checker agrees with the rules.                                      *)
(***************************************************************************)

\* What is found of e, whose walk finds w, agrees with the types a that the
\* rules accept.
Agrees(r, a, w) ==
  ~r.crash =>
    /\ r.errors # 0 => a = {}
    /\ r.errors = 0 => /\ a = {r.type} /\ w.errors = 0
                       /\ r.type \notin {"TYPE_ERROR", "VOID"}

LEMMA IdAgrees ==
  ASSUME Typed, NEW e \in Expr, e.kind = "ID"
  PROVE  Agrees(ExprType[e], Accepted[e], Walk[e])
<1> DEFINE m == e.name
           a == LookupAll(m)
<1>1. m \in Name /\ a \in Entry
  BY Form, LookupFound
<1>2. /\ ExprType[e] = CheckId(m) /\ Walk[e].errors = 0
      /\ Accepted[e] = { t \in Type : Flat[m].init /\ Flat[m].type = t }
  <2>1. ExprType[e] = CheckId(m)
    BY ExprTypeRule DEF TypeAt
  <2>2. Walk[e] = Checked("VOID", 0, FALSE)
    BY WalkRule DEF WalkAt
  <2>3. Accepted[e] = { t \in Type : Flat[m].init /\ Flat[m].type = t }
    BY AcceptedRule DEF AcceptAt
  <2> QED
    BY <2>1, <2>2, <2>3 DEF Checked
<1>3. /\ Flat[m].init = a.init
      /\ Flat[m].type = IF a = Absent THEN "VOID" ELSE a.type
  BY <1>1 DEF Flat
<1>4. a # Absent => EntryFits(a, ScopeOf(m))
  BY <1>1, LookupFound
<1>5. CheckId(m) = IF a = Absent \/ ~a.init THEN Failed(1, FALSE)
                   ELSE Checked(a.type, 0, FALSE)
  BY DEF CheckId
<1> HIDE DEF m, a
<1>6. CASE a = Absent \/ ~a.init
  <2>1. ExprType[e].errors = 1
    BY <1>2, <1>5, <1>6 DEF Failed, Checked
  <2>2. ~Flat[m].init
    BY <1>3, <1>6 DEF Absent
  <2> QED
    BY <1>2, <2>1, <2>2 DEF Agrees
<1>7. CASE a # Absent /\ a.init
  <2>1. ExprType[e].errors = 0 /\ ExprType[e].type = a.type
    BY <1>2, <1>5, <1>7 DEF Checked
  <2>2. a.type \in Type
    BY <1>1 DEF Entry
  <2>3. Accepted[e] = {a.type}
    BY <1>2, <1>3, <1>7, <2>2
  <2>4. a.type \notin {"TYPE_ERROR", "VOID"}
    BY <1>4, <1>7 DEF EntryFits, ValType
  <2> QED
    BY <1>2, <2>1, <2>3, <2>4 DEF Agrees
<1> QED
  BY <1>6, <1>7

LEMMA NotAgrees ==
  ASSUME Typed, NEW e \in Expr, e.kind = "NOT",
         Agrees(ExprType[e.a], Accepted[e.a], Walk[e.a])
  PROVE  Agrees(ExprType[e], Accepted[e], Walk[e])
<1> DEFINE r == ExprType[e.a]
           a == Accepted[e.a]
<1>1. e.a \in Expr
  BY Form
<1>2. /\ ExprType[e] = CheckNot(r) /\ Walk[e] = Walk[e.a]
      /\ Accepted[e] = {"BOOL"} \cap a
  BY ExprTypeRule, WalkRule, AcceptedRule DEF TypeAt, WalkAt, AcceptAt
<1>3. r \in Result
  BY <1>1, ExprTypeRule
<1> HIDE DEF r
<1>4. CASE r.type \in {"TYPE_ERROR", "BOOL"}
  <2>1. /\ ExprType[e].type = "BOOL" /\ ExprType[e].errors = r.errors
        /\ ExprType[e].crash = r.crash
    BY <1>2, <1>4 DEF CheckNot, Checked
  <2> QED
    BY <1>2, <1>4, <2>1 DEF Agrees, r
<1>5. CASE r.type \notin {"TYPE_ERROR", "BOOL"}
  <2>1. ExprType[e].errors = r.errors + 1 /\ ExprType[e].crash = r.crash
    BY <1>2, <1>5 DEF CheckNot, Failed, Checked
  <2>2. r.errors + 1 # 0
    BY <1>3 DEF Result
  <2>3. ~r.crash => "BOOL" \notin a
    BY <1>5 DEF Agrees, r
  <2> QED
    BY <1>2, <2>1, <2>2, <2>3 DEF Agrees
<1> QED
  BY <1>4, <1>5

LEMMA BinaryAgrees ==
  ASSUME Typed, NEW e \in Expr, e.kind = "OPERATOR",
         Agrees(ExprType[e.a], Accepted[e.a], Walk[e.a]),
         Agrees(ExprType[e.b], Accepted[e.b], Walk[e.b])
  PROVE  Agrees(ExprType[e], Accepted[e], Walk[e])
<1> DEFINE l == ExprType[e.a]
           r == ExprType[e.b]
           k == l.errors + r.errors
           c == l.crash \/ r.crash
           x == ExprType[e]
           O == OperandTypes(e.op)
<1>1. e.a \in Expr /\ e.b \in Expr /\ e.op \in BinaryOp
  BY Form
<1>2. x = CheckBinary(e.op, l, r)
  BY ExprTypeRule DEF TypeAt
<1>3. Walk[e].errors = 0 <=> Walk[e.a].errors = 0 /\ Walk[e.b].errors = 0
  <2>1. Walk[e] = Together(<<Walk[e.a], Walk[e.b]>>)
    BY WalkRule DEF WalkAt
  <2>2. Walk[e.a] \in Result /\ Walk[e.b] \in Result
    BY <1>1, WalkRule
  <2> QED
    BY <2>1, <2>2, PairFound
<1>4. Accepted[e] = { IF e.op = "ARITH" THEN t ELSE "BOOL" :
                        t \in (O \ {"TYPE_ERROR"})
                             \cap Accepted[e.a] \cap Accepted[e.b] }
  BY AcceptedRule DEF AcceptAt
<1>5. l \in Result /\ r \in Result
  BY <1>1, ExprTypeRule
<1>6. x = IF "TYPE_ERROR" \in {l.type, r.type} THEN Failed(k, c)
          ELSE IF l.type # r.type \/ l.type \notin O THEN Failed(k + 1, c)
          ELSE Checked(IF e.op = "ARITH" THEN l.type ELSE "BOOL", k, c)
  BY <1>2 DEF CheckBinary
<1>7. /\ Agrees(l, Accepted[e.a], Walk[e.a])
      /\ Agrees(r, Accepted[e.b], Walk[e.b])
      /\ l.errors \in Nat /\ r.errors \in Nat
  BY <1>5 DEF Result
<1> HIDE DEF l, r, x, O
<1>8. k = 0 <=> l.errors = 0 /\ r.errors = 0
  BY <1>7
<1>9. k # 0 /\ ~c => Accepted[e] = {}
  BY <1>4, <1>7, <1>8 DEF Agrees
<1>10. CASE "TYPE_ERROR" \in {l.type, r.type}
  <2>1. x.errors = k /\ (x.crash <=> c)
    BY <1>6, <1>10 DEF Failed, Checked
  <2>2. ~c => k # 0
    BY <1>7, <1>8, <1>10 DEF Agrees
  <2> QED
    BY <1>9, <2>1, <2>2 DEF Agrees, x
<1>11. CASE /\ "TYPE_ERROR" \notin {l.type, r.type}
            /\ l.type # r.type \/ l.type \notin O
  <2>1. x.errors = k + 1 /\ (x.crash <=> c)
    BY <1>6, <1>11 DEF Failed, Checked
  <2>2. k + 1 # 0
    BY <1>7
  <2>3. ~c /\ k = 0 => Accepted[e] = {}
    BY <1>4, <1>7, <1>8, <1>11 DEF Agrees
  <2> QED
    BY <1>9, <2>1, <2>2, <2>3 DEF Agrees, x
<1>12. CASE /\ "TYPE_ERROR" \notin {l.type, r.type}
            /\ l.type = r.type /\ l.type \in O
  <2> DEFINE t == IF e.op = "ARITH" THEN l.type ELSE "BOOL"
  <2>1. x.errors = k /\ (x.crash <=> c) /\ x.type = t
    BY <1>6, <1>12 DEF Checked
  <2>2. ~c /\ k = 0 => Accepted[e] = {t}
    <3> SUFFICES ASSUME ~c, k = 0 PROVE Accepted[e] = {t}
      OBVIOUS
    <3>1. Accepted[e.a] = {l.type} /\ Accepted[e.b] = {l.type}
      BY <1>7, <1>8, <1>12 DEF Agrees
    <3>2. (O \ {"TYPE_ERROR"}) \cap Accepted[e.a] \cap Accepted[e.b]
            = {l.type}
      BY <1>12, <3>1
    <3> QED
      BY <1>4, <3>2
  <2>3. t \notin {"TYPE_ERROR", "VOID"}
    <3>1. e.op = "ARITH" => l.type \in {"INT", "FLOAT"}
      BY <1>12 DEF O, OperandTypes
    <3> QED
      BY <3>1
  <2>4. ~c /\ k = 0 => Walk[e].errors = 0
    BY <1>3, <1>7, <1>8 DEF Agrees
  <2> HIDE DEF t
  <2> QED
    BY <1>9, <2>1, <2>2, <2>3, <2>4 DEF Agrees, x
<1> QED
  BY <1>10, <1>11, <1>12

LEMMA ParamFields ==
  ASSUME NEW ps \in Seq([name : Name, type : Type \ {"TYPE_ERROR"}]),
         NEW i \in 1 .. Len(ps)
  PROVE  ps[i].name \in Name /\ ps[i].type \in Type \ {"TYPE_ERROR"}
<1>1. ASSUME NEW P, ps \in Seq(P) PROVE ps[i] \in P
  BY <1>1
<1> DEFINE P == [name : Name, type : Type \ {"TYPE_ERROR"}]
<1>2. ps \in Seq(P)
  OBVIOUS
<1> HIDE DEF P
<1>3. ps[i] \in P
  BY <1>1, <1>2
<1> QED
  BY <1>3 DEF P

LEMMA CallAgrees ==
  ASSUME Typed, NEW e \in Expr, e.kind = "FCALL",
         \A i \in DOMAIN e.args :
           Agrees(ExprType[e.args[i]], Accepted[e.args[i]], Walk[e.args[i]])
  PROVE  Agrees(ExprType[e], Accepted[e], Walk[e])
<1> DEFINE args   == ArgTypes(e)
           n      == Len(e.args)
           f      == LookupAll(e.name)
           params == program[f.fun].params
           r      == CheckFcall(e, args)
           x      == ExprType[e]
           t      == program[f.fun].ret
<1>1. /\ args \in Seq(Result) /\ Len(args) = n /\ n \in Nat
      /\ \A i \in 1 .. n : args[i] = ExprType[e.args[i]]
      /\ DOMAIN e.args = 1 .. n /\ r \in Result
  BY ArgTypesFound
<1>2. e.name \in Name /\ e.args \in Seq(Expr)
  BY Form
<1>3. x = CheckCallValue(e, args)
  BY ExprTypeRule DEF TypeAt, ArgTypes
<1>4. Accepted[e] =
        { program[k].ret : k \in { k \in DOMAIN program :
            /\ f.fun = k
            /\ program[k].ret \notin {"VOID", "TYPE_ERROR"}
            /\ Len(e.args) = Len(program[k].params)
            /\ \A i \in DOMAIN e.args :
                 program[k].params[i].type \in Accepted[e.args[i]] } }
  BY AcceptedRule DEF AcceptAt
<1>5. /\ f = Absent => r = Failed(1, FALSE)
      /\ f # Absent /\ f.fun = 0 => r = Failed(0, TRUE)
      /\ f.fun # 0 =>
           /\ f.fun \in DOMAIN program
           /\ r.type = t
           /\ r.errors = 0 <=>
                /\ Len(args) = Len(params)
                /\ \A i \in 1 .. Len(args) :
                     /\ args[i].errors = 0
                     /\ MatchType(args[i].type, params[i].type)
           /\ r.crash <=> \E i \in 1 .. Len(args) :
                            i <= Len(params) /\ args[i].crash
  BY <1>1, <1>2, CallFound
<1>6. x = IF r.crash \/ f = Absent THEN r
          ELSE IF MatchType(r.type, "VOID") THEN Failed(r.errors + 1, FALSE)
          ELSE r
  BY <1>3 DEF CheckCallValue
<1>7. DOMAIN program = 1 .. Len(program) /\ Len(program) \in Nat
  BY StackLength
<1>8. CASE f = Absent
  <2>1. x.errors = 1
    BY <1>5, <1>6, <1>8 DEF Failed, Checked
  <2>2. f.fun = 0
    BY <1>8 DEF Absent
  <2>3. Accepted[e] = {}
    BY <1>4, <1>7, <2>2
  <2> QED
    BY <2>1, <2>3 DEF Agrees
<1>9. CASE f # Absent /\ f.fun = 0
  <2>1. x.crash
    BY <1>5, <1>6, <1>9 DEF Failed, Checked
  <2> QED
    BY <2>1 DEF Agrees
<1>10. CASE f # Absent /\ f.fun # 0
  <2> SUFFICES ASSUME ~x.crash
               PROVE  /\ x.errors # 0 => Accepted[e] = {}
                      /\ x.errors = 0 =>
                           /\ Accepted[e] = {x.type} /\ Walk[e].errors = 0
                           /\ x.type \notin {"TYPE_ERROR", "VOID"}
    BY DEF Agrees
  <2>1. r.errors \in Nat /\ r.errors + 1 # 0
    BY <1>1 DEF Result
  <2>2. ~r.crash
    BY <1>6
  <2>3. x = IF t \in {"VOID", "TYPE_ERROR"} THEN Failed(r.errors + 1, FALSE)
            ELSE r
    BY <1>5, <1>6, <1>10, <2>2 DEF MatchType
  <2>4. /\ f.fun \in DOMAIN program /\ program[f.fun] \in Header
    BY <1>5, <1>10 DEF Typed
  <2>5. params \in Seq([name : Name, type : Type \ {"TYPE_ERROR"}])
    BY <2>4 DEF Header
  <2>6. Accepted[e] = IF /\ t \notin {"VOID", "TYPE_ERROR"}
                         /\ n = Len(params)
                         /\ \A i \in DOMAIN e.args :
                              params[i].type \in Accepted[e.args[i]]
                      THEN {t} ELSE {}
    BY <1>4, <2>4
  <2> HIDE DEF f, params, r, t, args, x
  <2>7. ASSUME n = Len(params), NEW i \in 1 .. n
        PROVE  /\ params[i].type \in Accepted[e.args[i]] <=>
                    /\ args[i].errors = 0
                    /\ MatchType(args[i].type, params[i].type)
               /\ args[i].errors = 0 => Walk[e.args[i]].errors = 0
    <3>1. Agrees(args[i], Accepted[e.args[i]], Walk[e.args[i]])
      BY <1>1
    <3>2. ~args[i].crash
      <4>1. f.fun # 0 /\ i \in 1 .. Len(args) /\ i <= Len(params)
        BY <1>1, <1>10, <2>7
      <4> QED
        BY <1>5, <2>2, <4>1
    <3>3. params[i].type # "TYPE_ERROR"
      <4>1. i \in 1 .. Len(params)
        BY <2>7
      <4> QED
        BY <2>5, <4>1, ParamFields
    <3> QED
      BY <3>1, <3>2, <3>3 DEF Agrees, MatchType
  <2>8. r.errors = 0 <=> /\ n = Len(params)
                         /\ \A i \in DOMAIN e.args :
                              params[i].type \in Accepted[e.args[i]]
    BY <1>1, <1>5, <1>10, <2>7
  <2>9. r.errors = 0 => Walk[e].errors = 0
    <3> SUFFICES ASSUME r.errors = 0 PROVE Walk[e].errors = 0
      OBVIOUS
    <3> DEFINE s == [i \in DOMAIN e.args |-> Walk[e.args[i]]]
    <3>1. Walk[e] = Together(<<r>> \o s)
      BY WalkRule DEF WalkAt, r, args
    <3>2. /\ s \in Seq(Result) /\ Len(s) = n
          /\ \A i \in 1 .. n : s[i] = Walk[e.args[i]]
      <4>1. \A i \in DOMAIN e.args : Walk[e.args[i]] \in Result
        BY <1>2, WalkRule
      <4> QED
        BY <1>1, <1>2, <4>1, ArgsFound
    <3> HIDE DEF s
    <3>3. \A i \in 1 .. n : s[i].errors = 0
      BY <1>1, <1>5, <1>10, <2>7, <3>2
    <3> QED
      BY <1>1, <3>1, <3>2, <3>3, FirstAndRest
  <2>10. CASE t \in {"VOID", "TYPE_ERROR"}
    <3>1. x.errors = r.errors + 1
      BY <2>3, <2>10 DEF Failed, Checked
    <3> QED
      BY <2>1, <2>6, <2>10, <3>1
  <2>11. CASE t \notin {"VOID", "TYPE_ERROR"}
    <3>1. x = r /\ r.type = t
      BY <1>5, <1>10, <2>3, <2>11
    <3> QED
      BY <2>6, <2>8, <2>9, <2>11, <3>1
  <2> QED
    BY <2>10, <2>11
<1> QED
  BY <1>8, <1>9, <1>10

LEMMA RulesAgree ==
  ASSUME Typed
  PROVE  \A e \in Expr : Agrees(ExprType[e], Accepted[e], Walk[e])
<1> DEFINE H == [x \in Expr |-> Height[x]]
           S == { x \in Expr : Agrees(ExprType[x], Accepted[x], Walk[x]) }
<1>1. H \in [Expr -> Nat] /\ \A x \in Expr : H[x] = Height[x]
  BY HeightAssumption
<1>2. ASSUME NEW e \in Expr, \A p \in Expr : H[p] < H[e] => p \in S
      PROVE  e \in S
  <2>1. \A p \in Expr : Height[p] < Height[e] =>
          Agrees(ExprType[p], Accepted[p], Walk[p])
    BY <1>1, <1>2
  <2> SUFFICES Agrees(ExprType[e], Accepted[e], Walk[e])
    OBVIOUS
  <2>2. CASE e.kind = "VALUE"
    <3>1. /\ ExprType[e] = Checked(e.type, 0, FALSE)
          /\ Walk[e].errors = 0 /\ Accepted[e] = {e.type}
      <4>1. ExprType[e] = Checked(e.type, 0, FALSE)
        BY <2>2, ExprTypeRule DEF TypeAt
      <4>2. Walk[e] = Checked("VOID", 0, FALSE)
        BY <2>2, WalkRule DEF WalkAt
      <4>3. Accepted[e] = {e.type}
        BY <2>2, AcceptedRule DEF AcceptAt
      <4> QED
        BY <4>1, <4>2, <4>3 DEF Checked
    <3>2. e.type \in ValType
      BY <2>2, Form
    <3> QED
      BY <3>1, <3>2 DEF Agrees, Checked, ValType
  <2>3. CASE e.kind = "ID"
    BY <2>3, IdAgrees
  <2>4. CASE e.kind = "NOT"
    BY <2>1, <2>4, Form, NotAgrees
  <2>5. CASE e.kind = "OPERATOR"
    BY <2>1, <2>5, Form, BinaryAgrees
  <2>6. CASE e.kind = "FCALL"
    BY <2>1, <2>6, Form, CallAgrees
  <2> QED
    BY <2>2, <2>3, <2>4, <2>5, <2>6, Form
<1>3. Expr \subseteq S
  <2> HIDE DEF H, S
  <2> QED
    BY <1>1, <1>2, ByHeight
<1> QED
  BY <1>3

LEMMA TypedAgrees ==
  ASSUME Typed
  PROVE  TypingAgrees
<1> SUFFICES ASSUME NEW e \in Exprs, ~ExprType[e].crash
             PROVE  /\ ExprType[e].errors = 0 <=> Accepted[e] # {}
                    /\ ExprType[e].errors = 0 =>
                         /\ ExprType[e].type \in Accepted[e]
                         /\ Walk[e].errors = 0
  BY DEF TypingAgrees
<1>1. e \in Expr
  BY ExprsAssumption
<1> QED
  BY <1>1, RulesAgree DEF Agrees

-----------------------------------------------------------------------------
(***************************************************************************)
(* The inductive invariant.                                                *)
(***************************************************************************)

\* What waits for the statements of a list waits in a list or an if.
Waiting == ListKind \cup {"ELSEIF"}

Frame ==
  [kind : ListKind, rets : BOOLEAN]
  \cup [kind : {"INIT"}, name : Name, value : Exprs]
  \cup [kind : {"IF", "ELSEIF"}, rets : BOOLEAN, then : BOOLEAN]

\* A stack outside of functions has initialisers only; one of a function has
\* its body at the bottom.
StackFits(s, inside) ==
  /\ s \in Seq(Frame)
  /\ \A i \in 1 .. Len(s) :
       /\ i > 1 => s[i].kind # "FBODY"
       /\ i < Len(s) => s[i].kind \in Waiting
       /\ ~inside => s[i].kind = "INIT"
  /\ inside => Len(s) >= 1 /\ s[1].kind = "FBODY"

Lists(s) == Cardinality({ i \in DOMAIN s : s[i].kind \in ListKind })

Basics ==
  /\ program \in Programs
  /\ current \in 0 .. Len(program)
  /\ next \in 1 .. Len(program) + 1
  /\ param \in Nat \ {0} /\ errors \in Nat
  /\ stmts \in 0 .. MaxStmts
  /\ status \in Status
  /\ status = "header" => current # 0
  /\ status \in {"declaring", "done"} => current = 0
  /\ status \in {"declaring", "done", "header"} => ctrl = << >>
  /\ current # 0 => next <= Len(program)

\* A name is in one table at most.
NoShadow ==
  \A m \in Name : \A i, j \in DOMAIN symbols :
    symbols[i][m] # Absent /\ symbols[j][m] # Absent => i = j

Nested == StackFits(ctrl, current # 0 /\ status # "header")

Counted == Len(symbols) = 1 + OneIf(status = "header") + Lists(ctrl)

\* The functions declared so far.
Known == IF status = "declaring" THEN next - 1 ELSE Len(program)

Described ==
  /\ \A k \in 1 .. Known :
       /\ symbols[1][program[k].name].fun # 0
       /\ errors = 0 => symbols[1][program[k].name].fun = k
  /\ status = "declaring" =>
       \A m \in Name : symbols[1][m] # Absent => symbols[1][m].fun # 0

\* The parameters declared so far, in the scope of the function.
KnownParams ==
  IF status = "header" THEN param - 1 ELSE Len(program[next].params)

Walked ==
  current # 0 =>
    /\ symbols[1][program[next].name].fun = current
    /\ errors = 0 =>
         \A i \in 1 .. Len(program[next].params) :
           i <= KnownParams =>
             symbols[2][program[next].params[i].name] # Absent

IInv == Basics /\ Typed /\ NoShadow /\ Nested /\ Counted /\ Described /\ Walked

-----------------------------------------------------------------------------
(***************************************************************************)
(* What is seen of the tables when no name is in two of them.              *)
(***************************************************************************)

Sight ==
  \A m \in Name :
    /\ LookupAll(m) \in Entry
    /\ LookupAll(m) = Absent <=>
         \A i \in DOMAIN symbols : symbols[i][m] = Absent
    /\ \A i \in DOMAIN symbols :
         symbols[i][m] # Absent =>
           ScopeOf(m) = i /\ LookupAll(m) = symbols[i][m]
    /\ LookupAll(m) # Absent =>
         /\ ScopeOf(m) \in DOMAIN symbols
         /\ symbols[ScopeOf(m)][m] = LookupAll(m)
         /\ LookupAll(m).type # "VOID"
    /\ LookupAll(m) = Absent => Flat[m] = [type |-> "VOID", init |-> FALSE]
    /\ LookupAll(m) # Absent =>
         Flat[m] = [type |-> LookupAll(m).type, init |-> LookupAll(m).init]

LEMMA SightFound == Typed /\ NoShadow => Sight
<1> SUFFICES ASSUME Typed, NoShadow, NEW m \in Name
             PROVE  /\ LookupAll(m) \in Entry
                    /\ LookupAll(m) = Absent <=>
                         \A i \in DOMAIN symbols : symbols[i][m] = Absent
                    /\ \A i \in DOMAIN symbols :
                         symbols[i][m] # Absent =>
                           ScopeOf(m) = i /\ LookupAll(m) = symbols[i][m]
                    /\ LookupAll(m) # Absent =>
                         /\ ScopeOf(m) \in DOMAIN symbols
                         /\ symbols[ScopeOf(m)][m] = LookupAll(m)
                         /\ LookupAll(m).type # "VOID"
                    /\ LookupAll(m) = Absent =>
                         Flat[m] = [type |-> "VOID", init |-> FALSE]
                    /\ LookupAll(m) # Absent =>
                         Flat[m] = [type |-> LookupAll(m).type,
                                    init |-> LookupAll(m).init]
  BY DEF Sight
<1>1. /\ LookupAll(m) \in Entry
      /\ LookupAll(m) # Absent =>
           /\ ScopeOf(m) \in DOMAIN symbols
           /\ LookupAll(m) = symbols[ScopeOf(m)][m]
           /\ EntryFits(LookupAll(m), ScopeOf(m))
      /\ LookupAll(m) = Absent <=>
           \A i \in DOMAIN symbols : symbols[i][m] = Absent
  BY LookupFound
<1>2. \A i \in DOMAIN symbols :
        symbols[i][m] # Absent =>
          ScopeOf(m) = i /\ LookupAll(m) = symbols[i][m]
  <2> SUFFICES ASSUME NEW i \in DOMAIN symbols, symbols[i][m] # Absent
               PROVE  ScopeOf(m) = i /\ LookupAll(m) = symbols[i][m]
    OBVIOUS
  <2>1. /\ ScopeOf(m) \in DOMAIN symbols
        /\ LookupAll(m) = symbols[ScopeOf(m)][m]
        /\ symbols[ScopeOf(m)][m] # Absent
    BY <1>1
  <2> QED
    BY <2>1 DEF NoShadow
<1>3. LookupAll(m) # Absent => LookupAll(m).type # "VOID"
  BY <1>1 DEF EntryFits, ValType
<1>4. /\ Flat[m] = [type |-> IF LookupAll(m) = Absent THEN "VOID"
                             ELSE LookupAll(m).type,
                    init |-> LookupAll(m).init]
  BY DEF Flat
<1>5. LookupAll(m) = Absent => ~LookupAll(m).init
  BY DEF Absent
<1>6. LookupAll(m) = Absent => LookupAll(m).init = FALSE
  BY DEF Absent
<1> QED
  BY <1>1, <1>2, <1>3, <1>4, <1>6

LEMMA SightNext == Typed' /\ NoShadow' => Sight'
BY SightFound, PTL

LEMMA StackLengthNext ==
  Typed' => /\ Len(symbols') \in Nat \ {0}
            /\ DOMAIN symbols' = 1 .. Len(symbols')
            /\ \A i \in 1 .. Len(symbols') : symbols'[i] \in [Name -> Entry']
BY DEF Typed

\* The entries of the global table and of a function's scope stay.
Kept ==
  \A i \in {1, 2} \cap DOMAIN symbols :
    /\ i \in DOMAIN symbols'
    /\ \A m \in Name : symbols[i][m] # Absent =>
         symbols'[i][m] # Absent /\ symbols'[i][m].fun = symbols[i][m].fun

LEMMA EnterTable ==
  ASSUME Typed, NoShadow, EnterScope, program' = program
  PROVE  /\ Typed' /\ NoShadow' /\ Kept
         /\ Len(symbols') = Len(symbols) + 1
         /\ View!EnterScope
<1> DEFINE n == Len(symbols)
<1>1. /\ n \in Nat \ {0} /\ DOMAIN symbols = 1 .. n
      /\ \A i \in 1 .. n : symbols[i] \in [Name -> Entry]
  BY StackLength
<1>2. NewTable \in [Name -> Entry] /\ \A m \in Name : NewTable[m] = Absent
  <2>1. Absent \in Entry
    BY StackLength DEF Absent, Entry, Type
  <2> QED
    BY <2>1 DEF NewTable
<1>3. /\ symbols' \in Seq([Name -> Entry]) /\ Len(symbols') = n + 1
      /\ DOMAIN symbols' = 1 .. (n + 1)
      /\ \A i \in 1 .. n : symbols'[i] = symbols[i]
      /\ symbols'[n + 1] = NewTable
  BY <1>2 DEF Typed, EnterScope
<1> HIDE DEF n
<1>4. \A i \in DOMAIN symbols', m \in Name :
        symbols'[i][m] # Absent =>
          i \in DOMAIN symbols /\ symbols'[i][m] = symbols[i][m]
  BY <1>1, <1>2, <1>3
<1>5. Typed'
  <2>1. Entry' = Entry
    BY DEF Entry
  <2>2. \A i \in DOMAIN symbols', m \in Name : EntryFits(symbols'[i][m], i)
    BY <1>4 DEF Typed, EntryFits
  <2>3. symbols' # << >>
    BY <1>1, <1>3
  <2> QED
    BY <1>3, <2>1, <2>2, <2>3 DEF Typed, EntryFits
<1>6. NoShadow'
  BY <1>4 DEF NoShadow
<1>7. Kept
  BY <1>1, <1>3 DEF Kept
<1>8. Sight /\ Sight'
  BY <1>5, <1>6, SightFound, SightNext
<1>9. \A m \in Name : Flat'[m] = Flat[m]
  <2> SUFFICES ASSUME NEW m \in Name PROVE Flat'[m] = Flat[m]
    OBVIOUS
  <2>1. LookupAll(m)' = LookupAll(m)
    <3>1. CASE LookupAll(m) = Absent
      <4>1. \A i \in DOMAIN symbols : symbols[i][m] = Absent
        BY <1>8, <3>1 DEF Sight
      <4>2. \A i \in DOMAIN symbols' : symbols'[i][m] = Absent
        BY <1>4, <4>1
      <4> QED
        BY <1>8, <3>1, <4>2 DEF Sight
    <3>2. CASE LookupAll(m) # Absent
      <4>1. PICK i \in DOMAIN symbols : symbols[i][m] # Absent
        BY <1>8, <3>2 DEF Sight
      <4>2. i \in DOMAIN symbols' /\ symbols'[i][m] = symbols[i][m]
        BY <1>1, <1>3
      <4> QED
        BY <1>8, <4>1, <4>2 DEF Sight
    <3> QED
      BY <3>1, <3>2
  <2> QED
    BY <1>8, <2>1 DEF Sight
<1>10. UNCHANGED Flat
  BY <1>9 DEF Flat
<1>11. Opened' = Append(Opened, {})
  <2>1. /\ DOMAIN Opened = 1 .. n /\ Len(Opened) = n
        /\ Opened \in Seq(SUBSET Name)
    BY <1>1 DEF Opened
  <2>2. DOMAIN Opened' = 1 .. n + 1
    BY <1>3 DEF Opened
  <2>3. \A i \in 1 .. n : Opened'[i] = Opened[i]
    BY <1>1, <1>3 DEF Opened
  <2>4. Opened'[n + 1] = {}
    BY <1>1, <1>2, <1>3 DEF Opened
  <2>5. Opened' = [i \in 1 .. n + 1 |-> Opened'[i]]
    BY <2>2 DEF Opened
  <2>6. /\ DOMAIN Append(Opened, {}) = 1 .. n + 1
        /\ \A i \in 1 .. n : Append(Opened, {})[i] = Opened[i]
        /\ Append(Opened, {})[n + 1] = {}
    BY <1>1, <2>1
  <2> QED
    BY <1>1, <2>1, <2>3, <2>4, <2>5, <2>6
<1> QED
  BY <1>3, <1>5, <1>6, <1>7, <1>10, <1>11 DEF View!EnterScope, n

LEMMA ExitTable ==
  ASSUME Typed, NoShadow, ExitScope, program' = program, Len(symbols) > 1
  PROVE  /\ Typed' /\ NoShadow' /\ (Len(symbols) > 2 => Kept)
         /\ Len(symbols') = Len(symbols) - 1
         /\ symbols'[1] = symbols[1]
         /\ View!ExitScope
<1> DEFINE n == Len(symbols)
<1>1. /\ n \in Nat \ {0} /\ DOMAIN symbols = 1 .. n /\ n > 1
      /\ \A i \in 1 .. n : symbols[i] \in [Name -> Entry]
  BY StackLength
<1>2. /\ symbols' \in Seq([Name -> Entry]) /\ Len(symbols') = n - 1
      /\ DOMAIN symbols' = 1 .. (n - 1)
      /\ \A i \in 1 .. (n - 1) : symbols'[i] = symbols[i]
  BY <1>1 DEF Typed, ExitScope, Front
<1> HIDE DEF n
<1>3. \A i \in DOMAIN symbols' :
        i \in DOMAIN symbols /\ symbols'[i] = symbols[i]
  BY <1>1, <1>2
<1>4. Typed'
  <2>1. Entry' = Entry
    BY DEF Entry
  <2>2. \A i \in DOMAIN symbols', m \in Name : EntryFits(symbols'[i][m], i)
    BY <1>3 DEF Typed, EntryFits
  <2>3. symbols' # << >>
    BY <1>1, <1>2
  <2> QED
    BY <1>2, <2>1, <2>2, <2>3 DEF Typed, EntryFits
<1>5. NoShadow'
  BY <1>3 DEF NoShadow
<1>6. n > 2 => Kept
  <2> SUFFICES ASSUME n > 2, NEW i \in {1, 2}
               PROVE  i \in DOMAIN symbols' /\ symbols'[i] = symbols[i]
    BY DEF Kept
  <2> QED
    BY <1>1, <1>2
<1>7. Sight /\ Sight'
  BY <1>4, <1>5, SightFound, SightNext
<1>8. ASSUME NEW m \in Name
      PROVE  Flat'[m] = IF symbols[n][m] # Absent
                        THEN [type |-> "VOID", init |-> FALSE] ELSE Flat[m]
  <2>1. n \in DOMAIN symbols
    BY <1>1
  <2>2. CASE symbols[n][m] # Absent
    <3>1. \A i \in DOMAIN symbols' : symbols'[i][m] = Absent
      <4> SUFFICES ASSUME NEW i \in DOMAIN symbols', symbols'[i][m] # Absent
                   PROVE  FALSE
        OBVIOUS
      <4>1. i \in DOMAIN symbols /\ symbols[i][m] # Absent
        BY <1>3
      <4>2. i = n
        BY <2>1, <2>2, <4>1 DEF NoShadow
      <4> QED
        BY <1>1, <1>2, <4>2
    <3> QED
      BY <1>7, <2>2, <3>1 DEF Sight
  <2>3. CASE symbols[n][m] = Absent
    <3>1. LookupAll(m)' = LookupAll(m)
      <4>1. CASE LookupAll(m) = Absent
        <5>1. \A i \in DOMAIN symbols : symbols[i][m] = Absent
          BY <1>7, <4>1 DEF Sight
        <5>2. \A i \in DOMAIN symbols' : symbols'[i][m] = Absent
          BY <1>3, <5>1
        <5> QED
          BY <1>7, <4>1, <5>2 DEF Sight
      <4>2. CASE LookupAll(m) # Absent
        <5>1. PICK i \in DOMAIN symbols : symbols[i][m] # Absent
          BY <1>7, <4>2 DEF Sight
        <5>2. i # n
          BY <2>3, <5>1
        <5>3. i \in DOMAIN symbols' /\ symbols'[i][m] = symbols[i][m]
          BY <1>1, <1>2, <5>2
        <5> QED
          BY <1>7, <5>1, <5>3 DEF Sight
      <4> QED
        BY <4>1, <4>2
    <3> QED
      BY <1>7, <2>3, <3>1 DEF Sight
  <2> QED
    BY <2>2, <2>3
<1>9. /\ Opened \in Seq(SUBSET Name) /\ Len(Opened) = n
      /\ \A i \in 1 .. n : Opened[i] = { m \in Name : symbols[i][m] # Absent }
  BY <1>1 DEF Opened
<1>10. Last(Opened) = { m \in Name : symbols[n][m] # Absent }
  BY <1>1, <1>9 DEF Last
<1>11. Flat' = [m \in Name |-> IF m \in Last(Opened) THEN View!Undeclared
                               ELSE Flat[m]]
  <2>1. Flat' = [m \in Name |-> Flat'[m]]
    BY DEF Flat
  <2>2. \A m \in Name : Flat'[m] = IF m \in Last(Opened) THEN View!Undeclared
                                  ELSE Flat[m]
    BY <1>8, <1>10 DEF View!Undeclared
  <2> HIDE DEF Flat
  <2> QED
    BY <2>1, <2>2
<1>12. Opened' = Front(Opened)
  <2>1. /\ Opened' = [i \in 1 .. (n - 1) |-> Opened'[i]]
        /\ \A i \in 1 .. (n - 1) : Opened'[i] = Opened[i]
    BY <1>1, <1>2, <1>9 DEF Opened
  <2>2. /\ DOMAIN Front(Opened) = 1 .. (n - 1)
        /\ \A i \in 1 .. (n - 1) : Front(Opened)[i] = Opened[i]
        /\ Front(Opened) = [i \in 1 .. (n - 1) |-> Front(Opened)[i]]
    BY <1>1, <1>9 DEF Front
  <2> QED
    BY <2>1, <2>2
<1>13. View!ExitScope
  <2>1. View!Last(Opened) = Last(Opened) /\ View!Front(Opened) = Front(Opened)
    BY DEF View!Last, View!Front, Last, Front
  <2> QED
    BY <1>11, <1>12, <2>1 DEF View!ExitScope
<1>14. symbols'[1] = symbols[1]
  BY <1>1, <1>2
<1> QED
  BY <1>2, <1>4, <1>5, <1>6, <1>13, <1>14 DEF n

WithEntry(k, m, entry) == [symbols EXCEPT ![k][m] = entry]

\* One entry of table k becomes a fitting one.
LEMMA EntryTable ==
  ASSUME Typed, NEW m \in Name, NEW entry \in Entry, entry # Absent,
         NEW k \in DOMAIN symbols, EntryFits(entry, k), program' = program,
         symbols' = WithEntry(k, m, entry)
  PROVE  /\ Typed' /\ DOMAIN symbols' = DOMAIN symbols
         /\ Len(symbols') = Len(symbols)
         /\ symbols'[k][m] = entry
         /\ \A i \in DOMAIN symbols, x \in Name :
              i # k \/ x # m => symbols'[i][x] = symbols[i][x]
<1> DEFINE n == Len(symbols)
<1>1. /\ n \in Nat \ {0} /\ DOMAIN symbols = 1 .. n
      /\ \A i \in 1 .. n : symbols[i] \in [Name -> Entry]
  BY StackLength
<1>2. /\ symbols' \in Seq([Name -> Entry]) /\ Len(symbols') = n
      /\ DOMAIN symbols' = 1 .. n
      /\ \A i \in 1 .. n :
           symbols'[i] = IF i = k THEN [symbols[i] EXCEPT ![m] = entry]
                         ELSE symbols[i]
  <2> DEFINE t == [symbols[k] EXCEPT ![m] = entry]
  <2>1. t \in [Name -> Entry]
    BY <1>1
  <2>2. symbols' = [symbols EXCEPT ![k] = t]
    BY DEF WithEntry
  <2>3. symbols \in Seq([Name -> Entry])
    BY DEF Typed
  <2>4. \A i \in 1 .. n : symbols'[i] = IF i = k THEN t ELSE symbols[i]
    <3> HIDE DEF t
    <3> QED
      BY <1>1, <2>2
  <2> HIDE DEF t
  <2>5. symbols' \in Seq([Name -> Entry]) /\ Len(symbols') = n
    BY <2>1, <2>2, <2>3
  <2> QED
    BY <2>4, <2>5 DEF t
<1> HIDE DEF n
<1>3. \A i \in DOMAIN symbols, x \in Name :
        symbols'[i][x] = IF i = k /\ x = m THEN entry ELSE symbols[i][x]
  BY <1>1, <1>2
<1>4. Typed'
  <2>1. Entry' = Entry
    BY DEF Entry
  <2>2. \A i \in DOMAIN symbols', x \in Name : EntryFits(symbols'[i][x], i)
    BY <1>1, <1>2, <1>3 DEF Typed, EntryFits
  <2>3. symbols' # << >>
    BY <1>1, <1>2
  <2> QED
    BY <1>2, <2>1, <2>2, <2>3 DEF Typed, EntryFits
<1> QED
  BY <1>1, <1>2, <1>3, <1>4 DEF n

LEMMA InsertTable ==
  ASSUME Typed, NoShadow, NEW m \in Name, NEW entry \in Entry,
         entry # Absent, EntryFits(entry, Len(symbols)), LookupAll(m) = Absent,
         symbols' = Inserted(m, entry), program' = program
  PROVE  /\ Typed' /\ NoShadow' /\ Kept
         /\ Len(symbols') = Len(symbols)
         /\ symbols'[Len(symbols)][m] = entry
         /\ ~View!Visible(m)
         /\ Flat' = [Flat EXCEPT ![m] = [type |-> entry.type,
                                         init |-> entry.init]]
         /\ Opened' = [Opened EXCEPT ![Len(Opened)] = @ \cup {m}]
<1> DEFINE n == Len(symbols)
<1>1. /\ n \in Nat \ {0} /\ DOMAIN symbols = 1 .. n /\ n \in DOMAIN symbols
      /\ symbols \in Seq([Name -> Entry])
  BY StackLength DEF Typed
<1>2. /\ Typed' /\ DOMAIN symbols' = DOMAIN symbols
      /\ Len(symbols') = n
      /\ symbols'[n][m] = entry
      /\ \A i \in DOMAIN symbols, x \in Name :
           i # n \/ x # m => symbols'[i][x] = symbols[i][x]
  <2>1. symbols' = WithEntry(n, m, entry)
    BY DEF Inserted, WithEntry
  <2> HIDE DEF n
  <2>2. n \in DOMAIN symbols /\ EntryFits(entry, n) /\ Len(symbols) = n
    BY <1>1 DEF n
  <2> QED
    BY <2>1, <2>2, EntryTable
<1> HIDE DEF n
<1>3. Sight
  BY SightFound
<1>4. \A i \in DOMAIN symbols : symbols[i][m] = Absent
  BY <1>3 DEF Sight
<1>5. NoShadow'
  <2> SUFFICES ASSUME NEW x \in Name,
                      NEW i \in DOMAIN symbols, NEW j \in DOMAIN symbols,
                      symbols'[i][x] # Absent, symbols'[j][x] # Absent
               PROVE  i = j
    BY <1>2 DEF NoShadow
  <2>1. CASE x = m
    BY <1>2, <1>4, <2>1
  <2>2. CASE x # m
    BY <1>2, <2>2 DEF NoShadow
  <2> QED
    BY <2>1, <2>2
<1>6. Kept
  BY <1>2, <1>4 DEF Kept
<1>7. Sight'
  BY <1>2, <1>5, SightNext
<1>8. ~View!Visible(m)
  BY <1>3 DEF Sight, View!Visible, View!Undeclared
<1>9. \A x \in Name :
        Flat'[x] = IF x = m THEN [type |-> entry.type, init |-> entry.init]
                   ELSE Flat[x]
  <2> SUFFICES ASSUME NEW x \in Name
               PROVE  Flat'[x] = IF x = m THEN [type |-> entry.type,
                                                init |-> entry.init]
                                 ELSE Flat[x]
    OBVIOUS
  <2>1. CASE x = m
    <3>1. LookupAll(m)' = entry
      BY <1>1, <1>2, <1>7 DEF Sight
    <3> QED
      BY <1>7, <2>1, <3>1 DEF Sight
  <2>2. CASE x # m
    <3>1. \A i \in DOMAIN symbols : symbols'[i][x] = symbols[i][x]
      BY <1>2, <2>2
    <3>2. LookupAll(x)' = LookupAll(x)
      <4>1. CASE LookupAll(x) = Absent
        <5>1. \A i \in DOMAIN symbols : symbols[i][x] = Absent
          BY <1>3, <4>1 DEF Sight
        <5>2. \A i \in DOMAIN symbols' : symbols'[i][x] = Absent
          BY <1>2, <3>1, <5>1
        <5> QED
          BY <1>7, <4>1, <5>2 DEF Sight
      <4>2. CASE LookupAll(x) # Absent
        <5>1. PICK i \in DOMAIN symbols : symbols[i][x] # Absent
          BY <1>3, <4>2 DEF Sight
        <5>2. i \in DOMAIN symbols' /\ symbols'[i][x] = symbols[i][x]
          BY <1>2, <3>1
        <5> QED
          BY <1>3, <1>7, <5>1, <5>2 DEF Sight
      <4> QED
        BY <4>1, <4>2
    <3> QED
      BY <1>3, <1>7, <2>2, <3>2 DEF Sight
  <2> QED
    BY <2>1, <2>2
<1>10. Flat' = [Flat EXCEPT ![m] = [type |-> entry.type,
                                    init |-> entry.init]]
  <2>1. Flat' = [x \in Name |-> Flat'[x]] /\ Flat = [x \in Name |-> Flat[x]]
    BY DEF Flat
  <2> HIDE DEF Flat
  <2> QED
    BY <1>9, <2>1
<1>11. Opened' = [Opened EXCEPT ![Len(Opened)] = @ \cup {m}]
  <2>1. /\ Opened = [i \in 1 .. n |-> Opened[i]] /\ Len(Opened) = n
        /\ \A i \in 1 .. n :
             Opened[i] = { x \in Name : symbols[i][x] # Absent }
    BY <1>1 DEF Opened
  <2>2. /\ Opened' = [i \in 1 .. n |-> Opened'[i]]
        /\ \A i \in 1 .. n :
             Opened'[i] = { x \in Name : symbols'[i][x] # Absent }
    BY <1>1, <1>2 DEF Opened
  <2>3. ASSUME NEW i \in 1 .. n, i # n PROVE Opened'[i] = Opened[i]
    <3>1. \A x \in Name : symbols'[i][x] = symbols[i][x]
      BY <1>1, <1>2, <2>3
    <3>2. { x \in Name : symbols'[i][x] # Absent }
            = { x \in Name : symbols[i][x] # Absent }
      BY <3>1
    <3>3. /\ Opened'[i] = { x \in Name : symbols'[i][x] # Absent }
          /\ Opened[i] = { x \in Name : symbols[i][x] # Absent }
      BY <2>1, <2>2
    <3> QED
      BY <3>2, <3>3
  <2>4. Opened'[n] = Opened[n] \cup {m}
    BY <1>1, <1>2, <2>1, <2>2
  <2> QED
    BY <1>1, <2>1, <2>2, <2>3, <2>4
<1> QED
  BY <1>2, <1>5, <1>6, <1>8, <1>10, <1>11 DEF n

LEMMA Initialised ==
  ASSUME NEW t, NEW b \in BOOLEAN, NEW r, r = [type |-> t, init |-> b]
  PROVE  [r EXCEPT !.init = TRUE] = [type |-> t, init |-> TRUE]
<1> DEFINE s == [r EXCEPT !.init = TRUE]
<1>1. r \in [type : {t}, init : BOOLEAN]
  OBVIOUS
<1>2. s \in [type : {t}, init : BOOLEAN] /\ s.type = t /\ s.init = TRUE
  BY <1>1
<1> HIDE DEF s
<1>3. s = [type |-> t, init |-> TRUE]
  BY <1>2
<1> QED
  BY <1>3 DEF s

LEMMA InitTable ==
  ASSUME Typed, NoShadow, NEW m \in Name, LookupAll(m) # Absent,
         symbols' = WithEntry(ScopeOf(m), m,
                              [LookupAll(m) EXCEPT !.init = TRUE]),
         program' = program
  PROVE  /\ Typed' /\ NoShadow' /\ Kept
         /\ Len(symbols') = Len(symbols)
         /\ View!Initialise(m)
<1>1. Sight
  BY SightFound
<1>2. PICK k \in DOMAIN symbols :
        /\ k = ScopeOf(m) /\ symbols[k][m] = LookupAll(m)
        /\ symbols[k][m] # Absent
  BY <1>1 DEF Sight
<1> DEFINE entry == [LookupAll(m) EXCEPT !.init = TRUE]
<1>3. /\ symbols[k][m] \in Entry /\ EntryFits(symbols[k][m], k)
      /\ symbols \in Seq([Name -> Entry])
  BY <1>2, StackLength DEF Typed
<1>4. /\ entry \in Entry /\ entry # Absent /\ EntryFits(entry, k)
      /\ entry.type = symbols[k][m].type /\ entry.init = TRUE
      /\ entry.fun = symbols[k][m].fun
  <2>1. /\ entry \in Entry /\ entry.init = TRUE
        /\ entry.type = symbols[k][m].type /\ entry.fun = symbols[k][m].fun
    BY <1>2, <1>3 DEF Entry
  <2> HIDE DEF entry
  <2> QED
    BY <1>2, <1>3, <2>1 DEF EntryFits, Absent
<1>5. symbols' = WithEntry(k, m, entry)
  BY <1>2
<1> HIDE DEF entry
<1>6. /\ Typed' /\ DOMAIN symbols' = DOMAIN symbols
      /\ Len(symbols') = Len(symbols)
      /\ symbols'[k][m] = entry
      /\ \A i \in DOMAIN symbols, x \in Name :
           i # k \/ x # m => symbols'[i][x] = symbols[i][x]
  BY <1>2, <1>4, <1>5, EntryTable
<1>7. \A i \in DOMAIN symbols, x \in Name :
        /\ symbols'[i][x] = Absent <=> symbols[i][x] = Absent
        /\ symbols'[i][x].fun = symbols[i][x].fun
  BY <1>2, <1>4, <1>6
<1>8. NoShadow'
  BY <1>6, <1>7 DEF NoShadow
<1>9. Kept
  BY <1>6, <1>7 DEF Kept
<1>10. Sight'
  BY <1>6, <1>8, SightNext
<1>11. \A x \in Name : Flat'[x] = IF x = m THEN [Flat[x] EXCEPT !.init = TRUE]
                                  ELSE Flat[x]
  <2> SUFFICES ASSUME NEW x \in Name
               PROVE  Flat'[x] = IF x = m THEN [Flat[x] EXCEPT !.init = TRUE]
                                 ELSE Flat[x]
    OBVIOUS
  <2>1. CASE x = m
    <3>1. LookupAll(m)' = entry
      BY <1>4, <1>6, <1>10 DEF Sight
    <3>2. LookupAll(m)' # Absent' /\ LookupAll(m)'.init = TRUE
          /\ LookupAll(m)'.type = LookupAll(m).type
      BY <1>2, <1>4, <3>1 DEF Absent
    <3>3. Flat'[m] = [type |-> LookupAll(m)'.type, init |-> LookupAll(m)'.init]
      BY <1>10, <3>2 DEF Sight
    <3>4. Flat'[m] = [type |-> LookupAll(m).type, init |-> TRUE]
      BY <3>2, <3>3
    <3>5. Flat[m] = [type |-> LookupAll(m).type, init |-> LookupAll(m).init]
      BY <1>1 DEF Sight
    <3>6. [Flat[m] EXCEPT !.init = TRUE]
            = [type |-> LookupAll(m).type, init |-> TRUE]
      BY <1>1, <3>5, Initialised DEF Sight, Entry
    <3> QED
      BY <2>1, <3>4, <3>6
  <2>2. CASE x # m
    <3>1. \A i \in DOMAIN symbols : symbols'[i][x] = symbols[i][x]
      BY <1>6, <2>2
    <3>2. LookupAll(x)' = LookupAll(x)
      <4>1. CASE LookupAll(x) = Absent
        <5>1. \A i \in DOMAIN symbols : symbols[i][x] = Absent
          BY <1>1, <4>1 DEF Sight
        <5>2. \A i \in DOMAIN symbols' : symbols'[i][x] = Absent
          BY <1>6, <3>1, <5>1
        <5> QED
          BY <1>10, <4>1, <5>2 DEF Sight
      <4>2. CASE LookupAll(x) # Absent
        <5>1. PICK i \in DOMAIN symbols : symbols[i][x] # Absent
          BY <1>1, <4>2 DEF Sight
        <5>2. i \in DOMAIN symbols' /\ symbols'[i][x] = symbols[i][x]
          BY <1>6, <3>1
        <5> QED
          BY <1>1, <1>10, <5>1, <5>2 DEF Sight
      <4> QED
        BY <4>1, <4>2
    <3>3. Flat'[x] = Flat[x]
      BY <1>1, <1>10, <3>2 DEF Sight
    <3> QED
      BY <2>2, <3>3
  <2> QED
    BY <2>1, <2>2
<1>12. Flat' = [Flat EXCEPT ![m].init = TRUE]
  <2>1. Flat' = [x \in Name |-> Flat'[x]] /\ Flat = [x \in Name |-> Flat[x]]
    BY DEF Flat
  <2> HIDE DEF Flat
  <2> QED
    BY <1>11, <2>1
<1>13. UNCHANGED Opened
  <2>1. \A i \in DOMAIN symbols : { x \in Name : symbols'[i][x] # Absent }
                                  = { x \in Name : symbols[i][x] # Absent }
    BY <1>7
  <2> QED
    BY <1>6, <2>1 DEF Opened
<1>14. View!Visible(m)
  <2>1. /\ Flat[m] = [type |-> LookupAll(m).type, init |-> LookupAll(m).init]
        /\ LookupAll(m).type # "VOID"
    BY <1>1 DEF Sight
  <2> QED
    BY <2>1 DEF View!Visible, View!Undeclared
<1> QED
  BY <1>6, <1>8, <1>9, <1>12, <1>13, <1>14 DEF View!Initialise

-----------------------------------------------------------------------------
(***************************************************************************)
(* The stack of active calls.                                              *)
(***************************************************************************)

ListsAt(s) == { i \in DOMAIN s : s[i].kind \in ListKind }

LEMMA ListsFinite ==
  ASSUME NEW s \in Seq(Frame)
  PROVE  /\ IsFiniteSet(ListsAt(s)) /\ Lists(s) = Cardinality(ListsAt(s))
         /\ Lists(s) \in Nat
<1>1. ListsAt(s) \subseteq 1 .. Len(s) /\ Len(s) \in Nat
  BY DEF ListsAt
<1>2. IsFiniteSet(1 .. Len(s))
  BY <1>1, FS_Interval
<1>3. IsFiniteSet(ListsAt(s))
  BY <1>1, <1>2, FS_Subset
<1>4. Cardinality(ListsAt(s)) \in Nat
  BY <1>3, FS_CardinalityType
<1> QED
  BY <1>3, <1>4 DEF Lists, ListsAt

LEMMA PushFits ==
  ASSUME NEW inside, NEW s, StackFits(s, inside), NEW f \in Frame,
         f.kind # "FBODY", inside \/ f.kind = "INIT",
         Len(s) > 0 => s[Len(s)].kind \in Waiting
  PROVE  /\ StackFits(Append(s, f), inside)
         /\ Lists(Append(s, f)) = Lists(s) + OneIf(f.kind \in ListKind)
         /\ Lists(s) \in Nat
<1> DEFINE t == Append(s, f)
           n == Len(s)
<1>1. /\ s \in Seq(Frame) /\ n \in Nat /\ DOMAIN s = 1 .. n
      /\ t \in Seq(Frame) /\ Len(t) = n + 1 /\ DOMAIN t = 1 .. (n + 1)
      /\ \A i \in 1 .. n : t[i] = s[i]
      /\ t[n + 1] = f
  BY DEF StackFits
<1> HIDE DEF t, n
<1>2. StackFits(t, inside)
  <2>1. \A i \in 1 .. n : /\ i > 1 => s[i].kind # "FBODY"
                          /\ i < n => s[i].kind \in Waiting
                          /\ ~inside => s[i].kind = "INIT"
    BY DEF StackFits, n
  <2>2. inside => n >= 1 /\ s[1].kind = "FBODY"
    BY DEF StackFits, n
  <2>3. n > 0 => s[n].kind \in Waiting
    BY DEF n
  <2>4. ASSUME NEW i \in 1 .. Len(t)
        PROVE  /\ i > 1 => t[i].kind # "FBODY"
               /\ i < Len(t) => t[i].kind \in Waiting
               /\ ~inside => t[i].kind = "INIT"
    <3>1. CASE i = n + 1
      BY <1>1, <3>1
    <3>2. CASE i # n + 1
      <4>1. i \in 1 .. n /\ t[i] = s[i] /\ (i < n \/ i = n)
        BY <1>1, <3>2
      <4> QED
        BY <2>1, <2>3, <4>1
    <3> QED
      BY <3>1, <3>2
  <2>5. inside => Len(t) >= 1 /\ t[1].kind = "FBODY"
    BY <1>1, <2>2
  <2> QED
    BY <1>1, <2>4, <2>5 DEF StackFits
<1>3. /\ IsFiniteSet(ListsAt(s)) /\ Lists(s) = Cardinality(ListsAt(s))
      /\ Lists(s) \in Nat /\ Lists(t) = Cardinality(ListsAt(t))
  BY <1>1, ListsFinite
<1>4. CASE f.kind \in ListKind
  <2>1. ListsAt(t) = ListsAt(s) \cup {n + 1} /\ n + 1 \notin ListsAt(s)
    BY <1>1, <1>4 DEF ListsAt
  <2>2. Cardinality(ListsAt(t)) = Cardinality(ListsAt(s)) + 1
    BY <1>3, <2>1, FS_AddElement
  <2> QED
    BY <1>2, <1>3, <1>4, <2>2 DEF OneIf, t
<1>5. CASE f.kind \notin ListKind
  <2>1. ListsAt(t) = ListsAt(s)
    BY <1>1, <1>5 DEF ListsAt
  <2> QED
    BY <1>2, <1>3, <1>5, <2>1 DEF OneIf, t
<1> QED
  BY <1>4, <1>5

LEMMA PopFits ==
  ASSUME NEW inside, NEW s, StackFits(s, inside), s # << >>,
         Last(s).kind # "FBODY"
  PROVE  /\ StackFits(Front(s), inside)
         /\ Lists(s) = Lists(Front(s)) + OneIf(Last(s).kind \in ListKind)
         /\ Lists(Front(s)) \in Nat
         /\ Len(Front(s)) = Len(s) - 1 /\ Len(s) - 1 \in Nat
         /\ Len(Front(s)) > 0 => Front(s)[Len(Front(s))].kind \in Waiting
         /\ inside => Len(Front(s)) > 0
         /\ Last(s) \in Frame
<1> DEFINE t == Front(s)
           n == Len(s) - 1
           f == Last(s)
<1>1. s \in Seq(Frame) /\ Len(s) \in Nat \ {0}
  BY DEF StackFits
<1>2. /\ n \in Nat /\ DOMAIN s = 1 .. (n + 1) /\ Len(s) = n + 1
      /\ t \in Seq(Frame) /\ Len(t) = n /\ DOMAIN t = 1 .. n
      /\ \A i \in 1 .. n : t[i] = s[i]
      /\ s[n + 1] = f /\ f \in Frame
  <2>1. /\ n \in Nat /\ Len(s) = n + 1 /\ t = SubSeq(s, 1, n)
        /\ f = s[n + 1]
    <3>1. Len(s) - 1 \in Nat /\ Len(s) = Len(s) - 1 + 1
      BY <1>1
    <3> QED
      BY <3>1 DEF Front, Last
  <2> HIDE DEF t, n, f
  <2>2. /\ t \in Seq(Frame) /\ Len(t) = n
        /\ \A i \in 1 .. n : t[i] = s[i]
    BY <1>1, <2>1
  <2>3. f \in Frame
    BY <1>1, <2>1
  <2> QED
    BY <1>1, <2>1, <2>2, <2>3
<1> HIDE DEF t, n, f
<1>3. /\ \A i \in 1 .. (n + 1) : /\ i > 1 => s[i].kind # "FBODY"
                                 /\ i < n + 1 => s[i].kind \in Waiting
                                 /\ ~inside => s[i].kind = "INIT"
      /\ inside => n + 1 >= 1 /\ s[1].kind = "FBODY"
  BY <1>2 DEF StackFits
<1>4. inside => n > 0
  <2> SUFFICES ASSUME inside, n = 0 PROVE FALSE
    BY <1>2
  <2>1. s[1] = f
    BY <1>2
  <2> QED
    BY <1>3, <2>1 DEF f
<1>5. StackFits(t, inside)
  <2>1. ASSUME NEW i \in 1 .. Len(t)
        PROVE  /\ i > 1 => t[i].kind # "FBODY"
               /\ i < Len(t) => t[i].kind \in Waiting
               /\ ~inside => t[i].kind = "INIT"
    <3>1. i \in 1 .. (n + 1) /\ i < n + 1 /\ t[i] = s[i]
      BY <1>2
    <3> QED
      BY <1>3, <3>1
  <2>2. inside => Len(t) >= 1 /\ t[1].kind = "FBODY"
    BY <1>2, <1>3, <1>4
  <2> QED
    BY <1>2, <2>1, <2>2 DEF StackFits
<1>6. Len(t) > 0 => t[Len(t)].kind \in Waiting
  <2> SUFFICES ASSUME Len(t) > 0 PROVE t[Len(t)].kind \in Waiting
    OBVIOUS
  <2>1. n \in 1 .. (n + 1) /\ n < n + 1 /\ t[n] = s[n] /\ Len(t) = n
    BY <1>2
  <2> QED
    BY <1>3, <2>1
<1>7. /\ IsFiniteSet(ListsAt(t)) /\ Lists(t) = Cardinality(ListsAt(t))
      /\ Lists(t) \in Nat /\ Lists(s) = Cardinality(ListsAt(s))
  BY <1>1, <1>2, ListsFinite
<1>8. Lists(s) = Lists(t) + OneIf(f.kind \in ListKind)
  <2>1. CASE f.kind \in ListKind
    <3>1. ListsAt(s) = ListsAt(t) \cup {n + 1} /\ n + 1 \notin ListsAt(t)
      BY <1>2, <2>1 DEF ListsAt
    <3>2. Cardinality(ListsAt(s)) = Cardinality(ListsAt(t)) + 1
      BY <1>7, <3>1, FS_AddElement
    <3> QED
      BY <1>7, <2>1, <3>2 DEF OneIf
  <2>2. CASE f.kind \notin ListKind
    <3>1. ListsAt(s) = ListsAt(t)
      BY <1>2, <2>2 DEF ListsAt
    <3> QED
      BY <1>7, <2>2, <3>1 DEF OneIf
  <2> QED
    BY <2>1, <2>2
<1> QED
  BY <1>2, <1>4, <1>5, <1>6, <1>7, <1>8 DEF t, n, f

WithReturns(s, i, b) == [s EXCEPT ![i].rets = @ \/ b]

LEMMA ReturnsFit ==
  ASSUME NEW inside, NEW s, StackFits(s, inside), NEW i \in 1 .. Len(s),
         s[i].kind \in Waiting, NEW b \in BOOLEAN
  PROVE  /\ StackFits(WithReturns(s, i, b), inside)
         /\ Lists(WithReturns(s, i, b)) = Lists(s)
         /\ Len(WithReturns(s, i, b)) = Len(s)
<1> DEFINE t == WithReturns(s, i, b)
           f == [s[i] EXCEPT !.rets = @ \/ b]
           n == Len(s)
<1>1. s \in Seq(Frame) /\ n \in Nat /\ DOMAIN s = 1 .. n
  BY DEF StackFits
<1>2. s[i] \in Frame /\ s[i].kind \in ListKind \cup {"ELSEIF"}
  BY <1>1 DEF Waiting
<1>3. f \in Frame /\ f.kind = s[i].kind
  <2>1. CASE s[i] \in [kind : ListKind, rets : BOOLEAN]
    BY <2>1 DEF Frame
  <2>2. CASE s[i] \in [kind : {"INIT"}, name : Name, value : Exprs]
    BY <1>2, <2>2 DEF ListKind
  <2>3. CASE s[i] \in [kind : {"IF", "ELSEIF"}, rets : BOOLEAN,
                       then : BOOLEAN]
    BY <2>3 DEF Frame
  <2> QED
    BY <1>2, <2>1, <2>2, <2>3 DEF Frame
<1>4. t = [s EXCEPT ![i] = f]
  BY DEF WithReturns
<1> HIDE DEF t, f, n
<1>5. /\ t \in Seq(Frame) /\ Len(t) = n /\ DOMAIN t = 1 .. n
      /\ \A j \in 1 .. n : t[j] = IF j = i THEN f ELSE s[j]
  BY <1>1, <1>3, <1>4 DEF n
<1>6. \A j \in 1 .. n : t[j].kind = s[j].kind
  BY <1>3, <1>5
<1>7. StackFits(t, inside)
  <2>1. 1 \in 1 .. n
    BY <1>1 DEF n
  <2> QED
    BY <1>1, <1>5, <1>6, <2>1 DEF StackFits, n
<1>8. ListsAt(t) = ListsAt(s)
  BY <1>1, <1>5, <1>6 DEF ListsAt
<1> QED
  BY <1>1, <1>5, <1>7, <1>8, ListsFinite DEF t, n

-----------------------------------------------------------------------------
(***************************************************************************)
(* What every step of the walk of a statement does.                        *)
(***************************************************************************)

\* The step is one of Declarations, or changes nothing of the view.
Seen == errors' = 0 => ViewStep \/ UNCHANGED <<Flat, Opened>>

Quiet ==
  /\ status = "body" /\ status' \in {"body", "crashed"}
  /\ UNCHANGED <<program, walkVars>>
  /\ errors' \in Nat /\ (errors' = 0 => errors = 0)
  /\ stmts' \in 0 .. MaxStmts

Table(d) ==
  /\ Typed' /\ NoShadow' /\ Kept
  /\ Len(symbols') = Len(symbols) + d
  /\ Seen

Stack(d) ==
  /\ StackFits(ctrl', current # 0)
  /\ Lists(ctrl') = Lists(ctrl) + d

\* In a function its body is a list and its scope is open.
LEMMA InFunction ==
  ASSUME IInv
  PROVE  /\ Lists(ctrl) \in Nat /\ Len(symbols) \in Nat \ {0}
         /\ DOMAIN symbols = 1 .. Len(symbols)
         /\ current # 0 => Len(symbols) >= 2 /\ 2 \in DOMAIN symbols
         /\ current # 0 /\ status # "header" => Lists(ctrl) >= 1
<1>1. /\ ctrl \in Seq(Frame)
      /\ current # 0 /\ status # "header" =>
           Len(ctrl) >= 1 /\ ctrl[1].kind = "FBODY"
  BY DEF IInv, Nested, StackFits
<1>2. /\ IsFiniteSet(ListsAt(ctrl)) /\ Lists(ctrl) = Cardinality(ListsAt(ctrl))
      /\ Lists(ctrl) \in Nat
  BY <1>1, ListsFinite
<1>3. Len(symbols) \in Nat \ {0} /\ DOMAIN symbols = 1 .. Len(symbols)
  BY StackLength DEF IInv
<1>4. current # 0 /\ status # "header" => Lists(ctrl) >= 1
  <2> SUFFICES ASSUME current # 0, status # "header" PROVE Lists(ctrl) # 0
    BY <1>2
  <2>1. 1 \in ListsAt(ctrl)
    BY <1>1 DEF ListsAt, ListKind
  <2>2. ListsAt(ctrl) # {}
    BY <2>1
  <2> QED
    BY <1>2, <2>2, FS_EmptySet
<1>5. Len(symbols) = 1 + OneIf(status = "header") + Lists(ctrl)
  BY DEF IInv, Counted
<1>6. current # 0 => Len(symbols) >= 2
  BY <1>2, <1>4, <1>5 DEF OneIf
<1> QED
  BY <1>2, <1>3, <1>4, <1>6

LEMMA HeaderFields ==
  ASSUME program \in Seq(Header), NEW k \in 1 .. Len(program)
  PROVE  /\ program[k].name \in Name
         /\ program[k].params
              \in Seq([name : Name, type : Type \ {"TYPE_ERROR"}])
         /\ Len(program[k].params) \in Nat
<1>1. program[k] \in Header
  OBVIOUS
<1>2. /\ program[k].name \in Name
      /\ program[k].params
           \in Seq([name : Name, type : Type \ {"TYPE_ERROR"}])
  BY <1>1 DEF Header
<1> QED
  BY <1>2

LEMMA BodyStep ==
  ASSUME IInv, Quiet, NEW d \in Int, Table(d), Stack(d)
  PROVE  IInv' /\ Seen
<1>1. /\ status = "body" /\ status' \in {"body", "crashed"}
      /\ program' = program /\ current' = current /\ next' = next
      /\ param' = param
      /\ errors' \in Nat /\ (errors' = 0 => errors = 0)
      /\ stmts' \in 0 .. MaxStmts
  BY DEF Quiet, walkVars
<1>2. Basics'
  BY <1>1 DEF IInv, Basics, Status
<1>3. Typed' /\ NoShadow' /\ Kept /\ Len(symbols') = Len(symbols) + d /\ Seen
  BY DEF Table
<1>4. Nested'
  BY <1>1 DEF Stack, Nested
<1>5. Counted'
  <2>1. Len(symbols) = 1 + Lists(ctrl)
    BY <1>1, InFunction DEF IInv, Counted, OneIf
  <2>2. Lists(ctrl)' = Lists(ctrl')
    BY DEF Lists
  <2>3. Len(symbols') = 1 + Lists(ctrl')
    BY <1>3, <2>1, InFunction DEF Stack
  <2> QED
    BY <1>1, <2>2, <2>3 DEF Counted, OneIf
<1>6. program \in Seq(Header)
  BY DEF IInv, Typed
<1>7. \A k \in 1 .. Len(program) : program[k].name \in Name
  BY <1>6, HeaderFields
<1>8. \A m \in Name : symbols[1][m] # Absent =>
        symbols'[1][m] # Absent /\ symbols'[1][m].fun = symbols[1][m].fun
  BY <1>3, InFunction DEF Kept
<1>9. Described'
  <2>1. Known = Len(program) /\ Known' = Len(program)
    BY <1>1 DEF Known
  <2>2. ASSUME NEW k \in 1 .. Len(program)
        PROVE  /\ symbols'[1][program[k].name].fun # 0
               /\ errors' = 0 => symbols'[1][program[k].name].fun = k
    <3>1. /\ symbols[1][program[k].name].fun # 0
          /\ errors = 0 => symbols[1][program[k].name].fun = k
      BY <2>1 DEF IInv, Described
    <3>2. symbols[1][program[k].name] # Absent
      BY <3>1 DEF Absent
    <3> QED
      BY <1>1, <1>7, <1>8, <3>1, <3>2
  <2> QED
    BY <1>1, <2>1, <2>2 DEF Described
<1>10. Walked'
  <2> SUFFICES ASSUME current # 0
               PROVE  /\ symbols'[1][program[next].name].fun = current
                      /\ errors' = 0 =>
                           \A i \in 1 .. Len(program[next].params) :
                             symbols'[2][program[next].params[i].name]
                               # Absent
    BY <1>1 DEF Walked, KnownParams
  <2>1. /\ symbols[1][program[next].name].fun = current
        /\ errors = 0 =>
             \A i \in 1 .. Len(program[next].params) :
               i <= Len(program[next].params) =>
                 symbols[2][program[next].params[i].name] # Absent
    BY <1>1 DEF IInv, Walked, KnownParams
  <2>2. next \in 1 .. Len(program)
    BY <1>6 DEF IInv, Basics
  <2>3. symbols[1][program[next].name] # Absent
    BY <2>1 DEF Absent
  <2>4. symbols'[1][program[next].name].fun = current
    BY <1>7, <1>8, <2>1, <2>2, <2>3
  <2>5. ASSUME errors' = 0, NEW i \in 1 .. Len(program[next].params)
        PROVE  symbols'[2][program[next].params[i].name] # Absent
    <3>1. program[next].params \in
            Seq([name : Name, type : Type \ {"TYPE_ERROR"}])
      BY <1>6, <2>2, HeaderFields
    <3>2. program[next].params[i].name \in Name
      BY <3>1, ParamFields
    <3>3. i <= Len(program[next].params)
      BY <3>1
    <3>4. symbols[2][program[next].params[i].name] # Absent
      BY <1>1, <2>1, <2>5, <3>3
    <3> QED
      BY <1>3, <3>2, <3>4, InFunction DEF Kept
  <2> QED
    BY <2>4, <2>5
<1> QED
  BY <1>2, <1>3, <1>4, <1>5, <1>9, <1>10 DEF IInv

-----------------------------------------------------------------------------
(***************************************************************************)
(* Effects on the tables.                                                  *)
(***************************************************************************)

LEMMA SameTable ==
  ASSUME IInv, UNCHANGED <<program, symbols>>
  PROVE  Table(0)
<1>1. symbols' = symbols /\ program' = program
  OBVIOUS
<1>2. Typed'
  BY <1>1 DEF IInv, Typed, EntryFits, Entry
<1>3. NoShadow' /\ Kept
  BY <1>1 DEF IInv, NoShadow, Kept
<1>4. UNCHANGED <<Flat, Opened>>
  BY <1>1 DEF Flat, Opened, LookupAll, ScopeOf
<1>5. Len(symbols') = Len(symbols) + 0
  BY <1>1, InFunction
<1> QED
  BY <1>2, <1>3, <1>4, <1>5 DEF Table, Seen

LEMMA WiderTable ==
  ASSUME IInv, EnterScope, program' = program
  PROVE  Table(1)
BY EnterTable DEF IInv, Table, Seen, ViewStep

LEMMA NarrowTable ==
  ASSUME IInv, ExitScope, program' = program, Len(symbols) > 2
  PROVE  Table(-1)
<1>1. Len(symbols) > 1 /\ Typed /\ NoShadow
  BY InFunction DEF IInv
<1>2. /\ Typed' /\ NoShadow' /\ Kept /\ View!ExitScope
      /\ Len(symbols') = Len(symbols) - 1
  BY <1>1, ExitTable
<1>3. Len(symbols') = Len(symbols) + (-1)
  BY <1>2, InFunction
<1> QED
  BY <1>2, <1>3 DEF Table, Seen, ViewStep

LEMMA NewEntry ==
  ASSUME Typed, NEW m \in Name, NEW t \in DeclTypes \cup Type,
         t \notin {"VOID", "F", "TYPE_ERROR"}
  PROVE  /\ NewVariable(m, t) \in Entry
         /\ NewVariable(m, t) # Absent
         /\ EntryFits(NewVariable(m, t), Len(symbols))
         /\ NewVariable(m, t).type = t /\ t \in Type
         /\ NewVariable(m, t).init = NamesParameter(m)
<1>1. t \in ValType /\ t \in Type
  BY TypesAssumption DEF Type
<1>2. NamesParameter(m) \in BOOLEAN
  BY DEF NamesParameter
<1>3. 0 \in 0 .. Len(program)
  BY StackLength
<1>4. /\ NewVariable(m, t).type = t /\ NewVariable(m, t).fun = 0
      /\ NewVariable(m, t).init = NamesParameter(m)
      /\ NewVariable(m, t) \in Entry
  BY <1>1, <1>2, <1>3 DEF NewVariable, Entry
<1> HIDE DEF NewVariable
<1> QED
  BY <1>1, <1>4 DEF EntryFits, Absent

\* In a body a new name is not one of the parameters, which are in sight.
LEMMA NotParameter ==
  ASSUME IInv, status = "body", errors = 0,
         NEW m \in Name, LookupAll(m) = Absent
  PROVE  ~NamesParameter(m)
<1> SUFFICES ASSUME NamesParameter(m) PROVE FALSE
  OBVIOUS
<1>1. program \in Seq(Header) /\ current # 0
  BY DEF IInv, Typed, NamesParameter
<1>2. /\ symbols[1][program[next].name].fun = current
      /\ \A i \in 1 .. Len(program[next].params) :
           i <= Len(program[next].params) =>
             symbols[2][program[next].params[i].name] # Absent
  BY <1>1 DEF IInv, Walked, KnownParams
<1>3. next \in 1 .. Len(program)
  BY <1>1 DEF IInv, Basics
<1>4. current = next
  <2>1. Known = Len(program)
    BY DEF Known
  <2> QED
    BY <1>2, <1>3, <2>1 DEF IInv, Described
<1>5. /\ program[next].params
           \in Seq([name : Name, type : Type \ {"TYPE_ERROR"}])
      /\ Len(program[next].params) \in Nat
  BY <1>1, <1>3, HeaderFields
<1>6. PICK i \in 1 .. Len(program[next].params) :
        program[next].params[i].name = m
  BY <1>4, <1>5 DEF NamesParameter
<1>7. symbols[2][m] # Absent /\ 2 \in DOMAIN symbols
  BY <1>1, <1>2, <1>5, <1>6, InFunction
<1> QED
  BY <1>7, SightFound DEF IInv, Sight

LEMMA DeclareTable ==
  ASSUME IInv, status = "body", status' \in {"body", "crashed"},
         program' = program, NEW m \in Name, NEW t \in DeclTypes,
         DeclareVariable(m, t)
  PROVE  /\ Table(0)
         /\ errors' \in Nat /\ (errors' = 0 => errors = 0)
<1>1. errors \in Nat /\ Typed /\ NoShadow
  BY DEF IInv, Basics
<1>2. CASE Redefined(m) \/ t \in {"VOID", "F"}
  <2>1. errors' = errors + 1 /\ UNCHANGED symbols
    BY <1>2 DEF DeclareVariable
  <2>2. Table(0)
    BY <2>1, SameTable
  <2> QED
    BY <1>1, <2>1, <2>2
<1>3. CASE ~(Redefined(m) \/ t \in {"VOID", "F"})
  <2> DEFINE entry == NewVariable(m, t)
  <2>1. symbols' = Inserted(m, entry) /\ errors' = errors
    BY <1>3 DEF DeclareVariable
  <2>2. LookupAll(m) = Absent
    BY <1>3 DEF Redefined
  <2>3. t \notin {"VOID", "F", "TYPE_ERROR"}
    BY <1>3, TypesAssumption
  <2>4. /\ entry \in Entry /\ entry # Absent
        /\ EntryFits(entry, Len(symbols))
        /\ entry.type = t /\ t \in Type
        /\ entry.init = NamesParameter(m)
    BY <1>1, <2>3, NewEntry
  <2> HIDE DEF entry
  <2>5. /\ Typed' /\ NoShadow' /\ Kept
        /\ Len(symbols') = Len(symbols)
        /\ ~View!Visible(m)
        /\ Flat' = [Flat EXCEPT ![m] = [type |-> entry.type,
                                        init |-> entry.init]]
        /\ Opened' = [Opened EXCEPT ![Len(Opened)] = @ \cup {m}]
    BY <1>1, <2>1, <2>2, <2>4, InsertTable
  <2>6. Seen
    <3> SUFFICES ASSUME errors' = 0 PROVE View!Declare(m, t)
      BY <2>4 DEF Seen, ViewStep
    <3>1. NamesParameter(m) = FALSE
      <4>1. ~NamesParameter(m)
        BY <2>1, <2>2, NotParameter
      <4> QED
        BY <4>1
    <3>2. Flat' = [Flat EXCEPT ![m] = [type |-> t, init |-> FALSE]]
      BY <2>4, <2>5, <3>1, Zenon
    <3> QED
      BY <2>5, <3>2 DEF View!Declare
  <2>7. Len(symbols') = Len(symbols) + 0
    BY <2>5, InFunction
  <2>8. Table(0)
    BY <2>5, <2>6, <2>7 DEF Table
  <2> QED
    BY <1>1, <2>1, <2>8
<1> QED
  BY <1>2, <1>3

\* What is reported adds to the errors, or the walk ends.
LEMMA Reported ==
  ASSUME errors \in Nat, status = "body", NEW c, Report(c),
         c.errors \in Nat
  PROVE  /\ status' \in {"body", "crashed"}
         /\ errors' \in Nat /\ (errors' = 0 => errors = 0)
BY DEF Report

LEMMA MoreErrors ==
  ASSUME NEW r \in Result, NEW b
  PROVE  [r EXCEPT !.errors = @ + OneIf(b)].errors \in Nat
BY DEF Result, OneIf

LEMMA AssignTable ==
  ASSUME IInv, status = "body", program' = program,
         NEW m \in Name, NEW e \in Exprs, TypecheckAssignment(m, e)
  PROVE  /\ Table(0) /\ status' \in {"body", "crashed"}
         /\ errors' \in Nat /\ (errors' = 0 => errors = 0)
<1>1. errors \in Nat /\ Typed /\ NoShadow
  BY DEF IInv, Basics
<1> DEFINE right == ExprType[e]
<1>2. right \in Result
  BY <1>1, ExprsAssumption, ExprTypeRule
<1> HIDE DEF right
<1>3. PICK wrong :
        /\ Report([right EXCEPT !.errors = @ + OneIf(wrong)])
        /\ IF right.crash \/ LookupAll(m) = Absent
              \/ right.type = "TYPE_ERROR"
           THEN UNCHANGED symbols
           ELSE symbols' = [symbols EXCEPT ![ScopeOf(m)][m].init = TRUE]
  BY DEF TypecheckAssignment, right
<1>4. /\ status' \in {"body", "crashed"}
      /\ errors' \in Nat /\ (errors' = 0 => errors = 0)
  BY <1>1, <1>2, <1>3, MoreErrors, Reported
<1>5. CASE symbols' = symbols
  BY <1>4, <1>5, SameTable
<1>6. CASE symbols' # symbols
  <2>1. /\ LookupAll(m) # Absent
        /\ symbols' = [symbols EXCEPT ![ScopeOf(m)][m].init = TRUE]
    BY <1>3, <1>6
  <2>2. symbols[ScopeOf(m)][m] = LookupAll(m) /\ ScopeOf(m) \in DOMAIN symbols
    BY <1>1, <2>1, SightFound DEF Sight
  <2>3. symbols' = WithEntry(ScopeOf(m), m,
                             [LookupAll(m) EXCEPT !.init = TRUE])
    BY <2>1, <2>2 DEF WithEntry
  <2>4. /\ Typed' /\ NoShadow' /\ Kept
        /\ Len(symbols') = Len(symbols) /\ View!Initialise(m)
    BY <1>1, <2>1, <2>3, InitTable
  <2>5. Len(symbols') = Len(symbols) + 0
    BY <2>4, InFunction
  <2>6. Table(0)
    BY <2>4, <2>5 DEF Table, Seen, ViewStep
  <2> QED
    BY <1>4, <2>6
<1> QED
  BY <1>5, <1>6

-----------------------------------------------------------------------------
(***************************************************************************)
(* Effects on the stack of calls.                                          *)
(***************************************************************************)

LEMMA BodyStack ==
  ASSUME IInv, status = "body"
  PROVE  /\ StackFits(ctrl, current # 0) /\ Lists(ctrl) \in Nat
         /\ Len(symbols) = 1 + Lists(ctrl)
<1>1. StackFits(ctrl, current # 0)
  BY DEF IInv, Nested
<1> QED
  BY <1>1, InFunction DEF IInv, Counted, OneIf

\* Only an initialiser can be active outside of functions.
LEMMA TopInFunction ==
  ASSUME IInv, status = "body", ctrl # << >>
  PROVE  /\ Top \in Frame /\ Top = ctrl[Len(ctrl)]
         /\ Len(ctrl) \in Nat \ {0}
         /\ Top.kind # "INIT" => current # 0
<1>1. StackFits(ctrl, current # 0)
  BY BodyStack
<1>2. ctrl \in Seq(Frame) /\ Len(ctrl) \in Nat \ {0}
  BY <1>1 DEF StackFits
<1>3. Top = ctrl[Len(ctrl)] /\ Len(ctrl) \in 1 .. Len(ctrl)
  BY <1>2 DEF Top, Last
<1> QED
  BY <1>1, <1>2, <1>3 DEF StackFits

LEMMA SameStack ==
  ASSUME IInv, status = "body", UNCHANGED ctrl
  PROVE  Stack(0)
<1>1. StackFits(ctrl, current # 0) /\ Lists(ctrl) \in Nat
  BY BodyStack
<1>2. ctrl' = ctrl
  OBVIOUS
<1>3. Lists(ctrl') = Lists(ctrl) + 0
  BY <1>1, <1>2
<1> QED
  BY <1>1, <1>2, <1>3 DEF Stack

LEMMA ReturnStack ==
  ASSUME IInv, InList, NEW b \in BOOLEAN, ReturnsSet(b)
  PROVE  Stack(0)
<1>1. /\ StackFits(ctrl, current # 0) /\ Lists(ctrl) \in Nat
      /\ Len(ctrl) \in 1 .. Len(ctrl) /\ ctrl[Len(ctrl)].kind \in Waiting
  BY BodyStack, TopInFunction DEF InList, Waiting
<1>2. ctrl' = WithReturns(ctrl, Len(ctrl), b)
  BY DEF ReturnsSet, WithReturns
<1>3. /\ StackFits(ctrl', current # 0)
      /\ Lists(ctrl') = Lists(ctrl)
  BY <1>1, <1>2, ReturnsFit
<1> QED
  BY <1>1, <1>3 DEF Stack

LEMMA PushStack ==
  ASSUME IInv, InList, NEW f \in Frame, f.kind # "FBODY",
         ctrl' = Append(ctrl, f)
  PROVE  Stack(OneIf(f.kind \in ListKind))
<1>1. /\ StackFits(ctrl, current # 0) /\ Lists(ctrl) \in Nat
      /\ ctrl[Len(ctrl)].kind \in Waiting
  BY BodyStack, TopInFunction DEF InList, Waiting
<1>2. current # 0
  BY TopInFunction DEF InList, ListKind
<1> QED
  BY <1>1, <1>2, PushFits DEF Stack

\* Another frame than the body of a function is left.
LEMMA PopStack ==
  ASSUME IInv, status = "body", ctrl # << >>, Top.kind # "FBODY"
  PROVE  /\ StackFits(Front(ctrl), current # 0)
         /\ Lists(ctrl) = Lists(Front(ctrl)) + OneIf(Top.kind \in ListKind)
         /\ Lists(Front(ctrl)) \in Nat
         /\ Len(Front(ctrl)) = Len(ctrl) - 1 /\ Len(ctrl) - 1 \in Nat
         /\ Len(Front(ctrl)) > 0 =>
              Front(ctrl)[Len(Front(ctrl))].kind \in Waiting
         /\ Top.kind # "INIT" => Len(Front(ctrl)) > 0 /\ current # 0
         /\ Top \in Frame
<1>1. StackFits(ctrl, current # 0)
  BY BodyStack
<1>2. Last(ctrl).kind # "FBODY"
  BY DEF Top
<1> QED
  BY <1>1, <1>2, PopFits, TopInFunction DEF Top

LEMMA FrontStack ==
  ASSUME IInv, Active("INIT"), ctrl' = Front(ctrl)
  PROVE  Stack(0)
<1>1. Top.kind \notin ListKind /\ Top.kind # "FBODY"
  BY DEF Active, ListKind
<1>2. /\ StackFits(Front(ctrl), current # 0)
      /\ Lists(ctrl) = Lists(Front(ctrl)) + 0
      /\ Lists(Front(ctrl)) \in Nat
  BY <1>1, PopStack DEF Active, OneIf
<1> QED
  BY <1>2 DEF Stack

LEMMA EndStack ==
  ASSUME IInv, status = "body", ctrl # << >>,
         Top.kind \notin {"FBODY", "INIT"},
         NEW b \in BOOLEAN, EndStatement(b)
  PROVE  Stack(-OneIf(Top.kind \in ListKind))
<1> DEFINE f == Front(ctrl)
           n == Len(ctrl) - 1
<1>1. /\ StackFits(f, current # 0)
      /\ Lists(ctrl) = Lists(f) + OneIf(Top.kind \in ListKind)
      /\ Lists(f) \in Nat
      /\ Len(f) = n /\ n \in Nat /\ n > 0
      /\ f[n].kind \in Waiting
  BY PopStack
<1>2. ctrl' = WithReturns(f, n, b)
  BY DEF EndStatement, WithReturns
<1> HIDE DEF f, n
<1>3. StackFits(ctrl', current # 0) /\ Lists(ctrl') = Lists(f)
  <2>1. n \in 1 .. Len(f)
    BY <1>1
  <2> QED
    BY <1>1, <1>2, <2>1, ReturnsFit
<1>4. OneIf(Top.kind \in ListKind) \in Nat
  BY DEF OneIf
<1> QED
  BY <1>1, <1>3, <1>4 DEF Stack

\* The frame of an if takes the place of the innermost one.
LEMMA IfFrame ==
  ASSUME IInv, status = "body", ctrl # << >>,
         Top.kind \notin {"FBODY", "INIT"},
         NEW f \in Frame, f.kind \in {"IF", "ELSEIF"}
  PROVE  /\ StackFits(Append(Front(ctrl), f), current # 0)
         /\ Lists(Append(Front(ctrl), f)) + OneIf(Top.kind \in ListKind)
              = Lists(ctrl)
         /\ Lists(Append(Front(ctrl), f)) \in Nat
         /\ current # 0
<1> DEFINE s == Front(ctrl)
<1>1. /\ StackFits(s, current # 0) /\ current # 0
      /\ Lists(ctrl) = Lists(s) + OneIf(Top.kind \in ListKind)
      /\ Lists(s) \in Nat
      /\ Len(s) > 0 => s[Len(s)].kind \in Waiting
  BY PopStack
<1> HIDE DEF s
<1>2. /\ StackFits(Append(s, f), current # 0)
      /\ Lists(Append(s, f)) = Lists(s) + OneIf(f.kind \in ListKind)
  BY <1>1, PushFits
<1>3. OneIf(f.kind \in ListKind) = 0
  BY DEF OneIf, ListKind
<1>4. Lists(Append(s, f)) = Lists(s)
  BY <1>1, <1>2, <1>3
<1> QED
  BY <1>1, <1>2, <1>4 DEF s

LEMMA ElseStack ==
  ASSUME IInv, Active("IF"), NEW kind \in {"THEN", "ELSE"}, Else(List(kind))
  PROVE  Stack(1)
<1> DEFINE f == [Top EXCEPT !.kind = "ELSEIF"]
           s == Append(Front(ctrl), f)
<1>1. /\ Top \in Frame /\ Top.kind = "IF" /\ ctrl \in Seq(Frame)
      /\ Front(ctrl) \in Seq(Frame)
  BY PopStack, BodyStack DEF Active, StackFits
<1>2. f \in Frame /\ f.kind = "ELSEIF"
  <2>1. Top \in [kind : {"IF", "ELSEIF"}, rets : BOOLEAN, then : BOOLEAN]
    BY <1>1 DEF Frame, ListKind
  <2> QED
    BY <2>1 DEF Frame
<1>3. List(kind) \in Frame /\ List(kind).kind = kind
  BY DEF List, Frame, ListKind
<1> HIDE DEF f
<1>4. ctrl' = Append(s, List(kind))
  <2> DEFINE g == List(kind)
             t == Front(ctrl)
  <2>1. ctrl' = t \o <<f, g>>
    BY DEF Else, f
  <2> HIDE DEF g, t
  <2>2. t \in Seq(Frame) /\ f \in Frame /\ g \in Frame
    BY <1>1, <1>2, <1>3 DEF t, g
  <2>3. t \o <<f, g>> = Append(Append(t, f), g)
    BY <2>2
  <2> QED
    BY <2>1, <2>3 DEF t, g
<1>5. /\ StackFits(s, current # 0) /\ Lists(s) = Lists(ctrl)
      /\ Lists(s) \in Nat /\ current # 0
  <2>1. Top.kind \notin ListKind
    BY <1>1 DEF ListKind
  <2> QED
    BY <1>1, <1>2, <2>1, IfFrame DEF Active, OneIf
<1>6. Len(s) > 0 => s[Len(s)].kind \in Waiting
  <2>1. s[Len(s)] = f
    BY <1>1, <1>2
  <2> QED
    BY <1>2, <2>1 DEF Waiting
<1> HIDE DEF s
<1>7. /\ StackFits(ctrl', current # 0)
      /\ Lists(ctrl') = Lists(s) + OneIf(kind \in ListKind)
  BY <1>3, <1>4, <1>5, <1>6, PushFits
<1> QED
  BY <1>5, <1>7 DEF Stack, OneIf, ListKind

-----------------------------------------------------------------------------
(***************************************************************************)
(* The steps of the walk of statements.                                    *)
(***************************************************************************)

\* What a statement takes from the bound.
LEMMA MeetBound ==
  ASSUME IInv, Meet
  PROVE  /\ stmts' \in 0 .. MaxStmts /\ UNCHANGED <<program, walkVars>>
         /\ program' = program
BY StmtsAssumption DEF IInv, Basics, Meet

LEMMA VariableOnlyStep ==
  ASSUME IInv, NEW m \in Name, NEW t \in DeclTypes, VariableOnly(m, t)
  PROVE  IInv' /\ Seen
<1>1. status = "body" /\ status' = status /\ UNCHANGED ctrl
  BY DEF VariableOnly, TopLevel, InList
<1>2. DeclareVariable(m, t) /\ Meet
  BY DEF VariableOnly
<1>3. Table(0) /\ errors' \in Nat /\ (errors' = 0 => errors = 0)
  BY <1>1, <1>2, MeetBound, DeclareTable
<1>4. Quiet
  BY <1>1, <1>2, <1>3, MeetBound DEF Quiet
<1>5. Stack(0)
  BY <1>1, SameStack
<1> QED
  BY <1>3, <1>4, <1>5, BodyStep

LEMMA VariableWithValueStep ==
  ASSUME IInv, NEW m \in Name, NEW t \in DeclTypes, NEW e \in Exprs,
         VariableWithValue(m, t, e)
  PROVE  IInv' /\ Seen
<1> DEFINE f == [kind |-> "INIT", name |-> m, value |-> e]
<1>1. status = "body" /\ status' = status /\ ctrl' = Append(ctrl, f)
  BY DEF VariableWithValue, TopLevel, InList
<1>2. DeclareVariable(m, t) /\ Meet /\ (TopLevel \/ InList)
  BY DEF VariableWithValue
<1>3. Table(0) /\ errors' \in Nat /\ (errors' = 0 => errors = 0)
  BY <1>1, <1>2, MeetBound, DeclareTable
<1>4. Quiet
  BY <1>1, <1>2, <1>3, MeetBound DEF Quiet
<1>5. f \in Frame /\ f.kind = "INIT" /\ OneIf(f.kind \in ListKind) = 0
  BY DEF Frame, ListKind, OneIf
<1> HIDE DEF f
<1>6. Stack(0)
  <2>1. CASE TopLevel
    <3>1. StackFits(ctrl, current # 0) /\ Lists(ctrl) \in Nat
      BY <1>1, BodyStack
    <3>2. Len(ctrl) > 0 => ctrl[Len(ctrl)].kind \in Waiting
      <4>1. Len(ctrl) = 0
        BY <2>1 DEF TopLevel
      <4> QED
        BY <4>1
    <3>3. /\ StackFits(ctrl', current # 0)
          /\ Lists(ctrl') = Lists(ctrl) + OneIf(f.kind \in ListKind)
      <4>1. f.kind # "FBODY"
        BY <1>5
      <4> QED
        BY <1>1, <1>5, <3>1, <3>2, <4>1, PushFits
    <3> QED
      BY <1>5, <3>3 DEF Stack
  <2>2. CASE InList
    BY <1>1, <1>5, <2>2, PushStack
  <2> QED
    BY <1>2, <2>1, <2>2
<1> QED
  BY <1>3, <1>4, <1>6, BodyStep

LEMMA InitialiserStep ==
  ASSUME IInv, Initialiser
  PROVE  IInv' /\ Seen
<1>1. /\ Active("INIT") /\ TypecheckAssignment(Top.name, Top.value)
      /\ ctrl' = Front(ctrl) /\ UNCHANGED <<program, walkVars, stmts>>
      /\ status = "body" /\ ctrl # << >>
  BY DEF Initialiser, Active
<1>2. Top.name \in Name /\ Top.value \in Exprs
  <2>1. Top \in Frame /\ Top.kind = "INIT"
    BY <1>1, TopInFunction DEF Active
  <2> QED
    BY <2>1 DEF Frame, ListKind
<1>3. /\ Table(0) /\ status' \in {"body", "crashed"}
      /\ errors' \in Nat /\ (errors' = 0 => errors = 0)
  BY <1>1, <1>2, AssignTable
<1>4. Quiet
  BY <1>1, <1>3 DEF Quiet, IInv, Basics
<1>5. Stack(0)
  BY <1>1, FrontStack
<1> QED
  BY <1>3, <1>4, <1>5, BodyStep

LEMMA AssignmentStep ==
  ASSUME IInv, NEW m \in Name, NEW e \in Exprs, Assignment(m, e)
  PROVE  IInv' /\ Seen
<1>1. /\ status = "body" /\ UNCHANGED ctrl /\ Meet
      /\ TypecheckAssignment(m, e)
  BY DEF Assignment, InList
<1>2. /\ Table(0) /\ status' \in {"body", "crashed"}
      /\ errors' \in Nat /\ (errors' = 0 => errors = 0)
  BY <1>1, MeetBound, AssignTable
<1>3. Quiet
  BY <1>1, <1>2, MeetBound DEF Quiet
<1>4. Stack(0)
  BY <1>1, SameStack
<1> QED
  BY <1>2, <1>3, <1>4, BodyStep

LEMMA ReturnStep ==
  ASSUME IInv, NEW e \in Exprs, Return(e)
  PROVE  IInv' /\ Seen
<1>1. /\ status = "body" /\ InList /\ Meet /\ ReturnsSet(TRUE)
      /\ symbols' = symbols /\ errors \in Nat /\ e \in Expr /\ Typed
  BY ExprsAssumption DEF Return, InList, IInv, Basics
<1>2. ExprType[e] \in Result /\ Walk[e] \in Result
  BY <1>1, ExprTypeRule, WalkRule
<1>3. PICK wrong, crash :
        Report(Checked("VOID", ExprType[e].errors + OneIf(wrong)
                                 + Walk[e].errors, crash))
  BY DEF Return
<1>4. /\ status' \in {"body", "crashed"}
      /\ errors' \in Nat /\ (errors' = 0 => errors = 0)
  <2>1. ExprType[e].errors + OneIf(wrong) + Walk[e].errors \in Nat
    BY <1>2 DEF Result, OneIf
  <2> QED
    BY <1>1, <1>3, <2>1, Reported DEF Checked
<1>5. Quiet
  BY <1>1, <1>4, MeetBound DEF Quiet
<1>6. Table(0)
  BY <1>1, MeetBound, SameTable
<1>7. Stack(0)
  BY <1>1, ReturnStack
<1> QED
  BY <1>5, <1>6, <1>7, BodyStep

LEMMA ReturnNothingStep ==
  ASSUME IInv, ReturnNothing
  PROVE  IInv' /\ Seen
<1>1. /\ status = "body" /\ InList /\ Meet /\ ReturnsSet(TRUE)
      /\ symbols' = symbols /\ status' = status /\ errors \in Nat
  BY DEF ReturnNothing, InList, IInv, Basics
<1>2. errors' \in Nat /\ (errors' = 0 => errors = 0)
  BY <1>1 DEF ReturnNothing, OneIf
<1>3. Quiet
  BY <1>1, <1>2, MeetBound DEF Quiet
<1>4. Table(0)
  BY <1>1, MeetBound, SameTable
<1>5. Stack(0)
  BY <1>1, ReturnStack
<1> QED
  BY <1>3, <1>4, <1>5, BodyStep

LEMMA CallStatementStep ==
  ASSUME IInv, NEW e \in Exprs, CallStatement(e)
  PROVE  IInv' /\ Seen
<1>1. /\ status = "body" /\ Meet /\ Report(Walk[e])
      /\ symbols' = symbols /\ UNCHANGED ctrl
      /\ errors \in Nat /\ e \in Expr /\ Typed
  BY ExprsAssumption DEF CallStatement, InList, IInv, Basics
<1>2. Walk[e].errors \in Nat
  <2>1. Walk[e] \in Result
    BY <1>1, WalkRule
  <2> QED
    BY <2>1 DEF Result
<1>3. /\ status' \in {"body", "crashed"}
      /\ errors' \in Nat /\ (errors' = 0 => errors = 0)
  BY <1>1, <1>2, Reported
<1>4. Quiet
  BY <1>1, <1>3, MeetBound DEF Quiet
<1>5. Table(0)
  BY <1>1, MeetBound, SameTable
<1>6. Stack(0)
  BY <1>1, SameStack
<1> QED
  BY <1>4, <1>5, <1>6, BodyStep

LEMMA BeginBlockStep ==
  ASSUME IInv, BeginBlock
  PROVE  IInv' /\ Seen
<1>1. /\ status = "body" /\ InList /\ Meet /\ EnterScope
      /\ ctrl' = Append(ctrl, List("BLOCK"))
      /\ status' = status /\ errors' = errors /\ errors \in Nat
  BY DEF BeginBlock, InList, IInv, Basics
<1>2. Quiet
  BY <1>1, MeetBound DEF Quiet
<1>3. Table(1)
  BY <1>1, MeetBound, WiderTable
<1>4. List("BLOCK") \in Frame /\ List("BLOCK").kind = "BLOCK"
  BY DEF List, Frame, ListKind
<1>5. OneIf(List("BLOCK").kind \in ListKind) = 1
  BY <1>4 DEF OneIf, ListKind
<1>6. Stack(1)
  BY <1>1, <1>4, <1>5, PushStack
<1> QED
  BY <1>2, <1>3, <1>6, BodyStep

LEMMA ConditionReported ==
  ASSUME IInv, status = "body", NEW e \in Exprs, Condition(e)
  PROVE  /\ status' \in {"body", "crashed"}
         /\ errors' \in Nat /\ (errors' = 0 => errors = 0)
<1>1. errors \in Nat /\ e \in Expr /\ Typed
  BY ExprsAssumption DEF IInv, Basics
<1>2. ExprType[e] \in Result
  BY <1>1, ExprTypeRule
<1>3. PICK wrong : Report([ExprType[e] EXCEPT !.errors = @ + OneIf(wrong)])
  BY DEF Condition
<1> QED
  BY <1>1, <1>2, <1>3, MoreErrors, Reported

LEMMA BeginStep ==
  ASSUME IInv, NEW kind \in {"THEN", "LOOP"}, NEW e \in Exprs, Begin(kind, e)
  PROVE  IInv' /\ Seen
<1>1. /\ status = "body" /\ InList /\ Meet /\ EnterScope /\ Condition(e)
      /\ ctrl' = Append(ctrl, List(kind))
  BY DEF Begin, InList
<1>2. Quiet
  BY <1>1, MeetBound, ConditionReported DEF Quiet
<1>3. Table(1)
  BY <1>1, MeetBound, WiderTable
<1>4. List(kind) \in Frame /\ List(kind).kind = kind
  BY DEF List, Frame, ListKind
<1>5. OneIf(List(kind).kind \in ListKind) = 1
  BY <1>4 DEF OneIf, ListKind
<1>6. Stack(1)
  BY <1>1, <1>4, <1>5, PushStack
<1> QED
  BY <1>2, <1>3, <1>6, BodyStep

\* A list that is not the body of a function ends: its scope is one of three.
LEMMA EndListTable ==
  ASSUME IInv, NEW kind \in {"BLOCK", "LOOP", "THEN", "ELSE"}, EndList(kind)
  PROVE  /\ Table(-1) /\ Quiet
         /\ status = "body" /\ ctrl # << >> /\ Top.kind = kind
         /\ Top.rets \in BOOLEAN
         /\ OneIf(Top.kind \in ListKind) = 1
<1>1. /\ status = "body" /\ ctrl # << >> /\ Top.kind = kind /\ ExitScope
      /\ UNCHANGED <<program, walkVars, errors, status, stmts>>
  BY DEF EndList, Active
<1>2. Quiet
  BY <1>1 DEF Quiet, IInv, Basics
<1>3. Top.kind \in ListKind /\ OneIf(Top.kind \in ListKind) = 1
  BY <1>1 DEF ListKind, OneIf
<1>4. /\ StackFits(Front(ctrl), current # 0) /\ current # 0
      /\ Lists(ctrl) = Lists(Front(ctrl)) + 1
      /\ Lists(Front(ctrl)) \in Nat
      /\ Len(Front(ctrl)) > 0 /\ Top \in Frame
  BY <1>1, <1>3, PopStack
<1>5. Lists(Front(ctrl)) # 0
  <2>1. Front(ctrl) \in Seq(Frame) /\ Front(ctrl)[1].kind = "FBODY"
    BY <1>4 DEF StackFits
  <2>2. 1 \in ListsAt(Front(ctrl))
    BY <1>4, <2>1 DEF ListsAt, ListKind
  <2>3. ListsAt(Front(ctrl)) # {}
    BY <2>2
  <2> QED
    BY <2>1, <2>3, ListsFinite, FS_EmptySet
<1>6. Len(symbols) > 2
  BY <1>1, <1>4, <1>5, BodyStack
<1>7. Table(-1)
  BY <1>1, <1>6, NarrowTable
<1>8. Top.rets \in BOOLEAN
  BY <1>3, <1>4 DEF Frame, ListKind
<1> QED
  BY <1>1, <1>2, <1>3, <1>7, <1>8

LEMMA EndBlockStep ==
  ASSUME IInv, EndBlock \/ EndLoop \/ EndElse
  PROVE  IInv' /\ Seen
<1>1. PICK kind \in {"BLOCK", "LOOP", "ELSE"}, b \in {Top.rets, FALSE} :
        EndList(kind) /\ EndStatement(b)
  BY DEF EndBlock, EndLoop, EndElse
<1>2. /\ Table(-1) /\ Quiet
      /\ status = "body" /\ ctrl # << >> /\ Top.kind = kind
      /\ Top.rets \in BOOLEAN
      /\ OneIf(Top.kind \in ListKind) = 1
  BY <1>1, EndListTable
<1>3. Stack(-1)
  <2>1. b \in BOOLEAN /\ Top.kind \notin {"FBODY", "INIT"}
    BY <1>1, <1>2
  <2> QED
    BY <1>1, <1>2, <2>1, EndStack
<1> QED
  BY <1>2, <1>3, BodyStep

LEMMA EndThenStep ==
  ASSUME IInv, EndThen
  PROVE  IInv' /\ Seen
<1> DEFINE f == [kind |-> "IF", rets |-> FALSE, then |-> Top.rets]
<1>1. EndList("THEN") /\ ctrl' = Append(Front(ctrl), f)
  BY DEF EndThen
<1>2. /\ Table(-1) /\ Quiet
      /\ status = "body" /\ ctrl # << >> /\ Top.kind = "THEN"
      /\ Top.rets \in BOOLEAN
      /\ OneIf(Top.kind \in ListKind) = 1
  BY <1>1, EndListTable
<1>3. f \in Frame /\ f.kind = "IF"
  BY <1>2 DEF Frame
<1> HIDE DEF f
<1>4. Stack(-1)
  <2>1. /\ StackFits(ctrl', current # 0)
        /\ Lists(ctrl') + 1 = Lists(ctrl)
        /\ Lists(ctrl') \in Nat
    BY <1>1, <1>2, <1>3, IfFrame
  <2> QED
    BY <2>1 DEF Stack
<1> QED
  BY <1>2, <1>4, BodyStep

LEMMA NoElseStep ==
  ASSUME IInv, NoElse \/ EndIf
  PROVE  IInv' /\ Seen
<1>1. PICK b \in {FALSE, Top.then /\ Top.rets} :
        /\ status = "body" /\ ctrl # << >> /\ Top.kind \in {"IF", "ELSEIF"}
        /\ EndStatement(b)
        /\ UNCHANGED <<program, symbols, walkVars, errors, status, stmts>>
  BY DEF NoElse, EndIf, Active
<1>2. b \in BOOLEAN
  BY <1>1
<1>3. Quiet
  BY <1>1 DEF Quiet, IInv, Basics
<1>4. Table(0)
  BY <1>1, SameTable
<1>5. Stack(0)
  <2>1. Top.kind \notin ListKind
    BY <1>1 DEF ListKind
  <2>2. OneIf(Top.kind \in ListKind) = 0
    BY <2>1 DEF OneIf
  <2>3. -OneIf(Top.kind \in ListKind) = 0
    BY <2>2
  <2> QED
    BY <1>1, <1>2, <2>3, EndStack
<1> QED
  BY <1>3, <1>4, <1>5, BodyStep

LEMMA BeginElseStep ==
  ASSUME IInv, BeginElse
  PROVE  IInv' /\ Seen
<1>1. /\ Active("IF") /\ EnterScope /\ Else(List("ELSE")) /\ status = "body"
      /\ UNCHANGED <<program, walkVars, errors, status, stmts>>
  BY DEF BeginElse, Active
<1>2. Quiet
  BY <1>1 DEF Quiet, IInv, Basics
<1>3. Table(1) /\ Stack(1)
  BY <1>1, WiderTable, ElseStack
<1> QED
  BY <1>2, <1>3, BodyStep

LEMMA BeginElseIfStep ==
  ASSUME IInv, NEW e \in Exprs, BeginElseIf(e)
  PROVE  IInv' /\ Seen
<1>1. /\ Active("IF") /\ EnterScope /\ Else(List("THEN")) /\ status = "body"
      /\ Meet /\ Condition(e)
  BY DEF BeginElseIf, Active
<1>2. Quiet
  BY <1>1, MeetBound, ConditionReported DEF Quiet
<1>3. Table(1) /\ Stack(1)
  BY <1>1, MeetBound, WiderTable, ElseStack
<1> QED
  BY <1>2, <1>3, BodyStep

-----------------------------------------------------------------------------
(***************************************************************************)
(* The steps between the functions.                                        *)
(***************************************************************************)

LEMMA EmptyStack ==
  /\ StackFits(<< >>, FALSE) /\ Lists(<< >>) = 0
  /\ StackFits(<< List("FBODY") >>, TRUE) /\ Lists(<< List("FBODY") >>) = 1
<1> DEFINE s == << List("FBODY") >>
<1>1. List("FBODY") \in Frame /\ List("FBODY").kind = "FBODY"
  BY DEF List, Frame, ListKind
<1>2. /\ s \in Seq(Frame) /\ Len(s) = 1 /\ DOMAIN s = 1 .. 1
      /\ s[1].kind = "FBODY"
  BY <1>1
<1> HIDE DEF s
<1>3. StackFits(s, TRUE)
  BY <1>2 DEF StackFits
<1>4. ListsAt(s) = {1}
  BY <1>2 DEF ListsAt, ListKind
<1>5. Lists(s) = 1
  BY <1>2, <1>4, ListsFinite, FS_Singleton
<1>6. ListsAt(<< >>) = {} /\ << >> \in Seq(Frame)
  BY DEF ListsAt
<1>7. Lists(<< >>) = 0
  BY <1>6, ListsFinite, FS_EmptySet
<1>8. StackFits(<< >>, FALSE)
  BY DEF StackFits
<1> QED
  BY <1>3, <1>5, <1>7, <1>8 DEF s

LEMMA InitInvariant ==
  ASSUME Init
  PROVE  IInv
<1>1. /\ program \in Programs /\ program \in Seq(Header)
      /\ symbols = <<NewTable>> /\ current = 0 /\ next = 1 /\ param = 1
      /\ ctrl = << >> /\ errors = 0 /\ status = "declaring"
      /\ stmts = MaxStmts
  BY ProgramsAssumption DEF Init
<1>2. Len(program) \in Nat
  BY <1>1
<1>3. Basics
  BY <1>1, <1>2, StmtsAssumption DEF Basics, Status
<1>4. NewTable \in [Name -> Entry] /\ \A m \in Name : NewTable[m] = Absent
  <2>1. Absent \in Entry
    BY <1>2 DEF Absent, Entry, Type
  <2> QED
    BY <2>1 DEF NewTable
<1>5. /\ symbols \in Seq([Name -> Entry]) /\ symbols # << >>
      /\ Len(symbols) = 1 /\ DOMAIN symbols = {1} /\ symbols[1] = NewTable
  BY <1>1, <1>4
<1>6. Typed
  BY <1>1, <1>4, <1>5 DEF Typed, EntryFits
<1>7. NoShadow
  BY <1>5 DEF NoShadow
<1>8. Nested
  <2>1. (current # 0 /\ status # "header") = FALSE
    BY <1>1
  <2> QED
    BY <1>1, <2>1, EmptyStack DEF Nested
<1>9. Counted
  BY <1>1, <1>5, EmptyStack DEF Counted, OneIf
<1>10. Described
  BY <1>1, <1>4, <1>5 DEF Described, Known
<1>11. Walked
  BY <1>1 DEF Walked
<1> QED
  BY <1>3, <1>6, <1>7, <1>8, <1>9, <1>10, <1>11 DEF IInv

\* Before and after the functions only the global table is open.
LEMMA GlobalOnly ==
  ASSUME IInv, current = 0, ctrl = << >>, status # "header"
  PROVE  /\ Len(symbols) = 1 /\ DOMAIN symbols = {1}
         /\ \A m \in Name : /\ LookupScope(m) = symbols[1][m]
                            /\ LookupAll(m) = symbols[1][m]
<1>1. Len(symbols) = 1 /\ DOMAIN symbols = {1} /\ Last(symbols) = symbols[1]
  <2>1. Len(symbols) = 1
    BY EmptyStack DEF IInv, Counted, OneIf
  <2>2. DOMAIN symbols = {1}
    BY <2>1, InFunction
  <2> QED
    BY <2>1, <2>2 DEF Last
<1>2. \A m \in Name : LookupAll(m) = symbols[1][m]
  <2> SUFFICES ASSUME NEW m \in Name PROVE LookupAll(m) = symbols[1][m]
    OBVIOUS
  <2>1. Sight
    BY SightFound DEF IInv
  <2>2. CASE symbols[1][m] = Absent
    BY <1>1, <2>1, <2>2 DEF Sight
  <2>3. CASE symbols[1][m] # Absent
    BY <1>1, <2>1, <2>3 DEF Sight
  <2> QED
    BY <2>2, <2>3
<1> QED
  BY <1>1, <1>2 DEF LookupScope

LEMMA DeclareFunctionStep ==
  ASSUME IInv, DeclareFunction
  PROVE  IInv' /\ Seen
<1> DEFINE name == program[next].name
<1>1. /\ status = "declaring" /\ next <= Len(program) /\ next' = next + 1
      /\ UNCHANGED <<program, current, param, ctrl, status, stmts>>
      /\ IF LookupScope(name) # Absent
         THEN errors' = errors + 1 /\ UNCHANGED symbols
         ELSE symbols' = Inserted(name, Function(next)) /\ UNCHANGED errors
  BY DEF DeclareFunction
<1>2. /\ Basics /\ Typed /\ NoShadow /\ program \in Seq(Header)
      /\ Len(program) \in Nat /\ next \in 1 .. Len(program) /\ next \in Nat
      /\ current = 0 /\ ctrl = << >> /\ errors \in Nat
  BY <1>1 DEF IInv, Basics, Typed
<1>3. name \in Name
  BY <1>2, HeaderFields
<1> HIDE DEF name
<1>4. /\ Len(symbols) = 1 /\ DOMAIN symbols = {1}
      /\ LookupScope(name) = symbols[1][name]
      /\ LookupAll(name) = symbols[1][name]
  BY <1>1, <1>2, <1>3, GlobalOnly
<1>5. /\ errors' \in Nat /\ (errors' = 0 => errors = 0)
      /\ Typed' /\ NoShadow' /\ Kept /\ Len(symbols') = 1 /\ Seen
      /\ symbols'[1][name].fun # 0
      /\ errors' = 0 => symbols'[1][name].fun = next
      /\ \A m \in Name : m # name => symbols'[1][m] = symbols[1][m]
  <2>1. CASE LookupScope(name) # Absent
    <3>1. errors' = errors + 1 /\ symbols' = symbols
      BY <1>1, <2>1
    <3>2. Table(0)
      BY <1>1, <3>1, SameTable
    <3>3. symbols[1][name].fun # 0
      BY <1>1, <1>3, <1>4, <2>1 DEF IInv, Described
    <3> QED
      BY <1>2, <1>4, <3>1, <3>2, <3>3 DEF Table
  <2>2. CASE LookupScope(name) = Absent
    <3> DEFINE entry == Function(next)
    <3>1. symbols' = Inserted(name, entry) /\ errors' = errors
      BY <1>1, <2>2
    <3>2. /\ entry \in Entry /\ entry # Absent
          /\ EntryFits(entry, Len(symbols))
          /\ entry.type = "F" /\ entry.init = FALSE /\ entry.fun = next
      <4>1. /\ entry \in Entry
            /\ entry.type = "F" /\ entry.init = FALSE /\ entry.fun = next
        BY <1>2 DEF Function, Entry, Type
      <4> HIDE DEF entry
      <4>2. next # 0
        BY <1>2
      <4> QED
        BY <1>4, <4>1, <4>2 DEF EntryFits, Absent
    <3> HIDE DEF entry
    <3>3. /\ Typed' /\ NoShadow' /\ Kept
          /\ Len(symbols') = Len(symbols)
          /\ symbols'[Len(symbols)][name] = entry
          /\ ~View!Visible(name)
          /\ Flat' = [Flat EXCEPT ![name] = [type |-> entry.type,
                                             init |-> entry.init]]
          /\ Opened' = [Opened EXCEPT ![Len(Opened)] = @ \cup {name}]
      BY <1>1, <1>2, <1>3, <1>4, <2>2, <3>1, <3>2, InsertTable
    <3>4. View!Declare(name, "F")
      BY <3>2, <3>3, Zenon DEF View!Declare
    <3>5. Seen
      BY <1>1, <1>3, <3>4 DEF Seen, ViewStep, Type
    <3>6. next # 0
      BY <1>2
    <3>7. \A m \in Name : m # name => symbols'[1][m] = symbols[1][m]
      <4>1. symbols[1] \in [Name -> Entry] /\ symbols \in Seq([Name -> Entry])
        BY <1>2, <1>4, StackLength DEF Typed
      <4> QED
        BY <1>4, <3>1, <4>1 DEF Inserted
    <3> QED
      BY <1>2, <1>4, <3>1, <3>2, <3>3, <3>5, <3>6, <3>7
  <2> QED
    BY <2>1, <2>2
<1>6. Basics'
  BY <1>1, <1>2, <1>5 DEF Basics
<1>7. Nested'
  BY <1>1 DEF IInv, Nested
<1>8. Counted'
  BY <1>1, <1>2, <1>5, EmptyStack DEF Counted, OneIf, Lists
<1>9. Described'
  <2>1. Known = next - 1 /\ Known' = next
    BY <1>1, <1>2 DEF Known
  <2>2. ASSUME NEW k \in 1 .. next
        PROVE  /\ symbols'[1][program[k].name].fun # 0
               /\ errors' = 0 => symbols'[1][program[k].name].fun = k
    <3>1. CASE k = next
      BY <1>5, <3>1 DEF name
    <3>2. CASE k # next
      <4>1. k \in 1 .. next - 1 /\ k \in 1 .. Len(program)
        BY <1>2, <3>2
      <4>2. program[k].name \in Name
        BY <1>2, <4>1, HeaderFields
      <4>3. /\ symbols[1][program[k].name].fun # 0
            /\ errors = 0 => symbols[1][program[k].name].fun = k
        BY <2>1, <4>1 DEF IInv, Described
      <4>4. symbols[1][program[k].name] # Absent
        BY <4>3 DEF Absent
      <4>5. symbols'[1][program[k].name].fun = symbols[1][program[k].name].fun
        BY <1>4, <1>5, <4>2, <4>4 DEF Kept
      <4> QED
        BY <1>5, <4>3, <4>5
    <3> QED
      BY <3>1, <3>2
  <2>3. \A m \in Name : symbols'[1][m] # Absent => symbols'[1][m].fun # 0
    BY <1>1, <1>3, <1>5 DEF IInv, Described
  <2> QED
    BY <1>1, <2>1, <2>2, <2>3 DEF Described
<1>10. Walked'
  BY <1>1, <1>2 DEF Walked
<1> QED
  BY <1>5, <1>6, <1>7, <1>8, <1>9, <1>10 DEF IInv

\* Outside of functions every function is in the global table.
LEMMA AtTopLevel ==
  ASSUME IInv, TopLevel
  PROVE  /\ current = 0 /\ ctrl = << >> /\ status = "body"
         /\ Len(symbols) = 1
         /\ \A m \in Name : LookupScope(m) = symbols[1][m]
<1>1. status = "body" /\ ctrl = << >>
  BY DEF TopLevel
<1>2. current = 0
  <2>1. current # 0 => Len(ctrl) >= 1
    BY <1>1 DEF IInv, Nested, StackFits
  <2> QED
    BY <1>1, <2>1
<1> QED
  BY <1>1, <1>2, GlobalOnly

\* Steps that leave the tables and errors alone, outside of bodies.
LEMMA StillTable ==
  ASSUME IInv, UNCHANGED <<program, symbols>>
  PROVE  /\ Typed' /\ NoShadow' /\ Seen /\ symbols' = symbols
         /\ program' = program /\ program \in Seq(Header)
         /\ Len(program) \in Nat /\ Len(symbols) \in Nat
<1>1. Table(0)
  BY SameTable
<1>2. program \in Seq(Header)
  BY DEF IInv, Typed
<1> QED
  BY <1>1, <1>2, InFunction DEF Table

LEMMA FunctionsDeclaredStep ==
  ASSUME IInv, FunctionsDeclared
  PROVE  IInv' /\ Seen
<1>1. /\ status = "declaring" /\ next > Len(program)
      /\ status' = "body" /\ next' = 1
      /\ UNCHANGED <<program, symbols, current, param, ctrl, errors, stmts>>
  BY DEF FunctionsDeclared
<1>2. /\ Typed' /\ NoShadow' /\ Seen /\ Len(program) \in Nat
  BY <1>1, StillTable
<1>3. Basics /\ current = 0 /\ ctrl = << >> /\ next = Len(program) + 1
  BY <1>1, <1>2 DEF IInv, Basics
<1>4. Basics'
  BY <1>1, <1>2, <1>3 DEF Basics, Status
<1>5. Nested'
  <2>1. (current # 0 /\ status # "header")' = FALSE
    BY <1>1, <1>3
  <2>2. ctrl' = << >>
    BY <1>1, <1>3
  <2> QED
    BY <2>1, <2>2, EmptyStack DEF Nested
<1>6. Counted'
  BY <1>1, <1>3 DEF IInv, Counted, OneIf, Lists
<1>7. Described'
  BY <1>1, <1>2, <1>3 DEF IInv, Described, Known
<1>8. Walked'
  BY <1>1, <1>3 DEF Walked
<1> QED
  BY <1>2, <1>4, <1>5, <1>6, <1>7, <1>8 DEF IInv

LEMMA FinishStep ==
  ASSUME IInv, Finish
  PROVE  IInv' /\ Seen
<1>1. /\ TopLevel /\ status' = "done"
      /\ UNCHANGED <<program, symbols, current, next, param, ctrl, errors,
                     stmts>>
  BY DEF Finish, walkVars
<1>2. current = 0 /\ ctrl = << >> /\ status = "body"
  BY <1>1, AtTopLevel
<1>3. /\ Typed' /\ NoShadow' /\ Seen
  BY <1>1, StillTable
<1>4. Basics'
  BY <1>1, <1>2 DEF IInv, Basics, Status
<1>5. Nested'
  <2>1. (current # 0 /\ status # "header")' = FALSE
    BY <1>1, <1>2
  <2>2. ctrl' = << >>
    BY <1>1, <1>2
  <2> QED
    BY <2>1, <2>2, EmptyStack DEF Nested
<1>6. Counted'
  BY <1>1, <1>2 DEF IInv, Counted, OneIf, Lists
<1>7. Described'
  BY <1>1, <1>2 DEF IInv, Described, Known
<1>8. Walked'
  BY <1>1, <1>2 DEF Walked
<1> QED
  BY <1>3, <1>4, <1>5, <1>6, <1>7, <1>8 DEF IInv

LEMMA BeginFunctionStep ==
  ASSUME IInv, BeginFunction
  PROVE  IInv' /\ Seen
<1> DEFINE name == program[next].name
<1>1. /\ TopLevel /\ next <= Len(program)
      /\ current' = LookupScope(name).fun /\ EnterScope
      /\ status' = "header" /\ param' = 1
      /\ UNCHANGED <<program, next, ctrl, errors, stmts>>
  BY DEF BeginFunction
<1>2. /\ current = 0 /\ ctrl = << >> /\ status = "body" /\ Len(symbols) = 1
      /\ \A m \in Name : LookupScope(m) = symbols[1][m]
  BY <1>1, AtTopLevel
<1>3. /\ Basics /\ Typed /\ program \in Seq(Header) /\ Len(program) \in Nat
      /\ next \in 1 .. Len(program)
      /\ 1 \in DOMAIN symbols
  BY <1>1, <1>2, InFunction DEF IInv, Basics, Typed
<1>4. name \in Name
  BY <1>3, HeaderFields
<1>5. /\ current' = symbols[1][name].fun
      /\ current' \in 0 .. Len(program) /\ current' # 0
  <2>1. symbols[1][name] \in Entry
    BY <1>3, <1>4 DEF Typed
  <2>2. symbols[1][name].fun # 0
    BY <1>2, <1>3 DEF IInv, Described, Known
  <2> QED
    BY <1>1, <1>2, <1>4, <2>1, <2>2 DEF Entry
<1>6. /\ Typed' /\ NoShadow' /\ Kept /\ Seen /\ Len(symbols') = 2
  <2>1. Table(1)
    BY <1>1, WiderTable
  <2> QED
    BY <1>2, <2>1 DEF Table
<1>7. \A m \in Name : symbols[1][m] # Absent =>
        symbols'[1][m] # Absent /\ symbols'[1][m].fun = symbols[1][m].fun
  BY <1>3, <1>6 DEF Kept
<1>8. Basics'
  BY <1>1, <1>2, <1>3, <1>5 DEF Basics, Status
<1>9. Nested'
  <2>1. (current # 0 /\ status # "header")' = FALSE
    BY <1>1
  <2>2. ctrl' = << >>
    BY <1>1, <1>2
  <2> QED
    BY <2>1, <2>2, EmptyStack DEF Nested
<1>10. Counted'
  BY <1>1, <1>2, <1>6, EmptyStack DEF Counted, OneIf, Lists
<1>11. ASSUME NEW k \in 1 .. Len(program)
       PROVE  /\ symbols'[1][program[k].name].fun # 0
              /\ symbols'[1][program[k].name].fun
                   = symbols[1][program[k].name].fun
              /\ errors = 0 => symbols'[1][program[k].name].fun = k
  <2>1. /\ symbols[1][program[k].name].fun # 0
        /\ errors = 0 => symbols[1][program[k].name].fun = k
    BY <1>2 DEF IInv, Described, Known
  <2>2. symbols[1][program[k].name] # Absent
    BY <2>1 DEF Absent
  <2>3. program[k].name \in Name
    BY <1>3, HeaderFields
  <2> QED
    BY <1>7, <2>1, <2>2, <2>3
<1>12. Described'
  BY <1>1, <1>11 DEF Described, Known
<1>13. Walked'
  <2>1. symbols'[1][name].fun = current'
    BY <1>3, <1>5, <1>11
  <2>2. KnownParams' = 0
    BY <1>1 DEF KnownParams
  <2>3. \A i \in 1 .. Len(program[next].params) : ~(i <= 0)
    BY <1>3, HeaderFields
  <2> QED
    BY <1>1, <2>1, <2>2, <2>3 DEF Walked
<1> QED
  BY <1>6, <1>8, <1>9, <1>10, <1>12, <1>13 DEF IInv

\* A parameter is declared in the scope of its function, as a value that the
\* caller gives.
LEMMA ParameterTable ==
  ASSUME IInv, DeclareParameter
  PROVE  LET p == program[next].params[param]
         IN  /\ Typed' /\ NoShadow' /\ Kept /\ Seen
             /\ Len(symbols) = 2 /\ Len(symbols') = 2
             /\ errors' \in Nat /\ (errors' = 0 => errors = 0)
             /\ p.name \in Name
             /\ errors' = 0 => symbols'[2][p.name] # Absent
<1> DEFINE p == program[next].params[param]
           m == p.name
           t == p.type
<1>1. /\ status = "header" /\ param <= Len(program[next].params)
      /\ DeclareVariable(m, t) /\ program' = program
  BY DEF DeclareParameter
<1>2. /\ errors \in Nat /\ Typed /\ NoShadow /\ current # 0 /\ ctrl = << >>
      /\ next \in 1 .. Len(program) /\ program \in Seq(Header)
      /\ param \in Nat \ {0}
  BY <1>1 DEF IInv, Basics, Typed
<1>3. /\ program[next].params
           \in Seq([name : Name, type : Type \ {"TYPE_ERROR"}])
      /\ Len(program[next].params) \in Nat
  BY <1>2, HeaderFields
<1>4. param \in 1 .. Len(program[next].params)
  BY <1>1, <1>2, <1>3
<1>5. m \in Name /\ t \in Type /\ t # "TYPE_ERROR"
  BY <1>3, <1>4, ParamFields
<1>6. Len(symbols) = 2
  BY <1>1, <1>2, EmptyStack DEF IInv, Counted, OneIf
<1> HIDE DEF p
<1>7. CASE Redefined(m) \/ t \in {"VOID", "F"}
  <2>1. errors' = errors + 1 /\ UNCHANGED symbols
    BY <1>1, <1>7 DEF DeclareVariable
  <2>2. Table(0)
    BY <1>1, <2>1, SameTable
  <2> QED
    BY <1>2, <1>5, <1>6, <2>1, <2>2 DEF Table, p
<1>8. CASE ~(Redefined(m) \/ t \in {"VOID", "F"})
  <2> DEFINE entry == NewVariable(m, t)
  <2>1. symbols' = Inserted(m, entry) /\ errors' = errors
    BY <1>1, <1>8 DEF DeclareVariable
  <2>2. LookupAll(m) = Absent
    BY <1>8 DEF Redefined
  <2>3. /\ entry \in Entry /\ entry # Absent
        /\ EntryFits(entry, Len(symbols))
        /\ entry.type = t /\ t \in Type
        /\ entry.init = NamesParameter(m)
    BY <1>2, <1>5, <1>8, NewEntry
  <2> HIDE DEF entry
  <2>4. /\ Typed' /\ NoShadow' /\ Kept
        /\ Len(symbols') = Len(symbols)
        /\ symbols'[Len(symbols)][m] = entry
        /\ ~View!Visible(m)
        /\ Flat' = [Flat EXCEPT ![m] = [type |-> entry.type,
                                        init |-> entry.init]]
        /\ Opened' = [Opened EXCEPT ![Len(Opened)] = @ \cup {m}]
    BY <1>1, <1>2, <1>5, <2>1, <2>2, <2>3, InsertTable
  <2>5. Seen
    <3> SUFFICES ASSUME errors' = 0 PROVE View!DeclareParameter(m, t)
      BY <1>1, <1>5 DEF Seen, ViewStep
    <3>1. current = next
      <4>1. /\ symbols[1][program[next].name].fun = current
            /\ symbols[1][program[next].name].fun = next
        BY <1>1, <1>2, <2>1 DEF IInv, Walked, Described, Known
      <4> QED
        BY <4>1
    <3>2. NamesParameter(m) = TRUE
      <4>1. NamesParameter(m)
        BY <1>2, <1>3, <1>4, <3>1 DEF NamesParameter, p
      <4>2. NamesParameter(m) \in BOOLEAN
        BY DEF NamesParameter
      <4> QED
        BY <4>1, <4>2
    <3>3. Flat' = [Flat EXCEPT ![m] = [type |-> t, init |-> TRUE]]
      BY <2>3, <2>4, <3>2, Zenon
    <3> QED
      BY <2>4, <3>3 DEF View!DeclareParameter, View!DeclareInitialised
  <2> QED
    BY <1>2, <1>5, <1>6, <2>1, <2>3, <2>4, <2>5 DEF p
<1> QED
  BY <1>7, <1>8

LEMMA DeclareParameterStep ==
  ASSUME IInv, DeclareParameter
  PROVE  IInv' /\ Seen
<1> DEFINE ps == program[next].params
<1>1. /\ status = "header" /\ param <= Len(ps) /\ param' = param + 1
      /\ UNCHANGED <<program, current, next, ctrl, status, stmts>>
  BY DEF DeclareParameter
<1>2. /\ Typed' /\ NoShadow' /\ Kept /\ Seen
      /\ Len(symbols) = 2 /\ Len(symbols') = 2
      /\ errors' \in Nat /\ (errors' = 0 => errors = 0)
      /\ ps[param].name \in Name
      /\ errors' = 0 => symbols'[2][ps[param].name] # Absent
  BY ParameterTable
<1>3. /\ Basics /\ ctrl = << >> /\ program \in Seq(Header) /\ current # 0
      /\ Len(program) \in Nat /\ next \in 1 .. Len(program)
      /\ param \in Nat \ {0}
      /\ DOMAIN symbols = {1, 2}
  <2>1. DOMAIN symbols = 1 .. 2
    BY <1>2, InFunction
  <2> QED
    BY <1>1, <2>1 DEF IInv, Basics, Typed
<1>4. /\ ps \in Seq([name : Name, type : Type \ {"TYPE_ERROR"}])
      /\ Len(ps) \in Nat
  BY <1>3, HeaderFields
<1>5. Basics'
  BY <1>1, <1>2, <1>3 DEF Basics
<1>6. Nested'
  BY <1>1 DEF IInv, Nested
<1>7. Counted'
  BY <1>1, <1>2, <1>3, EmptyStack DEF Counted, OneIf, Lists
<1>8. \A i \in {1, 2}, m \in Name : symbols[i][m] # Absent =>
        symbols'[i][m] # Absent /\ symbols'[i][m].fun = symbols[i][m].fun
  BY <1>2, <1>3 DEF Kept
<1>9. ASSUME NEW k \in 1 .. Len(program)
      PROVE  /\ symbols'[1][program[k].name].fun # 0
             /\ symbols'[1][program[k].name].fun
                  = symbols[1][program[k].name].fun
             /\ errors' = 0 => symbols'[1][program[k].name].fun = k
  <2>1. /\ symbols[1][program[k].name].fun # 0
        /\ errors = 0 => symbols[1][program[k].name].fun = k
    BY <1>1 DEF IInv, Described, Known
  <2>2. symbols[1][program[k].name] # Absent
    BY <2>1 DEF Absent
  <2>3. program[k].name \in Name
    BY <1>3, HeaderFields
  <2> QED
    BY <1>2, <1>8, <2>1, <2>2, <2>3
<1>10. Described'
  BY <1>1, <1>9 DEF Described, Known
<1>11. Walked'
  <2>1. symbols'[1][program[next].name].fun = current
    BY <1>3, <1>9 DEF IInv, Walked
  <2>2. KnownParams = param - 1 /\ KnownParams' = param
    BY <1>1, <1>3 DEF KnownParams
  <2>3. ASSUME errors' = 0, NEW i \in 1 .. Len(ps), i <= param
        PROVE  symbols'[2][ps[i].name] # Absent
    <3>1. CASE i = param
      BY <1>2, <2>3, <3>1
    <3>2. CASE i # param
      <4>1. i <= param - 1
        BY <1>3, <1>4, <2>3, <3>2
      <4>2. symbols[2][ps[i].name] # Absent
        BY <1>2, <1>3, <2>2, <2>3, <4>1 DEF IInv, Walked
      <4>3. ps[i].name \in Name
        BY <1>4, ParamFields
      <4> QED
        BY <1>8, <4>2, <4>3
    <3> QED
      BY <3>1, <3>2
  <2> QED
    BY <1>1, <2>1, <2>2, <2>3 DEF Walked
<1> QED
  BY <1>2, <1>5, <1>6, <1>7, <1>10, <1>11 DEF IInv

LEMMA BeginBodyStep ==
  ASSUME IInv, BeginBody
  PROVE  IInv' /\ Seen
<1>1. /\ status = "header" /\ param > Len(program[next].params)
      /\ status' = "body" /\ ctrl' = <<List("FBODY")>>
      /\ UNCHANGED <<program, symbols, current, next, param, errors, stmts>>
  BY DEF BeginBody, walkVars
<1>2. /\ Typed' /\ NoShadow' /\ Seen /\ program \in Seq(Header)
      /\ Len(program) \in Nat /\ Len(symbols) \in Nat
  BY <1>1, StillTable
<1>3. /\ Basics /\ current # 0 /\ ctrl = << >> /\ next \in 1 .. Len(program)
      /\ param \in Nat
  BY <1>1 DEF IInv, Basics
<1>4. Len(program[next].params) \in Nat
  BY <1>2, <1>3, HeaderFields
<1>5. Basics'
  BY <1>1, <1>3 DEF Basics, Status
<1>6. Nested'
  <2>1. (current # 0 /\ status # "header")' = TRUE
    BY <1>1, <1>3
  <2> QED
    BY <1>1, <2>1, EmptyStack DEF Nested
<1>7. Counted'
  <2>1. Len(symbols) = 1 + 1 + 0
    BY <1>1, <1>3, EmptyStack DEF IInv, Counted, OneIf
  <2>2. Lists(ctrl)' = 1
    BY <1>1, EmptyStack DEF Lists
  <2> QED
    BY <1>1, <2>1, <2>2 DEF Counted, OneIf
<1>8. Described'
  BY <1>1 DEF IInv, Described, Known
<1>9. Walked'
  <2>1. \A i \in 1 .. Len(program[next].params) : i <= KnownParams
    BY <1>1, <1>3, <1>4 DEF KnownParams
  <2> QED
    BY <1>1, <1>3, <2>1 DEF IInv, Walked
<1> QED
  BY <1>2, <1>5, <1>6, <1>7, <1>8, <1>9 DEF IInv

LEMMA EndFunctionStep ==
  ASSUME IInv, EndFunction
  PROVE  IInv' /\ Seen
<1>1. /\ Active("FBODY") /\ ExitScope /\ ctrl' = << >> /\ current' = 0
      /\ next' = next + 1
      /\ UNCHANGED <<program, param, status, stmts>>
      /\ status = "body" /\ ctrl # << >> /\ Top.kind = "FBODY"
  BY DEF EndFunction, Active
<1>2. /\ StackFits(ctrl, current # 0) /\ Lists(ctrl) \in Nat
      /\ Len(symbols) = 1 + Lists(ctrl)
      /\ Top = ctrl[Len(ctrl)] /\ Len(ctrl) \in Nat \ {0} /\ current # 0
      /\ ctrl \in Seq(Frame)
  BY <1>1, BodyStack, TopInFunction DEF StackFits
<1>3. Len(ctrl) = 1
  <2>1. \A i \in 1 .. Len(ctrl) : i > 1 => ctrl[i].kind # "FBODY"
    BY <1>2 DEF StackFits
  <2>2. Len(ctrl) \in 1 .. Len(ctrl) /\ ctrl[Len(ctrl)].kind = "FBODY"
    BY <1>1, <1>2
  <2>3. ~(Len(ctrl) > 1)
    BY <2>1, <2>2
  <2>4. Len(ctrl) \in Nat /\ Len(ctrl) # 0
    BY <1>2
  <2> QED
    BY <2>3, <2>4
<1>4. Lists(ctrl) = 1
  <2>1. ListsAt(ctrl) = {1}
    BY <1>1, <1>2, <1>3 DEF ListsAt, ListKind
  <2> QED
    BY <1>2, <2>1, ListsFinite, FS_Singleton
<1>5. errors \in Nat /\ errors' \in Nat /\ (errors' = 0 => errors = 0)
  BY DEF IInv, Basics, EndFunction, OneIf
<1>6. /\ Typed' /\ NoShadow' /\ Len(symbols') = 1
      /\ symbols'[1] = symbols[1] /\ View!ExitScope
  <2>1. Len(symbols) = 2 /\ Typed /\ NoShadow
    BY <1>2, <1>4 DEF IInv
  <2> QED
    BY <1>1, <2>1, ExitTable
<1>7. Seen
  BY <1>6 DEF Seen, ViewStep
<1>8. Basics'
  <2>1. next \in 1 .. Len(program) + 1 /\ next <= Len(program)
        /\ Len(program) \in Nat
    BY <1>2, StackLength DEF IInv, Basics
  <2> QED
    BY <1>1, <1>5, <2>1 DEF IInv, Basics, Status
<1>9. Nested'
  <2>1. (current # 0 /\ status # "header")' = FALSE
    BY <1>1
  <2> QED
    BY <1>1, <2>1, EmptyStack DEF Nested
<1>10. Counted'
  <2>1. Lists(ctrl)' = 0
    BY <1>1, EmptyStack DEF Lists
  <2> QED
    BY <1>1, <1>6, <2>1 DEF Counted, OneIf
<1>11. Described'
  BY <1>1, <1>5, <1>6 DEF IInv, Described, Known
<1>12. Walked'
  BY <1>1 DEF Walked
<1> QED
  BY <1>6, <1>7, <1>8, <1>9, <1>10, <1>11, <1>12 DEF IInv

-----------------------------------------------------------------------------
(***************************************************************************)
(* Every step keeps the invariant and is seen as a step of Declarations.   *)
(***************************************************************************)

LEMMA StatementStep ==
  ASSUME IInv, Statement
  PROVE  IInv' /\ Seen
<1>1. CASE \E m \in Name, t \in DeclTypes : VariableOnly(m, t)
  BY <1>1, VariableOnlyStep
<1>2. CASE \E m \in Name, t \in DeclTypes, e \in Exprs :
             VariableWithValue(m, t, e)
  BY <1>2, VariableWithValueStep
<1>3. CASE Initialiser
  BY <1>3, InitialiserStep
<1>4. CASE \E m \in Name, e \in Exprs : Assignment(m, e)
  BY <1>4, AssignmentStep
<1>5. CASE \E e \in Exprs : Return(e)
  BY <1>5, ReturnStep
<1>6. CASE \E e \in Exprs : CallStatement(e)
  BY <1>6, CallStatementStep
<1>7. CASE \E e \in Exprs : BeginIf(e) \/ BeginWhile(e)
  BY <1>7, BeginStep DEF BeginIf, BeginWhile
<1>8. CASE \E e \in Exprs : BeginElseIf(e)
  BY <1>8, BeginElseIfStep
<1>9. CASE ReturnNothing
  BY <1>9, ReturnNothingStep
<1>10. CASE BeginBlock
  BY <1>10, BeginBlockStep
<1> QED
  BY <1>1, <1>2, <1>3, <1>4, <1>5, <1>6, <1>7, <1>8, <1>9, <1>10
     DEF Statement

LEMMA StillStep ==
  ASSUME IInv, UNCHANGED vars
  PROVE  IInv' /\ Seen
<1>1. UNCHANGED <<program, symbols, current, next, param, ctrl, errors, status,
                  stmts>>
  BY DEF vars, walkVars
<1>2. Typed' /\ NoShadow' /\ Seen
  BY <1>1, StillTable
<1>3. Basics'
  BY <1>1 DEF IInv, Basics
<1>4. Nested' /\ Counted'
  BY <1>1 DEF IInv, Nested, Counted, Lists
<1>5. Described' /\ Walked'
  BY <1>1 DEF IInv, Described, Known, Walked, KnownParams
<1> QED
  BY <1>2, <1>3, <1>4, <1>5 DEF IInv

LEMMA NextInvariant ==
  ASSUME IInv, [Next]_vars
  PROVE  IInv' /\ Seen
<1>1. CASE UNCHANGED vars
  BY <1>1, StillStep
<1>2. CASE DeclareFunction \/ FunctionsDeclared
  BY <1>2, DeclareFunctionStep, FunctionsDeclaredStep
<1>3. CASE BeginFunction \/ DeclareParameter \/ BeginBody \/ EndFunction
  BY <1>3, BeginFunctionStep, DeclareParameterStep, BeginBodyStep,
     EndFunctionStep
<1>4. CASE Statement
  BY <1>4, StatementStep
<1>5. CASE EndBlock \/ EndLoop \/ EndElse
  BY <1>5, EndBlockStep
<1>6. CASE EndThen
  BY <1>6, EndThenStep
<1>7. CASE NoElse \/ EndIf
  BY <1>7, NoElseStep
<1>8. CASE BeginElse
  BY <1>8, BeginElseStep
<1>9. CASE Finish
  BY <1>9, FinishStep
<1>10. CASE Ended
  BY <1>10, StillStep DEF Ended
<1> QED
  BY <1>1, <1>2, <1>3, <1>4, <1>5, <1>6, <1>7, <1>8, <1>9, <1>10
     DEF Next, End

LEMMA InvariantTypes ==
  ASSUME IInv
  PROVE  TypeOK
<1>1. /\ program \in Programs /\ current \in 0 .. Len(program)
      /\ next \in 1 .. Len(program) + 1 /\ errors \in Nat
      /\ stmts \in 0 .. MaxStmts /\ status \in Status
      /\ status = "header" => current # 0 /\ ctrl = << >>
  BY DEF IInv, Basics
<1>2. /\ symbols \in Seq([Name -> [type : Type, init : BOOLEAN,
                                   fun : 0 .. Len(program)]])
      /\ symbols # << >>
  BY DEF IInv, Typed, Entry
<1>3. \A i \in DOMAIN symbols, m \in Name :
        LET e == symbols[i][m]
        IN  \/ e = Absent
            \/ e.fun = 0 /\ e.type \in ValType
            \/ e.fun # 0 /\ e.type = "F" /\ i = 1
  BY DEF IInv, Typed, EntryFits
<1>4. \A i \in DOMAIN ctrl :
        ctrl[i].kind \in ListKind \cup {"INIT", "IF", "ELSEIF"}
  <2>1. ctrl \in Seq(Frame)
    BY DEF IInv, Nested, StackFits
  <2> SUFFICES ASSUME NEW i \in DOMAIN ctrl
               PROVE  ctrl[i].kind \in ListKind \cup {"INIT", "IF", "ELSEIF"}
    OBVIOUS
  <2>2. ctrl[i] \in Frame
    BY <2>1
  <2> QED
    BY <2>2 DEF Frame
<1> QED
  BY <1>1, <1>2, <1>3, <1>4 DEF TypeOK

LEMMA InvariantAsserts ==
  ASSUME IInv
  PROVE  AssertionsHold
<1>1. ASSUME TopLevel, next <= Len(program)
      PROVE  Len(symbols) = 1 /\ LookupScope(program[next].name).fun # 0
  <2>1. /\ current = 0 /\ ctrl = << >> /\ status = "body" /\ Len(symbols) = 1
        /\ \A m \in Name : LookupScope(m) = symbols[1][m]
    BY <1>1, AtTopLevel
  <2>2. next \in 1 .. Len(program) /\ program \in Seq(Header)
    BY <1>1 DEF IInv, Basics, Typed
  <2>3. program[next].name \in Name
    BY <2>2, HeaderFields
  <2>4. symbols[1][program[next].name].fun # 0
    BY <2>1, <2>2 DEF IInv, Described, Known
  <2> QED
    BY <2>1, <2>3, <2>4
<1>2. ASSUME current # 0
      PROVE  LookupAll(program[next].name).fun = current
  <2>1. next \in 1 .. Len(program) /\ program \in Seq(Header)
    BY <1>2 DEF IInv, Basics, Typed
  <2>2. program[next].name \in Name
    BY <2>1, HeaderFields
  <2>3. symbols[1][program[next].name].fun = current
    BY <1>2 DEF IInv, Walked
  <2>4. symbols[1][program[next].name] # Absent /\ 1 \in DOMAIN symbols
    BY <1>2, <2>3, InFunction DEF Absent
  <2>5. Sight
    BY SightFound DEF IInv
  <2> QED
    BY <2>2, <2>3, <2>4, <2>5 DEF Sight
<1>3. status = "done" => Len(symbols) = 1 /\ current = 0
  BY GlobalOnly DEF IInv, Basics
<1> QED
  BY <1>1, <1>2, <1>3 DEF AssertionsHold

LEMMA InvariantDescribes ==
  ASSUME IInv
  PROVE  FunctionsAreDescribed
<1> SUFFICES ASSUME status = "done", errors = 0, NEW k \in DOMAIN program
             PROVE  symbols[1][program[k].name].fun = k
  BY DEF FunctionsAreDescribed
<1>1. k \in 1 .. Known
  BY StackLength DEF IInv, Known
<1> QED
  BY <1>1 DEF IInv, Described

LEMMA InvariantFollows ==
  ASSUME IInv
  PROVE  ScopesFollowBlocks
BY DEF IInv, Counted, Lists, ScopesFollowBlocks

LEMMA Invariant == Spec => []IInv
<1>1. Init => IInv
  BY InitInvariant
<1>2. IInv /\ [Next]_vars => IInv'
  BY NextInvariant
<1> QED
  BY <1>1, <1>2, PTL DEF Spec

-----------------------------------------------------------------------------
\* Entries, frames and counters keep their types, whatever the program: only
\* functions have an f_info, and only the global table has functions.
THEOREM AnalyzerTypes == Spec => []TypeOK
<1>1. IInv => TypeOK
  BY InvariantTypes
<1> QED
  BY <1>1, Invariant, PTL

\* exit_scope never closes the global scope: however blocks, branches and
\* loops nest, with or without errors, the scopes are those of the lists that
\* are walked.
THEOREM ScopesFollow == Spec => []ScopesFollowBlocks
<1>1. IInv => ScopesFollowBlocks
  BY InvariantFollows
<1> QED
  BY <1>1, Invariant, PTL

\* The assertions of semantic_analysis and analyze_ast hold, and the entry of
\* the function being walked stays in sight.
THEOREM AssertionsAlwaysHold == Spec => []AssertionsHold
<1>1. IInv => AssertionsHold
  BY InvariantAsserts
<1> QED
  BY <1>1, Invariant, PTL

\* In an accepted program the entry of each function's name describes that
\* function.
THEOREM FunctionsStayDescribed == Spec => []FunctionsAreDescribed
<1>1. IInv => FunctionsAreDescribed
  BY InvariantDescribes
<1> QED
  BY <1>1, Invariant, PTL

\* expr_type and the walk after it find an error exactly where the typing
\* rules that the lowering relies on accept no type, for expressions of any
\* depth.
THEOREM RulesAlwaysAgree == Spec => []TypingAgrees
<1>1. IInv => TypingAgrees
  BY TypedAgrees DEF IInv
<1> QED
  BY <1>1, Invariant, PTL

\* As long as no error is found, the stack of symbol tables implements the
\* declarations that the lowering is modelled with.
THEOREM AnalyzerImplements == Spec => ImplementsDeclarations
<1>1. Init => IInv
  BY InitInvariant
<1>2. IInv /\ [Next]_vars => IInv'
  BY NextInvariant
<1>3. IInv /\ [Next]_vars =>
        [errors' = 0 => ViewStep \/ UNCHANGED <<Flat, Opened>>]_vars
  BY NextInvariant DEF Seen
<1> QED
  BY <1>1, <1>2, <1>3, PTL DEF Spec, ImplementsDeclarations
=============================================================================
