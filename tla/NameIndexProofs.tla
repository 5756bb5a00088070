--------------------------- MODULE NameIndexProofs ---------------------------
(***************************************************************************)
(* For all names, hash functions and sizes: the index finds every name,    *)
(* the four structures stay together, and they behave as NameBindings      *)
(* promises.                                                               *)
(***************************************************************************)
EXTENDS NameIndexProperties, FiniteSetTheorems, TLAPS

-----------------------------------------------------------------------------
(***************************************************************************)
(* An index t of n slots, with the hash function h.                        *)
(***************************************************************************)

Index(n) == [0 .. n - 1 -> Nat]

IsIndex(t) == \E n \in Nat : t \in Index(n)

\* The slot where the probe for the name m begins.
Begin(h, m, n) == h[m] % n

\* No slot before b is free.
Reaches(h, t, n, m, b) == \A u \in Passed(Begin(h, m, n), b, n) : t[u] # 0

\* No slot before b is free or has the name m.
Misses(h, t, n, items, m, b) ==
  \A u \in Passed(Begin(h, m, n), b, n) : t[u] # 0 /\ items[t[u]] # m

\* The index finds the first k names of items.
Finds(h, t, n, items, k) ==
  /\ t \in [0 .. n - 1 -> 0 .. k]
  /\ \A i \in 1 .. k :
       \E s \in 0 .. n - 1 :
         /\ \A u \in 0 .. n - 1 : t[u] = i <=> u = s
         /\ Reaches(h, t, n, items[i], s)

Listed(items, k, m) == \E i \in 1 .. k : items[i] = m

LEMMA SlotCountOf ==
  ASSUME NEW n \in Nat, NEW t \in Index(n)
  PROVE  /\ SlotCount(t) = n /\ DOMAIN t = 0 .. n - 1
         /\ t = Zeros(0) <=> n = 0
<1>1. DOMAIN t = 0 .. n - 1
  BY DEF Index
<1>2. Cardinality(0 .. n - 1) = n
  <2>1. Cardinality(0 .. n - 1) = IF 0 > n - 1 THEN 0 ELSE (n - 1) - 0 + 1
    BY FS_Interval
  <2> QED
    BY <2>1
<1>3. t = Zeros(0) <=> n = 0
  <2>1. CASE n = 0
    <3>1. 0 .. n - 1 = {} /\ 0 .. 0 - 1 = {}
      BY <2>1
    <3> QED
      BY <1>1, <2>1, <3>1 DEF Zeros, Index
  <2>2. CASE n # 0
    <3>1. 0 \in 0 .. n - 1 /\ 0 .. 0 - 1 = {}
      BY <2>2
    <3> QED
      BY <1>1, <2>2, <3>1 DEF Zeros
  <2> QED
    BY <2>1, <2>2
<1> QED
  BY <1>1, <1>2, <1>3 DEF SlotCount

LEMMA IndexSize ==
  ASSUME NEW t, IsIndex(t)
  PROVE  /\ SlotCount(t) \in Nat
         /\ t \in Index(SlotCount(t))
         /\ DOMAIN t = 0 .. SlotCount(t) - 1
         /\ t = Zeros(0) <=> SlotCount(t) = 0
BY SlotCountOf DEF IsIndex

LEMMA BeginInside ==
  ASSUME NEW h \in Hashes, NEW m \in Name, NEW n \in Nat \ {0}
  PROVE  Begin(h, m, n) \in 0 .. n - 1
<1>1. h[m] \in Nat
  BY HashesAssumption
<1> QED
  BY <1>1 DEF Begin

LEMMA AfterInside ==
  ASSUME NEW n \in Nat \ {0}, NEW i \in 0 .. n - 1
  PROVE  /\ (i + 1) % n = IF i + 1 = n THEN 0 ELSE i + 1
         /\ (i + 1) % n \in 0 .. n - 1
<1>1. CASE i + 1 = n
  BY <1>1
<1>2. CASE i + 1 # n
  BY <1>2
<1> QED
  BY <1>1, <1>2

\* A probe passes slots of the index, and not the one it stands at.
LEMMA PassedInside ==
  ASSUME NEW n \in Nat \ {0}, NEW a \in 0 .. n - 1, NEW b \in 0 .. n - 1
  PROVE  /\ Passed(a, b, n) \subseteq 0 .. n - 1
         /\ b \notin Passed(a, b, n)
         /\ Passed(a, a, n) = {}
BY DEF Passed

LEMMA PassedAfter ==
  ASSUME NEW n \in Nat \ {0}, NEW a \in 0 .. n - 1, NEW b \in 0 .. n - 1
  PROVE  Passed(a, (b + 1) % n, n) \subseteq Passed(a, b, n) \cup {b}
<1> DEFINE c == (b + 1) % n
<1>1. c = IF b + 1 = n THEN 0 ELSE b + 1
  BY AfterInside
<1>2. SUFFICES Passed(a, c, n) \subseteq Passed(a, b, n) \cup {b}
  OBVIOUS
<1> HIDE DEF c
<1>3. CASE b + 1 = n
  BY <1>1, <1>3 DEF Passed
<1>4. CASE b + 1 # n
  BY <1>1, <1>4 DEF Passed
<1> QED
  BY <1>3, <1>4

\* Of two slots, a probe that may reach both passes one before the other.
LEMMA PassedOrder ==
  ASSUME NEW n \in Nat \ {0}, NEW a \in 0 .. n - 1, NEW i \in 0 .. n - 1,
         NEW j \in 0 .. n - 1, i # j
  PROVE  i \in Passed(a, j, n) \/ j \in Passed(a, i, n)
BY DEF Passed

LEMMA ReachesBegin ==
  ASSUME NEW h \in Hashes, NEW n \in Nat \ {0}, NEW t, NEW items,
         NEW m \in Name
  PROVE  /\ Reaches(h, t, n, m, Begin(h, m, n))
         /\ Misses(h, t, n, items, m, Begin(h, m, n))
BY BeginInside, PassedInside DEF Reaches, Misses

LEMMA ReachesAfter ==
  ASSUME NEW h \in Hashes, NEW n \in Nat \ {0}, NEW t, NEW m \in Name,
         NEW b \in 0 .. n - 1, Reaches(h, t, n, m, b), t[b] # 0
  PROVE  Reaches(h, t, n, m, (b + 1) % n)
BY BeginInside, PassedAfter DEF Reaches

LEMMA MissesAfter ==
  ASSUME NEW h \in Hashes, NEW n \in Nat \ {0}, NEW t, NEW items,
         NEW m \in Name, NEW b \in 0 .. n - 1,
         Misses(h, t, n, items, m, b), t[b] # 0, items[t[b]] # m
  PROVE  Misses(h, t, n, items, m, (b + 1) % n)
BY BeginInside, PassedAfter DEF Misses

\* A probe that meets a free slot has looked everywhere the name could be.
LEMMA MissIsTrue ==
  ASSUME NEW h \in Hashes, NEW n \in Nat \ {0}, NEW t, NEW items,
         NEW k \in Nat, Finds(h, t, n, items, k), NEW m \in Name,
         NEW b \in 0 .. n - 1, Misses(h, t, n, items, m, b), t[b] = 0
  PROVE  ~Listed(items, k, m)
<1> SUFFICES ASSUME NEW i \in 1 .. k, items[i] = m PROVE FALSE
  BY DEF Listed
<1>1. PICK s \in 0 .. n - 1 :
        /\ \A u \in 0 .. n - 1 : t[u] = i <=> u = s
        /\ Reaches(h, t, n, m, s)
  BY DEF Finds
<1>2. t[s] = i /\ s # b
  BY <1>1
<1>3. s \in Passed(Begin(h, m, n), b, n) \/ b \in Passed(Begin(h, m, n), s, n)
  BY <1>2, BeginInside, PassedOrder
<1> QED
  BY <1>1, <1>2, <1>3 DEF Reaches, Misses

LEMMA FindsWeaken ==
  ASSUME NEW h, NEW t, NEW n, NEW items, NEW k \in Nat,
         Finds(h, t, n, items, k), NEW more,
         \A i \in 1 .. k : more[i] = items[i]
  PROVE  Finds(h, t, n, more, k)
BY DEF Finds

LEMMA FindsNone ==
  ASSUME NEW h, NEW n \in Nat, NEW items
  PROVE  Zeros(n) \in Index(n) /\ Finds(h, Zeros(n), n, items, 0)
BY DEF Index, Zeros, Finds

\* A free slot behind the chain of the next name gets its number.
LEMMA FindsMore ==
  ASSUME NEW h \in Hashes, NEW n \in Nat \ {0}, NEW t, NEW items,
         NEW k \in Nat, Finds(h, t, n, items, k),
         \A i \in 1 .. k + 1 : items[i] \in Name,
         NEW b \in 0 .. n - 1, Reaches(h, t, n, items[k + 1], b), t[b] = 0
  PROVE  LET u == [t EXCEPT ![b] = k + 1]
         IN  u \in Index(n) /\ Finds(h, u, n, items, k + 1)
<1> DEFINE u == [t EXCEPT ![b] = k + 1]
<1>1. t \in [0 .. n - 1 -> 0 .. k] /\ DOMAIN t = 0 .. n - 1
  BY DEF Finds
<1>2. u \in [0 .. n - 1 -> 0 .. k + 1]
  BY <1>1
<1>3. u[b] = k + 1 /\ \A s \in 0 .. n - 1 : s # b => u[s] = t[s]
  BY <1>1
<1>4. \A s \in 0 .. n - 1 : t[s] # 0 => u[s] # 0
  BY <1>3
<1> HIDE DEF u
<1>5. ASSUME NEW m \in Name, NEW s \in 0 .. n - 1, Reaches(h, t, n, m, s)
      PROVE  Reaches(h, u, n, m, s)
  BY <1>4, <1>5, BeginInside, PassedInside DEF Reaches
<1>6. ASSUME NEW i \in 1 .. k + 1
      PROVE  \E s \in 0 .. n - 1 :
               /\ \A v \in 0 .. n - 1 : u[v] = i <=> v = s
               /\ Reaches(h, u, n, items[i], s)
  <2>1. CASE i = k + 1
    <3>1. \A v \in 0 .. n - 1 : u[v] = i <=> v = b
      <4>1. \A v \in 0 .. n - 1 : t[v] # k + 1
        BY <1>1
      <4> QED
        BY <1>3, <2>1, <4>1
    <3> QED
      BY <1>5, <2>1, <3>1
  <2>2. CASE i # k + 1
    <3>1. i \in 1 .. k
      BY <2>2
    <3>2. PICK s \in 0 .. n - 1 :
            /\ \A v \in 0 .. n - 1 : t[v] = i <=> v = s
            /\ Reaches(h, t, n, items[i], s)
      BY <3>1 DEF Finds
    <3>3. s # b
      BY <3>1, <3>2
    <3>4. \A v \in 0 .. n - 1 : u[v] = i <=> v = s
      BY <1>3, <2>2, <3>2, <3>3
    <3> QED
      BY <1>5, <3>2, <3>4
  <2> QED
    BY <2>1, <2>2
<1>7. u \in Index(n)
  BY <1>2 DEF Index
<1> QED
  BY <1>2, <1>6, <1>7 DEF Finds, u

-----------------------------------------------------------------------------
(***************************************************************************)
(* The arrays.                                                             *)
(***************************************************************************)

\* What follows a sequence leaves its elements where they are.
LEMMA Joined ==
  ASSUME NEW T, NEW a \in Seq(T), NEW b \in Seq(T)
  PROVE  /\ a \o b \in Seq(T)
         /\ Len(a \o b) = Len(a) + Len(b)
         /\ \A i \in 1 .. Len(a) : (a \o b)[i] = a[i]
<1>1. a \o b \in Seq(T)
  OBVIOUS
<1>2. Len(a \o b) = Len(a) + Len(b)
  OBVIOUS
<1>3. \A i \in 1 .. Len(a) : (a \o b)[i] = a[i]
  OBVIOUS
<1> QED
  BY ONLY <1>1, <1>2, <1>3

\* realloc keeps what was there.
LEMMA ExtendedBuffer ==
  ASSUME NEW S, NEW b \in Seq(S), NEW c \in Nat, c >= Len(b)
  PROVE  /\ Extended(b, c) \in Seq(S \cup {Garbage})
         /\ Len(Extended(b, c)) = c
         /\ \A i \in 1 .. Len(b) : Extended(b, c)[i] = b[i]
<1> DEFINE more == [i \in 1 .. c - Len(b) |-> Garbage]
<1>1. Len(b) \in Nat /\ c - Len(b) \in Nat
  OBVIOUS
<1>2. more \in Seq(S \cup {Garbage}) /\ Len(more) = c - Len(b)
  BY <1>1
<1> HIDE DEF more
<1>3. b \in Seq(S \cup {Garbage})
  OBVIOUS
<1>4. /\ b \o more \in Seq(S \cup {Garbage})
      /\ Len(b \o more) = Len(b) + Len(more)
      /\ \A i \in 1 .. Len(b) : (b \o more)[i] = b[i]
  <2>1. more \in Seq(S \cup {Garbage})
    BY <1>2
  <2> QED
    BY ONLY <1>3, <2>1, Joined
<1>5. Extended(b, c) = b \o more
  BY DEF Extended, more
<1> QED
  BY <1>1, <1>2, <1>4, <1>5

\* Each name is listed once, in the initialised part of the buffer.
NameList(list) ==
  /\ list \in [items : Seq(Name \cup {Garbage}), count : Nat]
  /\ list.count <= Len(list.items)
  /\ \A i \in 1 .. list.count : list.items[i] \in Name
  /\ \A i, j \in 1 .. list.count : list.items[i] = list.items[j] => i = j

\* array_list_push adds the name behind the others.
LEMMA PushName ==
  ASSUME NEW list, NameList(list), NEW m \in Name
  PROVE  LET new == Push(list, m)
         IN  /\ new \in [items : Seq(Name \cup {Garbage}), count : Nat]
             /\ new.count = list.count + 1
             /\ new.count <= Len(new.items)
             /\ new.items[new.count] = m
             /\ \A i \in 1 .. list.count : new.items[i] = list.items[i]
<1> DEFINE room == Room(list)
           new == Push(list, m)
<1>1. /\ list.items \in Seq(Name \cup {Garbage}) /\ list.count \in Nat
      /\ list.count <= Len(list.items)
      /\ list = [items |-> list.items, count |-> list.count]
  BY DEF NameList
<1>2. /\ room.items \in Seq(Name \cup {Garbage})
      /\ list.count + 1 <= Len(room.items)
      /\ \A i \in 1 .. Len(list.items) : room.items[i] = list.items[i]
  <2>1. CASE list.count < Capacity(list)
    BY <1>1, <2>1 DEF Room, Capacity
  <2>2. CASE ~(list.count < Capacity(list))
    <3> DEFINE c == IF list.items = <<>> THEN FirstCapacity
                                         ELSE 2 * Capacity(list)
    <3>1. Len(list.items) \in Nat /\ (list.items # <<>> => Len(list.items) > 0)
            /\ (list.items = <<>> => Len(list.items) = 0)
      BY <1>1
    <3>2. c \in Nat /\ c > Len(list.items) /\ list.count = Len(list.items)
      BY <1>1, <2>2, <3>1, FirstCapacityAssumption DEF Capacity
    <3>3. room = Reserve(list, c)
      BY <2>2 DEF Room
    <3> HIDE DEF c, room
    <3>4. room = [list EXCEPT !.items = Extended(@, c)]
      BY <3>1, <3>2, <3>3 DEF Reserve, Capacity
    <3>5. room.items = Extended(list.items, c)
      BY <1>1, <3>4
    <3>6. /\ Extended(list.items, c)
               \in Seq((Name \cup {Garbage}) \cup {Garbage})
          /\ Len(Extended(list.items, c)) = c
          /\ \A i \in 1 .. Len(list.items) :
               Extended(list.items, c)[i] = list.items[i]
      BY <1>1, <3>2, ExtendedBuffer
    <3>7. (Name \cup {Garbage}) \cup {Garbage} = Name \cup {Garbage}
      OBVIOUS
    <3>8. list.count + 1 <= c
      BY <3>1, <3>2
    <3> QED
      BY <3>5, <3>6, <3>7, <3>8
  <2> QED
    BY <2>1, <2>2
<1> HIDE DEF room
<1>3. /\ new.items = [room.items EXCEPT ![list.count + 1] = m]
      /\ new.count = list.count + 1
      /\ new = [items |-> new.items, count |-> new.count]
  BY DEF Push, room
<1> HIDE DEF new
<1>4. list.count + 1 \in 1 .. Len(room.items) /\ Len(room.items) \in Nat
  BY <1>1, <1>2
<1>5. /\ new.items \in Seq(Name \cup {Garbage})
      /\ Len(new.items) = Len(room.items)
      /\ new.items[list.count + 1] = m
      /\ \A i \in 1 .. Len(room.items) :
           i # list.count + 1 => new.items[i] = room.items[i]
  BY <1>2, <1>3, <1>4
<1>6. \A i \in 1 .. list.count :
        /\ i \in 1 .. Len(room.items) /\ i \in 1 .. Len(list.items)
        /\ i # list.count + 1
  BY <1>1, <1>4
<1>7. new.count \in Nat /\ new.count <= Len(new.items)
  BY <1>1, <1>3, <1>4, <1>5
<1>8. new \in [items : Seq(Name \cup {Garbage}), count : Nat]
  BY <1>3, <1>5, <1>7
<1>9. new.items[new.count] = m
  BY <1>3, <1>5
<1>10. \A i \in 1 .. list.count : new.items[i] = list.items[i]
  BY <1>2, <1>5, <1>6
<1> QED
  BY ONLY <1>3, <1>7, <1>8, <1>9, <1>10 DEF new

LEMMA PushListed ==
  ASSUME NEW list, NameList(list), NEW m \in Name,
         ~Listed(list.items, list.count, m)
  PROVE  NameList(Push(list, m))
<1> DEFINE new == Push(list, m)
<1>1. /\ new \in [items : Seq(Name \cup {Garbage}), count : Nat]
      /\ new.count = list.count + 1
      /\ new.count <= Len(new.items)
      /\ new.items[new.count] = m
      /\ \A i \in 1 .. list.count : new.items[i] = list.items[i]
  BY PushName
<1> HIDE DEF new
<1>2. list.count \in Nat
  BY DEF NameList
<1>3. 1 .. new.count = (1 .. list.count) \cup {new.count}
  BY <1>1, <1>2
<1>4. \A i \in 1 .. list.count : list.items[i] \in Name /\ list.items[i] # m
  BY DEF NameList, Listed
<1>5. \A i \in 1 .. new.count : new.items[i] \in Name
  BY <1>1, <1>3, <1>4
<1>6. ASSUME NEW i \in 1 .. new.count, NEW j \in 1 .. new.count,
             new.items[i] = new.items[j]
      PROVE  i = j
  <2>1. CASE i \in 1 .. list.count /\ j \in 1 .. list.count
    BY <1>1, <1>6, <2>1 DEF NameList
  <2>2. CASE i = new.count \/ j = new.count
    BY <1>1, <1>3, <1>4, <1>6, <2>2
  <2> QED
    BY <1>3, <2>1, <2>2
<1>7. NameList(new)
  BY <1>1, <1>5, <1>6 DEF NameList
<1> QED
  BY <1>7 DEF new

\* grow_array makes room for one more cell: it doubles once at most.
LEMMA GrownCells ==
  ASSUME NEW S, NEW cells \in Seq(S), NEW c \in Nat, c <= Len(cells)
  PROVE  /\ Grown(cells, c + 1) \in Seq(S \cup {Garbage})
         /\ c + 1 <= Len(Grown(cells, c + 1))
         /\ \A i \in 1 .. c : Grown(cells, c + 1)[i] = cells[i]
<1>1. Len(cells) \in Nat /\ (cells = <<>> <=> Len(cells) = 0)
  OBVIOUS
<1>2. CASE Len(cells) >= c + 1
  <2>1. Grown(cells, c + 1) = cells
    BY <1>2 DEF Grown
  <2>2. cells \in Seq(S \cup {Garbage})
    OBVIOUS
  <2> QED
    BY <1>2, <2>1, <2>2
<1>3. CASE ~(Len(cells) >= c + 1)
  <2>1. Len(cells) = c
    BY <1>1, <1>3
  <2> DEFINE base == IF cells = <<>> THEN FirstCells ELSE Len(cells)
             Good(d) == /\ base * 2 ^ d >= c + 1
                        /\ \A e \in 0 .. d - 1 : base * 2 ^ e < c + 1
             least == CHOOSE d \in 0 .. c + 1 : Good(d)
  <2>2. base \in Nat /\ base >= 1 /\ 2 * base >= c + 1
    BY <1>1, <2>1, FirstAssumption
  <2>3. Grown(cells, c + 1) = Extended(cells, base * 2 ^ least)
    BY <1>3 DEF Grown
  <2>4. 2 ^ 0 = 1 /\ 2 ^ 1 = 2
    OBVIOUS
  <2> HIDE DEF base
  <2>5. base * 2 ^ 0 = base /\ base * 2 ^ 1 = 2 * base
    BY <2>2, <2>4
  <2>6. \E d \in 0 .. c + 1 : Good(d)
    <3>1. CASE base >= c + 1
      <4>1. Good(0)
        BY <2>5, <3>1
      <4>2. 0 \in 0 .. c + 1
        OBVIOUS
      <4> HIDE DEF Good
      <4> QED
        BY <4>1, <4>2
    <3>2. CASE base < c + 1
      <4>1. 0 .. 1 - 1 = {0}
        OBVIOUS
      <4>2. Good(1)
        BY <2>2, <2>5, <3>2, <4>1
      <4>3. 1 \in 0 .. c + 1
        OBVIOUS
      <4> HIDE DEF Good
      <4> QED
        BY <4>2, <4>3
    <3> QED
      BY <2>2, <3>1, <3>2
  <2>7. least \in 0 .. c + 1 /\ Good(least)
    <3> HIDE DEF Good
    <3> QED
      BY <2>6
  <2> HIDE DEF least
  <2>8. least \in {0, 1}
    <3> SUFFICES ASSUME least # 0, least # 1 PROVE FALSE
      OBVIOUS
    <3>1. 1 \in 0 .. least - 1
      BY <2>7
    <3>2. base * 2 ^ 1 < c + 1
      BY <2>7, <3>1
    <3> QED
      BY <2>2, <2>5, <3>2
  <2>9. base * 2 ^ least \in Nat /\ base * 2 ^ least >= c + 1
    BY <2>2, <2>5, <2>7, <2>8
  <2> DEFINE n == base * 2 ^ least
  <2>10. n \in Nat /\ n >= c + 1
    BY <2>9
  <2> HIDE DEF n
  <2>11. n >= Len(cells)
    BY <2>1, <2>10
  <2>12. /\ Extended(cells, n) \in Seq(S \cup {Garbage})
         /\ Len(Extended(cells, n)) = n
         /\ \A i \in 1 .. Len(cells) : Extended(cells, n)[i] = cells[i]
    BY <2>10, <2>11, ExtendedBuffer
  <2>13. Grown(cells, c + 1) = Extended(cells, n)
    BY <2>3 DEF n
  <2> QED
    BY <2>1, <2>10, <2>12, <2>13
<1> QED
  BY <1>2, <1>3

\* grow_array makes room for cell c + 1, which is written.
WithCell(cells, c, x) == [Grown(cells, c + 1) EXCEPT ![c + 1] = x]

AddsCell(S, cells, c, x) ==
  LET new == WithCell(cells, c, x)
  IN  /\ new \in Seq(S \cup {Garbage})
      /\ c + 1 <= Len(new)
      /\ new[c + 1] = x
      /\ \A i \in 1 .. c : new[i] = cells[i]

LEMMA NewCellAdded ==
  ASSUME NEW S, NEW cells \in Seq(S), NEW x \in S, NEW c \in Nat,
         c <= Len(cells)
  PROVE  AddsCell(S, cells, c, x)
<1> DEFINE grown == Grown(cells, c + 1)
           new == [grown EXCEPT ![c + 1] = x]
<1>2. /\ grown \in Seq(S \cup {Garbage}) /\ c + 1 <= Len(grown)
      /\ \A i \in 1 .. c : grown[i] = cells[i]
  BY GrownCells
<1> HIDE DEF grown
<1>3. c + 1 \in 1 .. Len(grown)
  BY <1>2
<1>4. /\ new \in Seq(S \cup {Garbage}) /\ Len(new) = Len(grown)
      /\ new[c + 1] = x
      /\ \A i \in 1 .. Len(grown) : i # c + 1 => new[i] = grown[i]
  BY <1>2, <1>3
<1>5. \A i \in 1 .. c : i \in 1 .. Len(grown) /\ i # c + 1
  BY <1>3
<1>6. c + 1 <= Len(new) /\ \A i \in 1 .. c : new[i] = cells[i]
  BY <1>2, <1>4, <1>5
<1> HIDE DEF new
<1> QED
  BY <1>4, <1>6 DEF new, grown, WithCell, AddsCell

-----------------------------------------------------------------------------
(***************************************************************************)
(* The inductive invariant: the four structures grow together, and a probe *)
(* loop stands behind the names it has passed.                             *)
(***************************************************************************)

Cell == 1 .. MaxValues \cup {Invalid}

Cells ==
  /\ bindings \in Seq(Cell \cup {Garbage})
  /\ versions \in Seq(Nat \cup {Garbage})
  /\ names.count <= Len(bindings) /\ names.count <= Len(versions)
  /\ \A i \in 1 .. names.count : bindings[i] \in Cell
  /\ \A i \in 1 .. names.count : versions[i] \in 0 .. Len(values)

Created ==
  /\ values \in Seq([name : Nat, version : Nat])
  /\ Len(values) <= MaxValues
  /\ \A v \in DOMAIN values : values[v].name \in 1 .. count

Snapshots ==
  /\ saved \in Seq(Seq(Cell))
  /\ \A s \in DOMAIN saved : Len(saved[s]) <= count

Calling ==
  /\ pc \in {"idle", "lookup", "rehash", "place"}
  /\ pc = "idle" => call = Abstract!NoCall
  /\ pc # "idle" => call \in Abstract!Call /\ Bounded(call)
  /\ pc \in {"rehash", "place"} => call.op \in {"new", "bind"}
  /\ result \in Cell

Indexes ==
  /\ count = Interned /\ count \in Nat
  /\ IsIndex(slots)
  /\ 2 * count <= SlotCount(slots)
  /\ Finds(hash, slots, SlotCount(slots), names.items, count)

Looking ==
  pc = "lookup" /\ slots # Zeros(0) =>
    /\ ind \in 0 .. SlotCount(slots) - 1
    /\ Misses(hash, slots, SlotCount(slots), names.items, call.name, ind)

Rehashing ==
  pc = "rehash" =>
    /\ ~Listed(names.items, names.count, call.name)
    /\ pos \in 1 .. names.count + 1
    /\ IsIndex(fresh)
    /\ 2 * (names.count + 1) <= SlotCount(fresh)
    /\ Finds(hash, fresh, SlotCount(fresh), names.items, pos - 1)
    /\ ind \in 0 .. SlotCount(fresh) - 1
    /\ pos <= names.count =>
         Reaches(hash, fresh, SlotCount(fresh), names.items[pos], ind)

Placing ==
  pc = "place" =>
    /\ names.items[names.count] = call.name
    /\ 2 * (count + 1) <= SlotCount(slots)
    /\ ind \in 0 .. SlotCount(slots) - 1
    /\ Reaches(hash, slots, SlotCount(slots), call.name, ind)
    /\ bindings[names.count] = Invalid /\ versions[names.count] = 0

IInv ==
  /\ hash \in Hashes /\ NameList(names) /\ Cells /\ Created /\ Snapshots
  /\ Calling /\ Indexes /\ Looking /\ Rehashing /\ Placing

LEMMA CallFields ==
  ASSUME NEW c \in Abstract!Call
  PROVE  /\ c.name \in Name /\ c.op \in {"new", "lookup", "bind"}
         /\ c # Abstract!NoCall
         /\ c.op = "bind" => c.id \in 1 .. MaxValues
BY DEF Abstract!Call, Abstract!NoCall

LEMMA NoNames ==
  /\ IsIndex(Zeros(0)) /\ SlotCount(Zeros(0)) = 0
  /\ \A h, items : Finds(h, Zeros(0), 0, items, 0)
<1>1. 0 \in Nat
  OBVIOUS
<1>2. Zeros(0) \in Index(0)
  BY <1>1, FindsNone
<1>3. IsIndex(Zeros(0)) /\ SlotCount(Zeros(0)) = 0
  BY <1>1, <1>2, SlotCountOf DEF IsIndex
<1>4. ASSUME NEW h, NEW items PROVE Finds(h, Zeros(0), 0, items, 0)
  BY <1>1, FindsNone
<1> QED
  BY <1>3, <1>4

LEMMA InitInvariant == Init => IInv
<1> SUFFICES ASSUME Init PROVE IInv
  OBVIOUS
<1>1. /\ names.count = 0 /\ names.items = <<>>
      /\ names \in [items : Seq(Name \cup {Garbage}), count : Nat]
  BY DEF Init, EmptyList
<1>2. NameList(names)
  BY <1>1 DEF NameList
<1>3. Cells /\ Created /\ Snapshots
  BY <1>1, BoundsAssumption DEF Init, Cells, Created, Snapshots
<1>4. Calling
  BY DEF Init, Calling, Cell
<1>5. Indexes
  BY <1>1, NoNames DEF Init, Indexes, Interned
<1>6. Looking /\ Rehashing /\ Placing
  BY DEF Init, Looking, Rehashing, Placing
<1>7. hash \in Hashes
  BY DEF Init
<1> QED
  BY <1>2, <1>3, <1>4, <1>5, <1>6, <1>7 DEF IInv

\* What holds of the names in every state.
LEMMA ListFacts ==
  ASSUME IInv
  PROVE  /\ names.count \in Nat /\ count \in Nat /\ count <= names.count
         /\ \A i \in 1 .. names.count : names.items[i] \in Name
         /\ pc # "place" => count = names.count
         /\ pc = "place" => names.count = count + 1
         /\ \A i \in 1 .. count : i \in 1 .. names.count
<1>1. names.count \in Nat /\ count \in Nat
  BY DEF IInv, NameList, Indexes
<1>2. count = IF pc = "place" THEN names.count - 1 ELSE names.count
  BY DEF IInv, Indexes, Interned
<1> QED
  BY <1>1, <1>2 DEF IInv, NameList

\* A step that keeps the structures.
LEMMA StructuresStay ==
  ASSUME IInv, UNCHANGED <<hash, cellVars, slots>>, pc' # "place",
         pc # "place"
  PROVE  /\ hash' \in Hashes /\ NameList(names)' /\ Cells' /\ Created'
         /\ Snapshots' /\ Indexes'
<1>1. /\ hash' = hash /\ names' = names /\ count' = count /\ slots' = slots
      /\ bindings' = bindings /\ versions' = versions /\ values' = values
      /\ saved' = saved
  BY DEF cellVars
<1>2. Cells' /\ Created' /\ Snapshots'
  BY <1>1 DEF IInv, Cells, Created, Snapshots
<1>3. Indexes'
  BY <1>1 DEF IInv, Indexes, Interned
<1> QED
  BY <1>1, <1>2, <1>3 DEF IInv

LEMMA StartStep ==
  ASSUME IInv, NEW c \in Abstract!Call, Start(c)
  PROVE  IInv'
<1>1. /\ pc = "idle" /\ pc' = "lookup" /\ call' = c /\ Bounded(c)
      /\ UNCHANGED <<hash, cellVars, slots>> /\ result' = result
      /\ ind' = IF slots = Zeros(0) THEN 0 ELSE Home(c.name, slots)
  BY DEF Start
<1>2. /\ hash' \in Hashes /\ NameList(names)' /\ Cells' /\ Created'
      /\ Snapshots' /\ Indexes'
  BY <1>1, StructuresStay
<1>3. Calling'
  <2>1. values' = values
    BY <1>1 DEF cellVars
  <2> QED
    BY <1>1, <2>1 DEF IInv, Calling, Bounded
<1>4. Looking'
  <2> SUFFICES ASSUME slots # Zeros(0)
               PROVE  /\ ind' \in 0 .. SlotCount(slots) - 1
                      /\ Misses(hash, slots, SlotCount(slots), names.items,
                                c.name, ind')
    BY <1>1 DEF Looking, cellVars
  <2>1. SlotCount(slots) \in Nat \ {0} /\ hash \in Hashes
    BY IndexSize DEF IInv, Indexes
  <2>2. ind' = Begin(hash, c.name, SlotCount(slots))
    BY <1>1 DEF Home, Begin
  <2> QED
    BY <2>1, <2>2, CallFields, BeginInside, ReachesBegin
<1>5. Rehashing' /\ Placing'
  BY <1>1 DEF Rehashing, Placing
<1> QED
  BY <1>2, <1>3, <1>4, <1>5 DEF IInv

\* Inside a loop the index has a slot, and a taken slot holds a number.
LEMMA SlotFacts ==
  ASSUME IInv
  PROVE  /\ hash \in Hashes
         /\ SlotCount(slots) \in Nat
         /\ slots # Zeros(0) => SlotCount(slots) \in Nat \ {0}
         /\ \A u \in 0 .. SlotCount(slots) - 1 :
              slots[u] # 0 => slots[u] \in 1 .. count
<1>1. IsIndex(slots)
  BY DEF IInv, Indexes
<1>2. slots \in [0 .. SlotCount(slots) - 1 -> 0 .. count]
  BY DEF IInv, Indexes, Finds
<1>3. count \in Nat
  BY ListFacts
<1> QED
  BY <1>1, <1>2, <1>3, IndexSize DEF IInv

LEMMA LookupProbeStep ==
  ASSUME IInv, LookupProbe
  PROVE  IInv'
<1>1. /\ pc = "lookup" /\ pc' = pc /\ call' = call /\ result' = result
      /\ UNCHANGED <<hash, cellVars, slots>>
      /\ slots # Zeros(0) /\ slots[ind] # 0
      /\ names.items[slots[ind]] # call.name
      /\ ind' = (ind + 1) % SlotCount(slots)
  BY DEF LookupProbe, Taken, Candidate, Get, After
<1>2. /\ hash' \in Hashes /\ NameList(names)' /\ Cells' /\ Created'
      /\ Snapshots' /\ Indexes'
  BY <1>1, StructuresStay
<1>3. Calling'
  <2>1. values' = values
    BY <1>1 DEF cellVars
  <2> QED
    BY <1>1, <2>1 DEF IInv, Calling, Bounded
<1>4. Looking'
  <2>1. /\ ind \in 0 .. SlotCount(slots) - 1
        /\ Misses(hash, slots, SlotCount(slots), names.items, call.name, ind)
    BY <1>1 DEF IInv, Looking
  <2>2. call.name \in Name
    BY <1>1, CallFields DEF IInv, Calling
  <2>3. SlotCount(slots) \in Nat \ {0} /\ hash \in Hashes
    BY <1>1, SlotFacts
  <2>4. /\ ind' \in 0 .. SlotCount(slots) - 1
        /\ Misses(hash, slots, SlotCount(slots), names.items, call.name, ind')
    BY <1>1, <2>1, <2>2, <2>3, AfterInside, MissesAfter
  <2> QED
    BY <1>1, <2>4 DEF Looking, cellVars
<1>5. Rehashing' /\ Placing'
  BY <1>1 DEF Rehashing, Placing
<1> QED
  BY <1>2, <1>3, <1>4, <1>5 DEF IInv

\* The call is over: nothing is left of it but its result.
LEMMA Answered ==
  ASSUME NEW r \in Cell, Return(r)
  PROVE  Calling' /\ Looking' /\ Rehashing' /\ Placing'
<1>1. pc' = "idle" /\ call' = Abstract!NoCall /\ result' = r
  BY DEF Return
<1> QED
  BY <1>1 DEF Calling, Looking, Rehashing, Placing

\* What the ends of the calls do to the arrays, for the interned name i.
LEMMA EndNewCells ==
  ASSUME IInv, NEW i \in 1 .. names.count, EndNew(i, versions),
         names' = names, count' \in Nat, i <= count', count <= count',
         call.op = "new" => Len(values) < MaxValues
  PROVE  Cells' /\ Created' /\ Calling' /\ Looking' /\ Rehashing' /\ Placing'
<1> DEFINE value == [name |-> i, version |-> versions[i]]
           n == Len(values) + 1
<1>1. /\ call.op = "new" /\ values' = Append(values, value)
      /\ versions' = [versions EXCEPT ![i] = @ + 1] /\ bindings' = bindings
      /\ Return(n)
  BY DEF EndNew
<1>2. /\ versions \in Seq(Nat \cup {Garbage}) /\ names.count <= Len(versions)
      /\ names.count \in Nat /\ versions[i] \in 0 .. Len(values)
      /\ values \in Seq([name : Nat, version : Nat])
      /\ Len(values) < MaxValues
      /\ \A v \in DOMAIN values : values[v].name \in 1 .. count
      /\ count \in Nat
  BY <1>1, ListFacts DEF IInv, Cells, Created
<1>3. n \in Nat /\ Len(values) \in Nat /\ n <= MaxValues /\ i \in Nat
      /\ versions[i] \in Nat
  BY <1>2, BoundsAssumption
<1>4. value \in [name : Nat, version : Nat]
  BY <1>3
<1>5. /\ values' \in Seq([name : Nat, version : Nat]) /\ Len(values') = n
      /\ values'[n] = value
      /\ \A v \in 1 .. Len(values) : values'[v] = values[v]
  <2> HIDE DEF value
  <2> QED
    BY <1>1, <1>2, <1>4
<1>6. Created'
  <2>1. /\ DOMAIN values' = (DOMAIN values) \cup {n}
        /\ DOMAIN values = 1 .. Len(values)
    BY <1>2, <1>3, <1>5
  <2>2. \A v \in DOMAIN values' : values'[v].name \in 1 .. count'
    BY <1>2, <1>5, <2>1
  <2> QED
    BY <1>3, <1>5, <2>2 DEF Created
<1>7. /\ versions' \in Seq(Nat \cup {Garbage})
      /\ Len(versions') = Len(versions)
      /\ versions'[i] = versions[i] + 1
      /\ \A j \in 1 .. Len(versions) : j # i => versions'[j] = versions[j]
  <2>1. i \in 1 .. Len(versions)
    BY <1>2
  <2>2. versions[i] + 1 \in Nat \cup {Garbage}
    BY <1>3
  <2> QED
    BY <1>1, <1>2, <2>1, <2>2
<1>8. Cells'
  <2>1. \A j \in 1 .. names.count : versions'[j] \in 0 .. Len(values')
    <3> SUFFICES ASSUME NEW j \in 1 .. names.count
                 PROVE  versions'[j] \in 0 .. Len(values')
      OBVIOUS
    <3>1. j \in 1 .. Len(versions) /\ versions[j] \in 0 .. Len(values)
      BY <1>2 DEF IInv, Cells
    <3>2. versions[i] \in 0 .. Len(values)
      BY <1>2
    <3>3. versions'[j] = versions[j] \/ versions'[j] = versions[i] + 1
      BY <1>7, <3>1
    <3>4. Len(values') = Len(values) + 1 /\ Len(values) \in Nat
      BY <1>3, <1>5
    <3> QED
      BY ONLY <3>1, <3>2, <3>3, <3>4
  <2> QED
    BY <1>1, <1>7, <2>1 DEF IInv, Cells
<1>9. n \in Cell
  BY <1>3 DEF Cell
<1> HIDE DEF n
<1>10. Calling' /\ Looking' /\ Rehashing' /\ Placing'
  BY <1>1, <1>9, Answered
<1> QED
  BY <1>6, <1>8, <1>10

LEMMA EndBindCells ==
  ASSUME IInv, NEW i \in 1 .. names.count, EndBind(i), pc # "idle",
         names' = names, count' \in Nat, count <= count'
  PROVE  Cells' /\ Created' /\ Calling' /\ Looking' /\ Rehashing' /\ Placing'
<1>1. /\ call.op = "bind" /\ bindings' = [bindings EXCEPT ![i] = call.id]
      /\ versions' = versions /\ values' = values /\ Return(Invalid)
  BY DEF EndBind
<1>2. call.id \in Cell
  BY <1>1, CallFields DEF IInv, Calling, Cell
<1>3. /\ bindings \in Seq(Cell \cup {Garbage}) /\ names.count <= Len(bindings)
      /\ names.count \in Nat /\ i \in 1 .. Len(bindings)
      /\ \A j \in 1 .. names.count : bindings[j] \in Cell
  BY ListFacts DEF IInv, Cells
<1>4. /\ bindings' \in Seq(Cell \cup {Garbage})
      /\ Len(bindings') = Len(bindings)
      /\ \A j \in 1 .. Len(bindings) :
           bindings'[j] = IF j = i THEN call.id ELSE bindings[j]
  BY <1>1, <1>2, <1>3
<1>5. \A j \in 1 .. names.count : j \in 1 .. Len(bindings)
  BY <1>3
<1>6. Cells'
  BY <1>1, <1>2, <1>3, <1>4, <1>5 DEF IInv, Cells
<1>7. Created'
  <2>1. count \in Nat
    BY ListFacts
  <2> QED
    BY <1>1, <2>1 DEF IInv, Created
<1>8. Calling' /\ Looking' /\ Rehashing' /\ Placing'
  <2>1. Invalid \in Cell
    BY DEF Cell
  <2> QED
    BY <1>1, <2>1, Answered
<1> QED
  BY <1>6, <1>7, <1>8

LEMMA FoundStep ==
  ASSUME IInv, Found
  PROVE  IInv'
<1> DEFINE i == slots[ind]
<1>1. /\ pc = "lookup" /\ slots # Zeros(0) /\ i # 0
      /\ EndNew(i, versions) \/ EndBind(i) \/ EndLookup(i)
      /\ UNCHANGED <<hash, names, slots, count, saved>>
  BY DEF Found, Taken
<1>2. ind \in 0 .. SlotCount(slots) - 1
  BY <1>1 DEF IInv, Looking
<1>3. i \in 1 .. count /\ i \in 1 .. names.count /\ count \in Nat
  BY <1>1, <1>2, SlotFacts, ListFacts
<1>4. call.op = "new" => Len(values) < MaxValues
  BY <1>1 DEF IInv, Calling, Bounded
<1> HIDE DEF i
<1>5. Cells' /\ Created' /\ Calling' /\ Looking' /\ Rehashing' /\ Placing'
  <2>1. CASE EndNew(i, versions)
    BY <1>1, <1>3, <1>4, <2>1, EndNewCells
  <2>2. CASE EndBind(i)
    BY <1>1, <1>3, <2>2, EndBindCells
  <2>3. CASE EndLookup(i)
    <3>1. /\ UNCHANGED <<bindings, versions, values>>
          /\ Return(bindings[i]) /\ bindings[i] \in Cell
      BY <1>3, <2>3 DEF EndLookup, IInv, Cells
    <3>2. Cells' /\ Created'
      BY <1>1, <3>1 DEF IInv, Cells, Created
    <3> QED
      BY <3>1, <3>2, Answered
  <2> QED
    BY <1>1, <2>1, <2>2, <2>3
<1>6. pc' = "idle"
  BY <1>1 DEF EndNew, EndBind, EndLookup, Return
<1>7. Indexes' /\ Snapshots'
  BY <1>1, <1>6 DEF IInv, Indexes, Interned, Snapshots
<1> QED
  BY <1>1, <1>5, <1>7 DEF IInv

LEMMA LookupMissesStep ==
  ASSUME IInv, LookupMisses
  PROVE  IInv'
<1>1. /\ pc = "lookup" /\ Return(Invalid) /\ pc' = "idle"
      /\ UNCHANGED <<hash, cellVars, slots>>
  BY DEF LookupMisses, Return
<1>2. /\ hash' \in Hashes /\ NameList(names)' /\ Cells' /\ Created'
      /\ Snapshots' /\ Indexes'
  BY <1>1, StructuresStay
<1>3. Invalid \in Cell
  BY DEF Cell
<1> QED
  BY <1>1, <1>2, <1>3, Answered DEF IInv

\* A name that is looked up and not taken is not in the list.
LEMMA NotListed ==
  ASSUME IInv, pc = "lookup", ~Taken
  PROVE  ~Listed(names.items, names.count, call.name)
<1>1. names.count = count /\ count \in Nat
  BY ListFacts
<1>2. CASE slots = Zeros(0)
  <2>1. count = 0
    BY <1>1, <1>2, NoNames DEF IInv, Indexes
  <2> QED
    BY <1>1, <2>1 DEF Listed
<1>3. CASE slots # Zeros(0)
  <2>1. /\ SlotCount(slots) \in Nat \ {0} /\ hash \in Hashes
        /\ ind \in 0 .. SlotCount(slots) - 1 /\ slots[ind] = 0
        /\ Misses(hash, slots, SlotCount(slots), names.items, call.name, ind)
        /\ Finds(hash, slots, SlotCount(slots), names.items, count)
        /\ call.name \in Name
    BY <1>3, SlotFacts, CallFields
       DEF IInv, Indexes, Looking, Taken, Calling
  <2>2. ~Listed(names.items, count, call.name)
    BY <1>1, <2>1, MissIsTrue
  <2> QED
    BY <1>1, <2>2
<1> QED
  BY <1>2, <1>3

LEMMA RehashStep ==
  ASSUME IInv, Rehash
  PROVE  IInv'
<1> DEFINE s == IF slots = Zeros(0) THEN FirstSlots ELSE SlotCount(slots) * 2
<1>1. /\ pc = "lookup" /\ call.op # "lookup" /\ ~Taken
      /\ fresh' = Zeros(s) /\ pos' = 1 /\ pc' = "rehash" /\ call' = call
      /\ ind' = IF names.count = 0 THEN 0 ELSE Home(Get(names, 1), fresh')
      /\ UNCHANGED <<hash, cellVars, slots>> /\ result' = result
  BY DEF Rehash
<1>2. /\ hash' \in Hashes /\ NameList(names)' /\ Cells' /\ Created'
      /\ Snapshots' /\ Indexes'
  BY <1>1, StructuresStay
<1>3. Calling'
  <2>1. values' = values
    BY <1>1 DEF cellVars
  <2>2. call.op \in {"new", "bind"}
    BY <1>1, CallFields DEF IInv, Calling
  <2> QED
    BY <1>1, <2>1, <2>2 DEF IInv, Calling, Bounded
<1>4. names.count = count /\ count \in Nat
  BY <1>1, ListFacts
<1>5. s \in Nat \ {0} /\ 2 * (names.count + 1) <= s
  <2>1. SlotCount(slots) \in Nat /\ 2 * count <= SlotCount(slots)
    BY SlotFacts DEF IInv, Indexes
  <2>2. CASE slots = Zeros(0)
    <3>1. SlotCount(slots) = 0
      BY <2>2, NoNames
    <3> QED
      BY <1>4, <2>1, <2>2, <3>1, FirstAssumption
  <2>3. CASE slots # Zeros(0)
    <3>1. SlotCount(slots) >= 1
      BY <2>3, SlotFacts
    <3> QED
      BY <1>4, <2>1, <2>3, <3>1
  <2> QED
    BY <2>2, <2>3
<1> HIDE DEF s
<1>6. /\ fresh' \in Index(s) /\ IsIndex(fresh') /\ SlotCount(fresh') = s
      /\ Finds(hash, fresh', s, names.items, 0)
  BY <1>1, <1>5, FindsNone, SlotCountOf DEF IsIndex
<1>7. /\ ind' \in 0 .. s - 1
      /\ 1 <= names.count => Reaches(hash, fresh', s, names.items[1], ind')
  <2>1. CASE names.count = 0
    BY <1>1, <1>5, <2>1
  <2>2. CASE names.count # 0
    <3>1. 1 \in 1 .. names.count
      BY <1>4, <2>2
    <3>2. names.items[1] \in Name
      BY <3>1, ListFacts
    <3>3. ind' = Begin(hash, names.items[1], s)
      BY <1>1, <1>6, <2>2 DEF Home, Begin, Get
    <3> QED
      BY <1>5, <3>2, <3>3, SlotFacts, BeginInside, ReachesBegin
  <2> QED
    BY <2>1, <2>2
<1>8. Rehashing'
  <2>1. ~Listed(names.items, names.count, call.name)
    BY <1>1, NotListed
  <2>2. 1 \in 1 .. names.count + 1 /\ 1 - 1 = 0
    BY <1>4
  <2>3. hash' = hash /\ names' = names
    BY <1>1 DEF cellVars
  <2> QED
    BY <1>1, <1>5, <1>6, <1>7, <2>1, <2>2, <2>3 DEF Rehashing
<1>9. Looking' /\ Placing'
  BY <1>1 DEF Looking, Placing
<1> QED
  BY <1>2, <1>3, <1>8, <1>9 DEF IInv

\* What RehashProbe and RehashSet keep.
LEMMA RehashKeeps ==
  ASSUME IInv, pc = "rehash", pc' = pc, UNCHANGED <<hash, cellVars, slots>>,
         call' = call, result' = result, Rehashing'
  PROVE  IInv'
<1>1. /\ hash' \in Hashes /\ NameList(names)' /\ Cells' /\ Created'
      /\ Snapshots' /\ Indexes'
  BY StructuresStay
<1>2. Calling'
  <2>1. values' = values
    BY DEF cellVars
  <2> QED
    BY <2>1 DEF IInv, Calling, Bounded
<1>3. Looking' /\ Placing'
  BY DEF Looking, Placing
<1> QED
  BY <1>1, <1>2, <1>3 DEF IInv

LEMMA RehashFacts ==
  ASSUME IInv, pc = "rehash"
  PROVE  /\ hash \in Hashes /\ SlotCount(fresh) \in Nat \ {0}
         /\ names.count \in Nat /\ pos \in Nat
         /\ ind \in 0 .. SlotCount(fresh) - 1
         /\ pos <= names.count => names.items[pos] \in Name
<1>1. /\ hash \in Hashes /\ IsIndex(fresh) /\ pos \in 1 .. names.count + 1
      /\ 2 * (names.count + 1) <= SlotCount(fresh)
      /\ ind \in 0 .. SlotCount(fresh) - 1
  BY DEF IInv, Rehashing
<1>2. SlotCount(fresh) \in Nat
  BY <1>1, IndexSize
<1>3. names.count \in Nat
  BY ListFacts
<1>4. pos <= names.count => pos \in 1 .. names.count
  BY <1>1, <1>3
<1> QED
  BY <1>1, <1>2, <1>3, <1>4, ListFacts

LEMMA RehashProbeStep ==
  ASSUME IInv, RehashProbe
  PROVE  IInv'
<1> DEFINE s == SlotCount(fresh)
<1>1. /\ pc = "rehash" /\ pc' = pc /\ call' = call /\ result' = result
      /\ UNCHANGED <<hash, cellVars, slots>> /\ fresh' = fresh /\ pos' = pos
      /\ pos <= names.count /\ fresh[ind] # 0
      /\ ind' = (ind + 1) % s
  BY DEF RehashProbe, rehashVars, After
<1>2. /\ hash \in Hashes /\ s \in Nat \ {0} /\ ind \in 0 .. s - 1
      /\ names.items[pos] \in Name
      /\ Reaches(hash, fresh, s, names.items[pos], ind)
  BY <1>1, RehashFacts DEF IInv, Rehashing
<1>3. /\ ind' \in 0 .. s - 1
      /\ Reaches(hash, fresh, s, names.items[pos], ind')
  <2> HIDE DEF s
  <2> QED
    BY <1>1, <1>2, AfterInside, ReachesAfter
<1>4. Rehashing'
  BY <1>1, <1>3 DEF IInv, Rehashing, cellVars
<1> QED
  BY <1>1, <1>4, RehashKeeps

LEMMA RehashSetStep ==
  ASSUME IInv, RehashSet
  PROVE  IInv'
<1> DEFINE s == SlotCount(fresh)
           k == pos - 1
<1>1. /\ pc = "rehash" /\ pc' = pc /\ call' = call /\ result' = result
      /\ UNCHANGED <<hash, cellVars, slots>>
      /\ pos <= names.count /\ fresh[ind] = 0
      /\ fresh' = [fresh EXCEPT ![ind] = pos] /\ pos' = pos + 1
      /\ ind' = IF pos = names.count THEN 0
                ELSE Home(Get(names, pos + 1), fresh)
  BY DEF RehashSet
<1>2. /\ hash \in Hashes /\ s \in Nat \ {0} /\ ind \in 0 .. s - 1
      /\ names.count \in Nat /\ pos \in 1 .. names.count
      /\ names.items[pos] \in Name
      /\ Reaches(hash, fresh, s, names.items[pos], ind)
      /\ Finds(hash, fresh, s, names.items, k)
      /\ 2 * (names.count + 1) <= s
  BY <1>1, RehashFacts DEF IInv, Rehashing
<1>3. k \in Nat /\ k + 1 = pos
  BY <1>2
<1>4. \A i \in 1 .. k + 1 : names.items[i] \in Name
  <2>1. \A i \in 1 .. pos : i \in 1 .. names.count
    BY <1>2
  <2> QED
    BY <1>3, <2>1, ListFacts
<1> HIDE DEF s, k
<1>5. /\ fresh' \in Index(s)
      /\ Finds(hash, fresh', s, names.items, pos)
  <2>1. LET u == [fresh EXCEPT ![ind] = k + 1]
        IN  u \in Index(s) /\ Finds(hash, u, s, names.items, k + 1)
    <3>1. Reaches(hash, fresh, s, names.items[k + 1], ind)
      BY <1>2, <1>3
    <3> QED
      BY <1>1, <1>2, <1>3, <1>4, <3>1, FindsMore
  <2> QED
    BY <1>1, <1>3, <2>1
<1>6. IsIndex(fresh') /\ SlotCount(fresh') = s
  BY <1>2, <1>5, SlotCountOf DEF IsIndex
<1>7. /\ ind' \in 0 .. s - 1
      /\ pos + 1 <= names.count =>
           Reaches(hash, fresh', s, names.items[pos + 1], ind')
  <2>1. CASE pos = names.count
    BY <1>1, <1>2, <2>1
  <2>2. CASE pos # names.count
    <3>1. pos + 1 \in 1 .. names.count
      BY <1>2, <2>2
    <3>2. names.items[pos + 1] \in Name
      BY <3>1, ListFacts
    <3>3. ind' = Begin(hash, names.items[pos + 1], s)
      BY <1>1, <2>2 DEF Home, Begin, Get, s
    <3> QED
      BY <1>2, <3>2, <3>3, BeginInside, ReachesBegin
  <2> QED
    BY <2>1, <2>2
<1>8. Rehashing'
  <2>1. pos + 1 \in 1 .. names.count + 1 /\ (pos + 1) - 1 = pos
    BY <1>2
  <2>2. hash' = hash /\ names' = names
    BY <1>1 DEF cellVars
  <2>3. ~Listed(names.items, names.count, call.name)
    BY <1>1 DEF IInv, Rehashing
  <2> QED
    BY <1>1, <1>2, <1>5, <1>6, <1>7, <2>1, <2>2, <2>3 DEF Rehashing
<1> QED
  BY <1>1, <1>8, RehashKeeps

\* The cells of the name that joins the list, and of the others.
LEMMA NewCells ==
  ASSUME IInv, names.count = count, NEW table, AddName(table)
  PROVE  /\ bindings' \in Seq((Cell \cup {Garbage}) \cup {Garbage})
         /\ count + 1 <= Len(bindings') /\ bindings'[count + 1] = Invalid
         /\ \A i \in 1 .. count : bindings'[i] = bindings[i]
         /\ versions' \in Seq((Nat \cup {Garbage}) \cup {Garbage})
         /\ count + 1 <= Len(versions') /\ versions'[count + 1] = 0
         /\ \A i \in 1 .. count : versions'[i] = versions[i]
<1> DEFINE k == names.count
<1>1. bindings' = UnboundCells /\ versions' = NewCell(versions, 0)
  BY DEF AddName
<1>2. k \in Nat /\ count = k
  BY ListFacts
<1>3. /\ bindings' \in Seq((Cell \cup {Garbage}) \cup {Garbage})
      /\ k + 1 <= Len(bindings') /\ bindings'[k + 1] = Invalid
      /\ \A i \in 1 .. k : bindings'[i] = bindings[i]
  <2>1. /\ bindings \in Seq(Cell \cup {Garbage})
        /\ names.count <= Len(bindings)
        /\ Invalid \in Cell \cup {Garbage} /\ names.count \in Nat
    BY <1>2 DEF IInv, Cells, Cell
  <2>2. k <= Len(bindings)
    BY <2>1
  <2>3. LET new == NewCell(bindings, Invalid)
        IN  /\ new \in Seq((Cell \cup {Garbage}) \cup {Garbage})
            /\ names.count + 1 <= Len(new)
            /\ new[names.count + 1] = Invalid
            /\ \A i \in 1 .. names.count : new[i] = bindings[i]
    <3> DEFINE B == Cell \cup {Garbage}
    <3>1. bindings \in Seq(B) /\ Invalid \in B
      BY <2>1
    <3> HIDE DEF B
    <3>2. AddsCell(B, bindings, k, Invalid)
      <4> HIDE DEF k
      <4>1. k \in Nat
        BY <1>2
      <4> QED
        BY <2>2, <3>1, <4>1, NewCellAdded
    <3> QED
      BY <3>2 DEF B, NewCell, WithCell, AddsCell
  <2> QED
    BY <1>1, <2>3 DEF UnboundCells
<1>4. /\ versions' \in Seq((Nat \cup {Garbage}) \cup {Garbage})
      /\ k + 1 <= Len(versions') /\ versions'[k + 1] = 0
      /\ \A i \in 1 .. k : versions'[i] = versions[i]
  <2>1. /\ versions \in Seq(Nat \cup {Garbage}) /\ names.count <= Len(versions)
        /\ 0 \in Nat \cup {Garbage} /\ names.count \in Nat
    BY <1>2 DEF IInv, Cells
  <2>2. k <= Len(versions)
    BY <2>1
  <2>3. LET new == NewCell(versions, 0)
        IN  /\ new \in Seq((Nat \cup {Garbage}) \cup {Garbage})
            /\ names.count + 1 <= Len(new)
            /\ new[names.count + 1] = 0
            /\ \A i \in 1 .. names.count : new[i] = versions[i]
    <3> DEFINE B == Nat \cup {Garbage}
    <3>1. versions \in Seq(B) /\ 0 \in B
      BY <2>1
    <3> HIDE DEF B
    <3>2. AddsCell(B, versions, k, 0)
      <4> HIDE DEF k
      <4>1. k \in Nat
        BY <1>2
      <4> QED
        BY <2>2, <3>1, <4>1, NewCellAdded
    <3> QED
      BY <3>2 DEF B, NewCell, WithCell, AddsCell
  <2> QED
    BY <1>1, <2>3
<1> QED
  BY <1>2, <1>3, <1>4

\* A new name joins the list and gets its cells; table finds the others.
LEMMA AddNameStep ==
  ASSUME IInv, pc \in {"lookup", "rehash"}, call.op \in {"new", "bind"},
         ~Listed(names.items, names.count, call.name),
         NEW table, IsIndex(table),
         2 * (names.count + 1) <= SlotCount(table),
         Finds(hash, table, SlotCount(table), names.items, names.count),
         AddName(table)
  PROVE  IInv'
<1> DEFINE s == SlotCount(table)
           k == names.count
<1>1. /\ names' = Push(names, call.name) /\ bindings' = UnboundCells
      /\ versions' = NewCell(versions, 0) /\ slots' = table
      /\ ind' = Home(call.name, table) /\ pc' = "place"
      /\ hash' = hash /\ count' = count /\ values' = values
      /\ saved' = saved /\ call' = call /\ result' = result
  BY DEF AddName
<1>2. k \in Nat /\ count = k /\ call.name \in Name
  BY ListFacts, CallFields DEF IInv, Calling
<1>3. /\ NameList(names') /\ names'.count = k + 1
      /\ names'.items[k + 1] = call.name
      /\ \A i \in 1 .. k : names'.items[i] = names.items[i]
  <2>1. NameList(names)
    BY DEF IInv
  <2>2. NameList(Push(names, call.name))
    BY <1>2, <2>1, PushListed
  <2>3. LET new == Push(names, call.name)
        IN  /\ new \in [items : Seq(Name \cup {Garbage}), count : Nat]
            /\ new.count = names.count + 1
            /\ new.count <= Len(new.items)
            /\ new.items[new.count] = call.name
            /\ \A i \in 1 .. names.count : new.items[i] = names.items[i]
    BY <1>2, <2>1, PushName
  <2> QED
    BY <1>1, <2>2, <2>3
<1>4. /\ bindings' \in Seq((Cell \cup {Garbage}) \cup {Garbage})
      /\ k + 1 <= Len(bindings') /\ bindings'[k + 1] = Invalid
      /\ \A i \in 1 .. k : bindings'[i] = bindings[i]
  BY <1>2, NewCells
<1>5. /\ versions' \in Seq((Nat \cup {Garbage}) \cup {Garbage})
      /\ k + 1 <= Len(versions') /\ versions'[k + 1] = 0
      /\ \A i \in 1 .. k : versions'[i] = versions[i]
  BY <1>2, NewCells
<1>6. /\ \A i \in 1 .. k : /\ bindings[i] \in Cell
                           /\ versions[i] \in 0 .. Len(values)
      /\ 1 .. k + 1 = (1 .. k) \cup {k + 1}
      /\ Len(values) \in Nat
  BY <1>2 DEF IInv, Cells, Created
<1>7. Cells'
  <2>1. /\ (Cell \cup {Garbage}) \cup {Garbage} = Cell \cup {Garbage}
        /\ (Nat \cup {Garbage}) \cup {Garbage} = Nat \cup {Garbage}
        /\ Invalid \in Cell /\ 0 \in 0 .. Len(values)
    BY <1>6 DEF Cell
  <2>2. \A i \in 1 .. k + 1 : bindings'[i] \in Cell
    BY <1>4, <1>6, <2>1
  <2>3. \A i \in 1 .. k + 1 : versions'[i] \in 0 .. Len(values)
    BY <1>5, <1>6, <2>1
  <2> HIDE DEF k
  <2> QED
    BY <1>1, <1>3, <1>4, <1>5, <2>1, <2>2, <2>3 DEF Cells
<1>8. Created' /\ Snapshots'
  BY <1>1 DEF IInv, Created, Snapshots
<1>9. Calling'
  BY <1>1 DEF IInv, Calling, Bounded
<1>10. Indexes'
  <2>1. count' = names'.count - 1 /\ count' \in Nat
    BY <1>1, <1>2, <1>3
  <2>2. Finds(hash, table, s, names'.items, k)
    BY <1>2, <1>3, FindsWeaken
  <2>3. 2 * k <= s
    <3>1. s \in Nat
      BY IndexSize
    <3> QED
      BY <1>2, <3>1
  <2> QED
    BY <1>1, <1>2, <2>1, <2>2, <2>3 DEF Indexes, Interned
<1>11. Placing'
  <2>1. s \in Nat \ {0} /\ hash \in Hashes
    <3>1. s \in Nat
      BY IndexSize
    <3> QED
      BY <1>2, <3>1 DEF IInv
  <2>2. ind' = Begin(hash, call.name, s)
    BY <1>1 DEF Home, Begin
  <2>3. ind' \in 0 .. s - 1 /\ Reaches(hash, table, s, call.name, ind')
    BY <1>2, <2>1, <2>2, BeginInside, ReachesBegin
  <2>4. 2 * (count + 1) <= s
    BY <1>2
  <2> QED
    BY <1>1, <1>3, <1>4, <1>5, <2>3, <2>4 DEF Placing
<1>12. Looking' /\ Rehashing'
  BY <1>1 DEF Looking, Rehashing
<1> QED
  BY <1>1, <1>3, <1>7, <1>8, <1>9, <1>10, <1>11, <1>12 DEF IInv

LEMMA AddStep ==
  ASSUME IInv, Add
  PROVE  IInv'
<1>1. pc = "lookup" /\ call.op # "lookup" /\ ~Taken /\ ~Crowded
        /\ AddName(slots)
  BY DEF Add
<1>2. call.op \in {"new", "bind"}
  BY <1>1, CallFields DEF IInv, Calling
<1>3. ~Listed(names.items, names.count, call.name)
  BY <1>1, NotListed
<1>4. /\ IsIndex(slots) /\ names.count = count /\ count \in Nat
      /\ Finds(hash, slots, SlotCount(slots), names.items, names.count)
  BY <1>1, ListFacts DEF IInv, Indexes
<1>5. 2 * (names.count + 1) <= SlotCount(slots)
  <2>1. SlotCount(slots) \in Nat
    BY SlotFacts
  <2>2. ~((count + 1) * 2 > SlotCount(slots))
    BY <1>1 DEF Crowded
  <2> QED
    BY <1>4, <2>1, <2>2
<1> QED
  BY <1>1, <1>2, <1>3, <1>4, <1>5, AddNameStep

LEMMA RehashEndStep ==
  ASSUME IInv, RehashEnd
  PROVE  IInv'
<1>1. pc = "rehash" /\ pos > names.count /\ AddName(fresh)
  BY DEF RehashEnd
<1>2. call.op \in {"new", "bind"}
  BY <1>1 DEF IInv, Calling
<1>3. pos - 1 = names.count
  <2>1. pos \in 1 .. names.count + 1 /\ names.count \in Nat
    BY <1>1, ListFacts DEF IInv, Rehashing
  <2> QED
    BY <1>1, <2>1
<1>4. /\ ~Listed(names.items, names.count, call.name) /\ IsIndex(fresh)
      /\ 2 * (names.count + 1) <= SlotCount(fresh)
      /\ Finds(hash, fresh, SlotCount(fresh), names.items, pos - 1)
  BY <1>1 DEF IInv, Rehashing
<1> QED
  BY <1>1, <1>2, <1>3, <1>4, AddNameStep

LEMMA PlaceProbeStep ==
  ASSUME IInv, PlaceProbe
  PROVE  IInv'
<1> DEFINE s == SlotCount(slots)
<1>1. /\ pc = "place" /\ pc' = pc /\ call' = call /\ result' = result
      /\ UNCHANGED <<hash, cellVars, slots>> /\ slots[ind] # 0
      /\ ind' = (ind + 1) % s
  BY DEF PlaceProbe, After
<1>2. /\ 2 * (count + 1) <= s /\ ind \in 0 .. s - 1
      /\ Reaches(hash, slots, s, call.name, ind)
      /\ call.name \in Name /\ hash \in Hashes
  BY <1>1, CallFields DEF IInv, Placing, Calling
<1>3. s \in Nat \ {0}
  <2>1. s \in Nat /\ count \in Nat
    BY SlotFacts, ListFacts
  <2> QED
    BY <1>2, <2>1
<1>4. ind' \in 0 .. s - 1 /\ Reaches(hash, slots, s, call.name, ind')
  <2> HIDE DEF s
  <2> QED
    BY <1>1, <1>2, <1>3, AfterInside, ReachesAfter
<1>5. /\ hash' = hash /\ names' = names /\ count' = count /\ slots' = slots
      /\ bindings' = bindings /\ versions' = versions /\ values' = values
      /\ saved' = saved
  BY <1>1 DEF cellVars
<1>6. Placing'
  BY <1>1, <1>4, <1>5 DEF IInv, Placing
<1>7. Cells' /\ Created' /\ Snapshots' /\ Indexes' /\ Calling'
  BY <1>1, <1>5 DEF IInv, Cells, Created, Snapshots, Indexes, Interned,
                    Calling, Bounded
<1>8. Looking' /\ Rehashing'
  BY <1>1 DEF Looking, Rehashing
<1> QED
  BY <1>5, <1>6, <1>7, <1>8 DEF IInv

LEMMA PlaceStep ==
  ASSUME IInv, Place
  PROVE  IInv'
<1> DEFINE s == SlotCount(slots)
<1>1. /\ pc = "place" /\ slots[ind] = 0
      /\ slots' = [slots EXCEPT ![ind] = names.count] /\ count' = count + 1
      /\ EndNew(names.count, versions) \/ EndBind(names.count)
      /\ UNCHANGED <<hash, names, saved>>
  BY DEF Place
<1>2. /\ names.count = count + 1 /\ count \in Nat /\ hash \in Hashes
      /\ names.count \in 1 .. names.count
      /\ \A i \in 1 .. names.count : names.items[i] \in Name
  <2>1. names.count = count + 1 /\ count \in Nat
    BY <1>1, ListFacts
  <2> QED
    BY <2>1, ListFacts DEF IInv
<1>3. /\ 2 * (count + 1) <= s /\ ind \in 0 .. s - 1
      /\ Reaches(hash, slots, s, names.items[names.count], ind)
      /\ Finds(hash, slots, s, names.items, count)
  BY <1>1 DEF IInv, Placing, Indexes
<1>4. s \in Nat \ {0}
  BY <1>2, <1>3, SlotFacts
<1> HIDE DEF s
<1>5. slots' \in Index(s) /\ Finds(hash, slots', s, names.items, count + 1)
  <2>1. LET u == [slots EXCEPT ![ind] = count + 1]
        IN  u \in Index(s) /\ Finds(hash, u, s, names.items, count + 1)
    <3>1. Reaches(hash, slots, s, names.items[count + 1], ind)
      BY <1>2, <1>3
    <3>2. \A i \in 1 .. count + 1 : names.items[i] \in Name
      BY <1>2
    <3> QED
      BY <1>1, <1>2, <1>3, <1>4, <3>1, <3>2, FindsMore
  <2> QED
    BY <1>1, <1>2, <2>1
<1>6. IsIndex(slots') /\ SlotCount(slots') = s
  BY <1>4, <1>5, SlotCountOf DEF IsIndex
<1>7. Cells' /\ Created' /\ Calling' /\ Looking' /\ Rehashing' /\ Placing'
  <2>1. count' \in Nat /\ names.count <= count' /\ count <= count'
    BY <1>1, <1>2
  <2>2. call.op = "new" => Len(values) < MaxValues
    BY <1>1 DEF IInv, Calling, Bounded
  <2>3. pc # "idle"
    BY <1>1
  <2> QED
    BY <1>1, <1>2, <2>1, <2>2, <2>3, EndNewCells, EndBindCells
<1>8. pc' = "idle"
  BY <1>1 DEF EndNew, EndBind, Return
<1>9. Indexes'
  BY <1>1, <1>2, <1>3, <1>5, <1>6, <1>8 DEF Indexes, Interned
<1>10. Snapshots'
  BY <1>1, <1>2 DEF IInv, Snapshots
<1> QED
  BY <1>1, <1>7, <1>9, <1>10 DEF IInv

-----------------------------------------------------------------------------
\* Snapshots.

\* The cells of the names, without the uninitialised ones behind them.
LEMMA NamedCells ==
  ASSUME IInv
  PROVE  LET copy == SubSeq(bindings, 1, names.count)
         IN  /\ copy \in Seq(Cell) /\ Len(copy) = names.count
             /\ \A i \in 1 .. names.count : copy[i] = bindings[i]
<1>1. /\ bindings \in Seq(Cell \cup {Garbage}) /\ names.count \in Nat
      /\ names.count <= Len(bindings)
      /\ \A i \in 1 .. names.count : bindings[i] \in Cell
  BY ListFacts DEF IInv, Cells
<1> DEFINE copy == SubSeq(bindings, 1, names.count)
<1>2. copy = [i \in 1 .. names.count |-> bindings[i]]
  <2>1. copy = [i \in 1 .. 1 + names.count - 1 |-> bindings[i + 1 - 1]]
    BY <1>1
  <2>2. 1 + names.count - 1 = names.count
          /\ \A i \in 1 .. names.count : i + 1 - 1 = i
    BY <1>1
  <2> QED
    BY <2>1, <2>2
<1> HIDE DEF copy
<1>3. copy \in Seq(Cell) /\ Len(copy) = names.count
  BY <1>1, <1>2
<1> QED
  BY <1>2, <1>3 DEF copy

LEMMA SaveStep ==
  ASSUME IInv, Save
  PROVE  IInv'
<1> DEFINE copy == SubSeq(bindings, 1, names.count)
<1>1. /\ pc = "idle" /\ pc' = pc /\ saved' = Append(saved, copy)
      /\ call' = call /\ result' = result
      /\ UNCHANGED <<hash, names, slots, count, bindings, versions, values>>
  BY DEF Save
<1>2. copy \in Seq(Cell) /\ Len(copy) = names.count /\ names.count = count
  BY <1>1, NamedCells, ListFacts
<1> HIDE DEF copy
<1>3. Snapshots'
  <2>1. /\ saved \in Seq(Seq(Cell))
        /\ \A s \in DOMAIN saved : Len(saved[s]) <= count
    BY DEF IInv, Snapshots
  <2>2. /\ saved' \in Seq(Seq(Cell))
        /\ \A s \in DOMAIN saved' :
             \/ s \in DOMAIN saved /\ saved'[s] = saved[s]
             \/ saved'[s] = copy
    BY <1>1, <1>2, <2>1
  <2>3. count \in Nat /\ count <= count
    BY ListFacts
  <2> QED
    BY <1>1, <1>2, <2>1, <2>2, <2>3 DEF Snapshots
<1>4. Cells' /\ Created' /\ Indexes' /\ Calling'
  BY <1>1 DEF IInv, Cells, Created, Indexes, Interned, Calling
<1>5. Looking' /\ Rehashing' /\ Placing'
  BY <1>1 DEF Looking, Rehashing, Placing
<1> QED
  BY <1>1, <1>3, <1>4, <1>5 DEF IInv

LEMMA RestoreStep ==
  ASSUME IInv, Restore
  PROVE  IInv'
<1> DEFINE snapshot == saved[Len(saved)]
<1>1. /\ pc = "idle" /\ pc' = pc /\ saved # <<>>
      /\ bindings' = Restored(snapshot)
      /\ call' = call /\ result' = result
      /\ UNCHANGED <<hash, names, slots, count, versions, values, saved>>
  BY DEF Restore
<1>2. snapshot \in Seq(Cell)
  <2>1. saved \in Seq(Seq(Cell))
    BY DEF IInv, Snapshots
  <2>2. Len(saved) \in DOMAIN saved
    BY <1>1, <2>1
  <2> QED
    BY <2>1, <2>2
<1> HIDE DEF snapshot
<1>3. /\ bindings \in Seq(Cell \cup {Garbage}) /\ names.count \in Nat
      /\ names.count <= Len(bindings)
      /\ \A i \in 1 .. names.count : bindings[i] \in Cell
  BY ListFacts DEF IInv, Cells
<1>4. \A i \in 1 .. Len(bindings) :
        /\ bindings'[i] = IF i <= Len(snapshot) THEN snapshot[i]
                          ELSE IF i <= names.count THEN Invalid
                          ELSE bindings[i]
        /\ i <= Len(snapshot) => snapshot[i] \in Cell
  <2>1. DOMAIN bindings = 1 .. Len(bindings)
    BY <1>3
  <2>2. \A i \in 1 .. Len(bindings) :
          i <= Len(snapshot) => i \in 1 .. Len(snapshot)
    BY <1>2, <1>3
  <2>3. \A i \in 1 .. Len(snapshot) : snapshot[i] \in Cell
    BY <1>2
  <2> QED
    BY <1>1, <2>1, <2>2, <2>3 DEF Restored
<1>5. bindings' \in Seq(Cell \cup {Garbage}) /\ Len(bindings') = Len(bindings)
  <2>1. DOMAIN bindings' = 1 .. Len(bindings)
    BY <1>1, <1>3 DEF Restored
  <2>2. bindings' = [i \in 1 .. Len(bindings) |-> bindings'[i]]
    BY <1>1, <1>3 DEF Restored
  <2>3. \A i \in 1 .. Len(bindings) : bindings'[i] \in Cell \cup {Garbage}
    BY <1>3, <1>4 DEF Cell
  <2>4. Len(bindings) \in Nat
    BY <1>3
  <2> QED
    BY ONLY <2>2, <2>3, <2>4
<1>6. \A i \in 1 .. names.count : bindings'[i] \in Cell
  <2>1. \A i \in 1 .. names.count : i \in 1 .. Len(bindings)
    BY <1>3
  <2> QED
    BY <1>3, <1>4, <2>1 DEF Cell
<1>7. Cells'
  BY <1>1, <1>3, <1>5, <1>6 DEF IInv, Cells
<1>8. Created' /\ Snapshots' /\ Indexes' /\ Calling'
  BY <1>1 DEF IInv, Created, Snapshots, Indexes, Interned, Calling
<1>9. Looking' /\ Rehashing' /\ Placing'
  BY <1>1 DEF Looking, Rehashing, Placing
<1> QED
  BY <1>1, <1>7, <1>8, <1>9 DEF IInv

LEMMA DropStep ==
  ASSUME IInv, Drop
  PROVE  IInv'
<1>1. /\ pc = "idle" /\ pc' = pc /\ saved # <<>>
      /\ saved' = SubSeq(saved, 1, Len(saved) - 1)
      /\ call' = call /\ result' = result
      /\ UNCHANGED <<hash, names, slots, count, bindings, versions, values>>
  BY DEF Drop
<1>2. Snapshots'
  <2>1. /\ saved \in Seq(Seq(Cell))
        /\ \A s \in DOMAIN saved : Len(saved[s]) <= count
    BY DEF IInv, Snapshots
  <2>2. /\ saved' \in Seq(Seq(Cell))
        /\ \A s \in DOMAIN saved' : s \in DOMAIN saved /\ saved'[s] = saved[s]
    BY <1>1, <2>1
  <2> QED
    BY <1>1, <2>1, <2>2 DEF Snapshots
<1>3. Cells' /\ Created' /\ Indexes' /\ Calling'
  BY <1>1 DEF IInv, Cells, Created, Indexes, Interned, Calling
<1>4. Looking' /\ Rehashing' /\ Placing'
  BY <1>1 DEF Looking, Rehashing, Placing
<1> QED
  BY <1>1, <1>2, <1>3, <1>4 DEF IInv

LEMMA NextInvariant == IInv /\ [Next]_vars => IInv'
<1> SUFFICES ASSUME IInv, [Next]_vars PROVE IInv'
  OBVIOUS
<1>1. CASE \E c \in Abstract!Call : Start(c)
  BY <1>1, StartStep
<1>2. CASE Save \/ Restore \/ Drop
  BY <1>2, SaveStep, RestoreStep, DropStep
<1>3. CASE Running
  BY <1>3, LookupProbeStep, FoundStep, LookupMissesStep, RehashStep,
     RehashProbeStep, RehashSetStep, RehashEndStep, AddStep, PlaceProbeStep,
     PlaceStep DEF Running
<1>4. CASE UNCHANGED vars
  BY <1>4 DEF vars, cellVars, rehashVars, IInv, Cells, Created, Snapshots,
     Calling, Bounded, Indexes, Interned, Looking, Rehashing, Placing
<1> QED
  BY <1>1, <1>2, <1>3, <1>4 DEF Next

-----------------------------------------------------------------------------
(***************************************************************************)
(* The properties of the runs.                                             *)
(***************************************************************************)

LEMMA InvariantTypes == IInv => TypeOK
<1> SUFFICES ASSUME IInv PROVE TypeOK
  OBVIOUS
<1>1. count = Interned /\ names.count \in Nat
  BY ListFacts DEF IInv, Indexes
<1>2. \A i \in 1 .. names.count :
        /\ names.items[i] \in Name
        /\ bindings[i] \in 1 .. MaxValues \cup {Invalid}
        /\ versions[i] \in 0 .. MaxValues
  <2>1. \A i \in 1 .. names.count : versions[i] \in 0 .. MaxValues
    <3>1. Len(values) \in Nat /\ Len(values) <= MaxValues
      BY DEF IInv, Created
    <3>2. \A i \in 1 .. names.count : versions[i] \in 0 .. Len(values)
      BY DEF IInv, Cells
    <3> QED
      BY <3>1, <3>2, BoundsAssumption
  <2> QED
    BY <2>1, ListFacts DEF IInv, Cells, Cell
<1>3. \A s \in DOMAIN saved : \A i \in DOMAIN saved[s] :
        saved[s][i] \in 1 .. MaxValues \cup {Invalid}
  <2>1. \A s \in DOMAIN saved : saved[s] \in Seq(Cell)
    BY DEF IInv, Snapshots
  <2> QED
    BY <2>1 DEF Cell
<1>4. /\ result \in 1 .. MaxValues \cup {Invalid}
      /\ pc \in {"idle", "lookup", "rehash", "place"}
      /\ pc = "idle" <=> call = Abstract!NoCall
  BY CallFields DEF IInv, Calling, Cell
<1>5. /\ pc = "place" => ind \in DOMAIN slots
      /\ pc = "rehash" => ind \in DOMAIN fresh
      /\ pc = "lookup" => slots = Zeros(0) \/ ind \in DOMAIN slots
  BY IndexSize DEF IInv, Indexes, Placing, Rehashing, Looking
<1> QED
  BY <1>1, <1>2, <1>3, <1>4, <1>5 DEF TypeOK

\* The four arrays stay together: in every state each has an initialised cell
\* for every name, and no probe leaves the index (intern_name_view, grow_array,
\* rehash_names).
THEOREM TypesCorrect == Spec => []TypeOK
<1> QED
  BY InitInvariant, NextInvariant, InvariantTypes, PTL DEF Spec

LEMMA InvariantFinds == IInv => IndexFindsNames
<1> SUFFICES ASSUME IInv PROVE IndexFindsNames
  OBVIOUS
<1>1. /\ 2 * count <= SlotCount(slots)
      /\ Finds(hash, slots, SlotCount(slots), names.items, count)
      /\ DOMAIN slots = 0 .. SlotCount(slots) - 1
  BY IndexSize DEF IInv, Indexes
<1>2. \A m : Home(m, slots) = Begin(hash, m, SlotCount(slots))
  BY DEF Home, Begin
<1>3. ASSUME NEW i \in 1 .. count
      PROVE  \E s \in DOMAIN slots :
               /\ \A t \in DOMAIN slots : slots[t] = i <=> t = s
               /\ \A t \in Passed(Home(names.items[i], slots), s,
                                  SlotCount(slots)) : slots[t] # 0
  BY <1>1, <1>2 DEF Finds, Reaches
<1> QED
  BY <1>1, <1>3 DEF IndexFindsNames

\* Every name is in one slot, and the probe that starts at the slot of its hash
\* reaches it, through any growth of the index (intern_name_view,
\* rehash_names).
THEOREM NamesAreFound == Spec => []IndexFindsNames
<1> QED
  BY InitInvariant, NextInvariant, InvariantFinds, PTL DEF Spec

-----------------------------------------------------------------------------
(***************************************************************************)
(* The refinement of NameBindings.  The cells of the first k names of      *)
(* items, by name.                                                         *)
(***************************************************************************)

Distinct(items, k) == \A i, j \in 1 .. k : items[i] = items[j] => i = j

At(items, k, m) == CHOOSE i \in 1 .. k : items[i] = m

View(items, k, cells, other) ==
  [m \in Name |-> IF Listed(items, k, m) /\ At(items, k, m) <= Len(cells)
                    THEN cells[At(items, k, m)] ELSE other]

Views(items, k, all) ==
  [s \in DOMAIN all |-> View(items, k, all[s], Invalid)]

Named(items, vs) == [v \in DOMAIN vs |-> [vs[v] EXCEPT !.name = items[@]]]

LEMMA AtListed ==
  ASSUME NEW k \in Nat, NEW items, NEW m, Listed(items, k, m)
  PROVE  At(items, k, m) \in 1 .. k /\ items[At(items, k, m)] = m
BY DEF Listed, At

LEMMA AtItem ==
  ASSUME NEW k \in Nat, NEW items, Distinct(items, k), NEW i \in 1 .. k
  PROVE  Listed(items, k, items[i]) /\ At(items, k, items[i]) = i
<1>1. Listed(items, k, items[i])
  BY DEF Listed
<1> QED
  BY <1>1, AtListed DEF Distinct

LEMMA SameAt ==
  ASSUME NEW k \in Nat, NEW items, NEW more,
         \A i \in 1 .. k : more[i] = items[i], NEW m
  PROVE  /\ Listed(more, k, m) <=> Listed(items, k, m)
         /\ Listed(items, k, m) => At(more, k, m) = At(items, k, m)
<1>1. Listed(more, k, m) <=> Listed(items, k, m)
  BY DEF Listed
<1>2. \A i \in 1 .. k : more[i] = m <=> items[i] = m
  OBVIOUS
<1>3. At(more, k, m) = At(items, k, m)
  BY <1>2 DEF At
<1> QED
  BY <1>1, <1>3

LEMMA ViewSame ==
  ASSUME NEW k \in Nat, NEW items, NEW more,
         \A i \in 1 .. k : more[i] = items[i],
         NEW cells, NEW new, NEW other,
         \A i \in 1 .. k : /\ i <= Len(new) <=> i <= Len(cells)
                           /\ i <= Len(new) => new[i] = cells[i]
  PROVE  View(more, k, new, other) = View(items, k, cells, other)
<1>1. ASSUME NEW m \in Name
      PROVE  (IF Listed(more, k, m) /\ At(more, k, m) <= Len(new)
                THEN new[At(more, k, m)] ELSE other) =
             (IF Listed(items, k, m) /\ At(items, k, m) <= Len(cells)
                THEN cells[At(items, k, m)] ELSE other)
  <2>1. CASE Listed(items, k, m)
    <3>1. At(items, k, m) \in 1 .. k
      BY <2>1, AtListed
    <3> QED
      BY <2>1, <3>1, SameAt
  <2>2. CASE ~Listed(items, k, m)
    BY <2>2, SameAt
  <2> QED
    BY <2>1, <2>2
<1> QED
  BY <1>1 DEF View

LEMMA ViewAt ==
  ASSUME NEW k \in Nat, NEW items, NEW cells, NEW other
  PROVE  /\ \A i \in 1 .. k :
              Distinct(items, k) /\ items[i] \in Name /\ i <= Len(cells) =>
                View(items, k, cells, other)[items[i]] = cells[i]
         /\ \A m \in Name :
              ~Listed(items, k, m) => View(items, k, cells, other)[m] = other
BY AtItem DEF View

With(f, i, x) == [f EXCEPT ![i] = x]

LEMMA ViewSet ==
  ASSUME NEW k \in Nat, NEW items, Distinct(items, k), NEW i \in 1 .. k,
         items[i] \in Name, NEW S, NEW cells \in Seq(S), k <= Len(cells),
         NEW x, NEW other
  PROVE  View(items, k, With(cells, i, x), other) =
           With(View(items, k, cells, other), items[i], x)
<1> DEFINE new == [cells EXCEPT ![i] = x]
           old == View(items, k, cells, other)
<1>1. Len(new) = Len(cells) /\ i \in 1 .. Len(cells) /\ new[i] = x
      /\ \A j \in 1 .. Len(cells) : j # i => new[j] = cells[j]
  OBVIOUS
<1> HIDE DEF new
<1>2. old = [m \in Name |-> old[m]]
  BY DEF View
<1>3. ASSUME NEW m \in Name
      PROVE  (IF Listed(items, k, m) /\ At(items, k, m) <= Len(new)
                THEN new[At(items, k, m)] ELSE other) =
             IF m = items[i] THEN x ELSE old[m]
  <2>1. CASE m = items[i]
    BY <1>1, <2>1, AtItem
  <2>2. CASE m # items[i]
    <3>1. old[m] = IF Listed(items, k, m) /\ At(items, k, m) <= Len(cells)
                     THEN cells[At(items, k, m)] ELSE other
      BY DEF View
    <3>2. Listed(items, k, m) => /\ At(items, k, m) \in 1 .. k
                                 /\ items[At(items, k, m)] = m
      BY AtListed
    <3>3. Listed(items, k, m) => At(items, k, m) \in 1 .. Len(cells)
      BY <3>2
    <3> QED
      BY <1>1, <2>2, <3>1, <3>2, <3>3
  <2> QED
    BY <2>1, <2>2
<1>4. View(items, k, new, other) =
        [m \in Name |-> IF m = items[i] THEN x ELSE old[m]]
  BY <1>3 DEF View
<1> HIDE DEF old
<1>5. [old EXCEPT ![items[i]] = x] =
        [m \in Name |-> IF m = items[i] THEN x ELSE old[m]]
  BY <1>2
<1> QED
  BY <1>4, <1>5 DEF new, old, With

LEMMA ViewMore ==
  ASSUME NEW k \in Nat, NEW items, Distinct(items, k + 1), NEW cells,
         NEW other, k + 1 <= Len(cells) => cells[k + 1] = other
  PROVE  View(items, k + 1, cells, other) = View(items, k, cells, other)
<1>1. ASSUME NEW m \in Name
      PROVE  (IF Listed(items, k + 1, m) /\ At(items, k + 1, m) <= Len(cells)
                THEN cells[At(items, k + 1, m)] ELSE other) =
             (IF Listed(items, k, m) /\ At(items, k, m) <= Len(cells)
                THEN cells[At(items, k, m)] ELSE other)
  <2>1. CASE Listed(items, k, m)
    <3>1. At(items, k, m) \in 1 .. k /\ items[At(items, k, m)] = m
      BY <2>1, AtListed
    <3>2. At(items, k, m) \in 1 .. k + 1
      BY <3>1
    <3>3. Listed(items, k + 1, m) /\ At(items, k + 1, m) = At(items, k, m)
      BY <3>1, <3>2, AtItem
    <3> QED
      BY <2>1, <3>3
  <2>2. CASE ~Listed(items, k, m) /\ Listed(items, k + 1, m)
    <3>1. At(items, k + 1, m) \in 1 .. k + 1
          /\ items[At(items, k + 1, m)] = m
      BY <2>2, AtListed
    <3>2. At(items, k + 1, m) = k + 1
      BY <2>2, <3>1 DEF Listed
    <3> QED
      BY <2>2, <3>2
  <2>3. CASE ~Listed(items, k, m) /\ ~Listed(items, k + 1, m)
    BY <2>3
  <2> QED
    BY <2>1, <2>2, <2>3
<1> QED
  BY <1>1 DEF View

LEMMA NamedSame ==
  ASSUME NEW k \in Nat, NEW items, NEW more,
         \A i \in 1 .. k : more[i] = items[i], NEW vs,
         \A v \in DOMAIN vs : vs[v].name \in 1 .. k
  PROVE  Named(more, vs) = Named(items, vs)
BY DEF Named

LEMMA NamedMore ==
  ASSUME NEW items, NEW vs \in Seq([name : Nat, version : Nat]),
         \A v \in DOMAIN vs : items[vs[v].name] \in Name,
         NEW i \in Nat, items[i] \in Name, NEW x \in Nat
  PROVE  /\ Named(items, Append(vs, [name |-> i, version |-> x])) =
             Append(Named(items, vs), [name |-> items[i], version |-> x])
         /\ Len(Named(items, vs)) = Len(vs)
<1> DEFINE value == [name |-> i, version |-> x]
           named == [name |-> items[i], version |-> x]
           more == Append(vs, value)
           n == Len(vs)
           T == [name : Name, version : Nat]
           old == Named(items, vs)
           new == Named(items, more)
<1>1. n \in Nat /\ DOMAIN vs = 1 .. n
  OBVIOUS
<1>2. value \in [name : Nat, version : Nat] /\ named \in T
  OBVIOUS
<1>3. /\ DOMAIN more = 1 .. n + 1 /\ more[n + 1] = value
      /\ \A v \in 1 .. n : more[v] = vs[v]
  <2> HIDE DEF value
  <2> QED
    BY <1>2
<1>4. \A v \in 1 .. n : [vs[v] EXCEPT !.name = items[@]] \in T
  <2> TAKE v \in 1 .. n
  <2>1. vs[v] \in [name : Nat, version : Nat] /\ items[vs[v].name] \in Name
    <3>1. v \in DOMAIN vs
      BY <1>1
    <3>2. vs[v] \in [name : Nat, version : Nat]
      <4> DEFINE R == [name : Nat, version : Nat]
      <4>1. vs \in Seq(R)
        OBVIOUS
      <4> HIDE DEF R
      <4>2. vs[v] \in R
        BY <3>1, <4>1
      <4> QED
        BY <4>2 DEF R
    <3> QED
      BY <3>1, <3>2
  <2>2. [vs[v] EXCEPT !.name = items[@]] =
          [name |-> items[vs[v].name], version |-> vs[v].version]
    BY <2>1
  <2> QED
    BY <2>1, <2>2
<1>5. DOMAIN old = 1 .. n /\ old \in [1 .. n -> T]
  BY <1>1, <1>4 DEF Named
<1>6. old \in Seq(T) /\ Len(old) = n
  <2> HIDE DEF old, T, n
  <2> QED
    BY <1>1, <1>5
<1>7. [value EXCEPT !.name = items[@]] = named
  OBVIOUS
<1>8. /\ DOMAIN new = 1 .. n + 1 /\ new[n + 1] = named
      /\ \A v \in 1 .. n : new[v] = old[v]
      /\ new = [v \in 1 .. n + 1 |-> new[v]]
  <2>1. n + 1 \in 1 .. n + 1 /\ \A v \in 1 .. n : v \in 1 .. n + 1
    BY <1>1
  <2> HIDE DEF named, value, more, n
  <2>2. new = [v \in 1 .. n + 1 |-> [more[v] EXCEPT !.name = items[@]]]
    BY <1>3 DEF Named
  <2>3. old = [v \in 1 .. n |-> [vs[v] EXCEPT !.name = items[@]]]
    BY <1>1 DEF Named
  <2>4. new[n + 1] = named
    BY <1>3, <1>7, <2>1, <2>2
  <2>5. \A v \in 1 .. n : new[v] = old[v]
    BY <1>3, <2>1, <2>2, <2>3
  <2> HIDE DEF new, old
  <2>6. DOMAIN new = 1 .. n + 1 /\ new = [v \in 1 .. n + 1 |-> new[v]]
    BY <2>2
  <2> QED
    BY <2>4, <2>5, <2>6
<1> HIDE DEF named, T, old, new
<1>9. /\ DOMAIN Append(old, named) = 1 .. n + 1
      /\ Append(old, named)[n + 1] = named
      /\ \A v \in 1 .. n : Append(old, named)[v] = old[v]
      /\ Append(old, named) = [v \in 1 .. n + 1 |-> Append(old, named)[v]]
  <2> HIDE DEF n
  <2>1. Append(old, named) \in Seq(T) /\ Len(Append(old, named)) = n + 1
    BY <1>2, <1>6
  <2>2. Append(old, named)[n + 1] = named
    BY <1>2, <1>6
  <2>3. \A v \in 1 .. n : Append(old, named)[v] = old[v]
    BY <1>2, <1>6
  <2> DEFINE longer == Append(old, named)
  <2> HIDE DEF longer
  <2>4. DOMAIN longer = 1 .. n + 1 /\ longer = [v \in 1 .. n + 1 |-> longer[v]]
    <3>1. longer \in Seq(T) /\ Len(longer) = n + 1
      BY <2>1 DEF longer
    <3> QED
      BY <3>1
  <2> QED
    BY <2>2, <2>3, <2>4 DEF longer
<1>10. \A v \in 1 .. n + 1 : new[v] = Append(old, named)[v]
  <2>1. 1 .. n + 1 = (1 .. n) \cup {n + 1}
    BY <1>1
  <2> QED
    BY <1>8, <1>9, <2>1
<1>11. new = Append(old, named)
  BY <1>8, <1>9, <1>10
<1> QED
  BY <1>6, <1>11 DEF new, old, named

\* The abstract variables are views of the arrays.
Mapping ==
  /\ NextVersion = View(names.items, count, versions, 0)
  /\ Bound = View(names.items, count, bindings, Invalid)
  /\ SavedBound = Views(names.items, count, saved)
  /\ NamedValues = Named(names.items, values)
  /\ Indexed = SubSeq(names.items, 1, count)

LEMMA Mapped == IInv => Mapping
<1> SUFFICES ASSUME IInv PROVE Mapping
  OBVIOUS
<1>1. /\ names.items \in Seq(Name \cup {Garbage}) /\ count \in Nat
      /\ count <= Len(names.items)
  BY ListFacts DEF IInv, NameList
<1>2. \A i \in 1 .. count : Indexed[i] = names.items[i]
  BY <1>1 DEF Indexed
<1>3. \A n : n \in { Indexed[i] : i \in 1 .. count }
               <=> Listed(names.items, count, n)
  BY <1>2 DEF Listed
<1>4. \A n : NumberOf(n) = At(names.items, count, n)
  BY DEF NumberOf, At
<1>5. ASSUME NEW n \in Name, NEW cells, NEW other
      PROVE  OfName(n, cells, other) =
               IF /\ Listed(names.items, count, n)
                  /\ At(names.items, count, n) <= Len(cells)
                 THEN cells[At(names.items, count, n)] ELSE other
  BY <1>3, <1>4 DEF OfName
<1>6. NextVersion = View(names.items, count, versions, 0)
  BY <1>5 DEF NextVersion, View
<1>7. Bound = View(names.items, count, bindings, Invalid)
  BY <1>5 DEF Bound, View
<1>8. SavedBound = Views(names.items, count, saved)
  BY <1>5 DEF SavedBound, View, Views
<1> QED
  BY <1>6, <1>7, <1>8 DEF Mapping, NamedValues, Named, Indexed

LEMMA MappedNext == IInv' => Mapping'
BY Mapped, PTL

LEMMA SamePart ==
  ASSUME NEW S, NEW s \in Seq(S), NEW t \in Seq(S), NEW k \in Nat,
         k <= Len(s), k <= Len(t), \A i \in 1 .. k : s[i] = t[i]
  PROVE  SubSeq(s, 1, k) = SubSeq(t, 1, k)
OBVIOUS

LEMMA NextPart ==
  ASSUME NEW S, NEW s \in Seq(S), NEW k \in Nat, k + 1 <= Len(s)
  PROVE  /\ SubSeq(s, 1, k + 1) = Append(SubSeq(s, 1, k), s[k + 1])
         /\ Len(SubSeq(s, 1, k)) = k
         /\ \A i \in 1 .. k : SubSeq(s, 1, k)[i] = s[i]
OBVIOUS

\* The arrays are long enough, and nothing else is seen of them.
Fits ==
  /\ count \in Nat /\ count <= names.count /\ names.count \in Nat
  /\ names.items \in Seq(Name \cup {Garbage})
  /\ names.count <= Len(names.items)
  /\ Distinct(names.items, names.count)
  /\ \A i \in 1 .. names.count : names.items[i] \in Name
  /\ bindings \in Seq(Cell \cup {Garbage}) /\ names.count <= Len(bindings)
  /\ versions \in Seq(Nat \cup {Garbage}) /\ names.count <= Len(versions)
  /\ values \in Seq([name : Nat, version : Nat])
  /\ \A v \in DOMAIN values : values[v].name \in 1 .. count
  /\ \A i \in 1 .. names.count : versions[i] \in Nat
  /\ saved \in Seq(Seq(Cell))
  /\ \A s \in DOMAIN saved : Len(saved[s]) <= count

LEMMA FitsAlways == IInv => Fits
<1> SUFFICES ASSUME IInv PROVE Fits
  OBVIOUS
<1>1. count \in Nat /\ count <= names.count /\ names.count \in Nat
  BY ListFacts
<1>2. \A i \in 1 .. names.count : versions[i] \in Nat
  <2>1. \A i \in 1 .. names.count : versions[i] \in 0 .. Len(values)
    BY DEF IInv, Cells
  <2> QED
    BY <2>1
<1> QED
  BY <1>1, <1>2
     DEF IInv, Fits, NameList, Distinct, Cells, Created, Snapshots

LEMMA FitsNext == IInv' => Fits'
BY FitsAlways, PTL

\* A step that keeps the cells of the names keeps the abstract state.
LEMMA CellsStay ==
  ASSUME IInv, IInv', count' = count, values' = values, saved' = saved,
         \A i \in 1 .. count :
           /\ names'.items[i] = names.items[i]
           /\ bindings'[i] = bindings[i]
           /\ versions'[i] = versions[i]
  PROVE  UNCHANGED <<Indexed, NextVersion, NamedValues, Bound, SavedBound>>
<1> DEFINE k == count
           items == names.items
           more == names'.items
           newBindings == bindings'
           newVersions == versions'
           zero == 0
<1>1. Mapping /\ Mapping'
  BY Mapped, MappedNext
<1>2. /\ k \in Nat /\ items \in Seq(Name \cup {Garbage}) /\ k <= Len(items)
      /\ Len(bindings) \in Nat /\ k <= Len(bindings)
      /\ Len(versions) \in Nat /\ k <= Len(versions)
      /\ \A v \in DOMAIN values : values[v].name \in 1 .. k
  <2>1. Fits
    BY FitsAlways
  <2>2. /\ Len(items) \in Nat /\ Len(bindings) \in Nat
        /\ Len(versions) \in Nat
    BY <2>1 DEF Fits
  <2>3. /\ k \in Nat /\ names.count \in Nat /\ k <= names.count
        /\ names.count <= Len(items) /\ names.count <= Len(bindings)
        /\ names.count <= Len(versions)
    BY <2>1 DEF Fits
  <2>4. k <= Len(items) /\ k <= Len(bindings) /\ k <= Len(versions)
    <3> HIDE DEF k, items
    <3> QED
      BY <2>2, <2>3
  <2> QED
    BY <2>1, <2>2, <2>4 DEF Fits
<1>3. /\ more \in Seq(Name \cup {Garbage}) /\ k <= Len(more)
      /\ Len(newBindings) \in Nat /\ k <= Len(newBindings)
      /\ Len(newVersions) \in Nat /\ k <= Len(newVersions)
  <2>1. Fits'
    BY FitsNext
  <2>2. /\ Len(more) \in Nat /\ Len(newBindings) \in Nat
        /\ Len(newVersions) \in Nat
    BY <2>1 DEF Fits
  <2> DEFINE c == names'.count
  <2>3. /\ c \in Nat /\ k <= c
        /\ c <= Len(more) /\ c <= Len(newBindings) /\ c <= Len(newVersions)
    BY <2>1 DEF Fits
  <2>4. k <= Len(more) /\ k <= Len(newBindings) /\ k <= Len(newVersions)
    <3> HIDE DEF c, more, newBindings, newVersions, k
    <3> QED
      BY <1>2, <2>2, <2>3
  <2> QED
    BY <2>1, <2>2, <2>4 DEF Fits
<1>4. /\ \A i \in 1 .. k : more[i] = items[i]
      /\ \A i \in 1 .. k : newBindings[i] = bindings[i]
      /\ \A i \in 1 .. k : newVersions[i] = versions[i]
  OBVIOUS
<1>5. /\ NextVersion = View(items, k, versions, zero)
      /\ Bound = View(items, k, bindings, Invalid)
      /\ SavedBound = Views(items, k, saved)
      /\ NamedValues = Named(items, values)
      /\ Indexed = SubSeq(items, 1, k)
  BY <1>1 DEF Mapping
<1>6. /\ NextVersion' = View(more, k, newVersions, zero)
      /\ Bound' = View(more, k, newBindings, Invalid)
      /\ SavedBound' = Views(more, k, saved)
      /\ NamedValues' = Named(more, values)
      /\ Indexed' = SubSeq(more, 1, k)
  BY <1>1 DEF Mapping
<1> HIDE DEF k, items, more, newBindings, newVersions, zero
<1>7. SubSeq(more, 1, k) = SubSeq(items, 1, k)
  BY <1>2, <1>3, <1>4, SamePart
<1>8. View(more, k, newVersions, zero) = View(items, k, versions, zero)
  <2>1. \A i \in 1 .. k : /\ i <= Len(newVersions) <=> i <= Len(versions)
                          /\ i <= Len(newVersions) =>
                               newVersions[i] = versions[i]
    BY <1>2, <1>3, <1>4
  <2>2. k \in Nat
    BY <1>2
  <2>3. \A i \in 1 .. k : more[i] = items[i]
    BY <1>4
  <2> QED
    BY ONLY <2>1, <2>2, <2>3, ViewSame
<1>9. View(more, k, newBindings, Invalid) = View(items, k, bindings, Invalid)
  <2>1. \A i \in 1 .. k : /\ i <= Len(newBindings) <=> i <= Len(bindings)
                          /\ i <= Len(newBindings) =>
                               newBindings[i] = bindings[i]
    BY <1>2, <1>3, <1>4
  <2>2. k \in Nat
    BY <1>2
  <2>3. \A i \in 1 .. k : more[i] = items[i]
    BY <1>4
  <2> QED
    BY ONLY <2>1, <2>2, <2>3, ViewSame
<1>10. Named(more, values) = Named(items, values)
  <2>1. k \in Nat
    BY <1>2
  <2>2. \A i \in 1 .. k : more[i] = items[i]
    BY <1>4
  <2>3. \A v \in DOMAIN values : values[v].name \in 1 .. k
    BY <1>2
  <2> QED
    BY ONLY <2>1, <2>2, <2>3, NamedSame
<1>11. Views(more, k, saved) = Views(items, k, saved)
  <2>1. ASSUME NEW cells
        PROVE  View(more, k, cells, Invalid) = View(items, k, cells, Invalid)
    <3>1. \A i \in 1 .. k : /\ i <= Len(cells) <=> i <= Len(cells)
                            /\ i <= Len(cells) => cells[i] = cells[i]
      OBVIOUS
    <3>2. k \in Nat
      BY <1>2
    <3>3. \A i \in 1 .. k : more[i] = items[i]
      BY <1>4
    <3> QED
      BY ONLY <3>1, <3>2, <3>3, ViewSame
  <2> QED
    BY <2>1 DEF Views
<1> QED
  BY <1>5, <1>6, <1>7, <1>8, <1>9, <1>10, <1>11

LEMMA InitRefines == Init => Abstract!BindingsInit
<1> SUFFICES ASSUME Init PROVE Abstract!BindingsInit
  OBVIOUS
<1>1. /\ names.items = <<>> /\ names.count = 0 /\ count = 0 /\ values = <<>>
      /\ bindings = <<>> /\ versions = <<>> /\ saved = <<>>
      /\ call = Abstract!NoCall /\ result = Invalid
  BY DEF Init, EmptyList
<1>2. Mapping
  BY InitInvariant, Mapped
<1>3. \A m : ~Listed(names.items, 0, m)
  BY DEF Listed
<1>4. NextVersion = [m \in Name |-> 0] /\ Bound = [m \in Name |-> Invalid]
  BY <1>1, <1>2, <1>3 DEF Mapping, View
<1>5. SavedBound = <<>> /\ NamedValues = <<>> /\ Indexed = <<>>
  BY <1>1 DEF SavedBound, NamedValues, Indexed
<1> QED
  BY <1>1, <1>4, <1>5 DEF Abstract!BindingsInit

\* The steps inside a call that change no cell of a name.
LEMMA StaysRefine ==
  ASSUME IInv, IInv', UNCHANGED cellVars
  PROVE  UNCHANGED <<Indexed, NextVersion, NamedValues, Bound, SavedBound>>
<1>1. /\ names' = names /\ count' = count /\ bindings' = bindings
      /\ versions' = versions /\ values' = values /\ saved' = saved
  BY DEF cellVars
<1> QED
  BY <1>1, CellsStay

LEMMA AddRefines ==
  ASSUME IInv, IInv', NEW table, AddName(table), count = names.count,
         call.name \in Name
  PROVE  UNCHANGED Abstract!bindingVars
<1> DEFINE k == names.count
<1>1. /\ names' = Push(names, call.name) /\ bindings' = UnboundCells
      /\ versions' = NewCell(versions, 0) /\ count' = count
      /\ values' = values /\ saved' = saved /\ call' = call
      /\ result' = result
  BY DEF AddName
<1>2. \A i \in 1 .. k : names'.items[i] = names.items[i]
  <2>1. NameList(names)
    BY DEF IInv
  <2>2. LET new == Push(names, call.name)
        IN  /\ new \in [items : Seq(Name \cup {Garbage}), count : Nat]
            /\ new.count = names.count + 1
            /\ new.count <= Len(new.items)
            /\ new.items[new.count] = call.name
            /\ \A i \in 1 .. names.count : new.items[i] = names.items[i]
    BY <2>1, PushName
  <2> QED
    BY <1>1, <2>2
<1>3. \A i \in 1 .. k : /\ bindings'[i] = bindings[i]
                        /\ versions'[i] = versions[i]
  BY NewCells
<1>4. UNCHANGED <<Indexed, NextVersion, NamedValues, Bound, SavedBound>>
  BY <1>1, <1>2, <1>3, CellsStay
<1> QED
  BY <1>1, <1>4 DEF Abstract!bindingVars

\* The end of a call for the name with the number i, which is one of the
\* first k; the views are those of k names already.
Viewed(k) ==
  /\ k \in Nat /\ k <= names.count
  /\ NextVersion = View(names.items, k, versions, 0)
  /\ Bound = View(names.items, k, bindings, Invalid)
  /\ SavedBound = Views(names.items, k, saved)

LEMMA EndNewRefines ==
  ASSUME IInv, IInv', NEW i \in 1 .. names.count, EndNew(i, versions),
         Viewed(count'), i <= count', names.items[i] = call.name,
         names' = names, saved' = saved, Abstract!Intern(call.name)
  PROVE  Abstract!NewValue
<1> DEFINE k == count'
           items == names.items
           m == items[i]
           x == versions[i]
           zero == 0
           value == [name |-> i, version |-> x]
           newVersions == versions'
           newValues == values'
<1>1. Fits /\ Mapping /\ Mapping'
  BY FitsAlways, Mapped, MappedNext
<1>2. /\ call.op = "new" /\ newValues = Append(values, value)
      /\ newVersions = [versions EXCEPT ![i] = x + 1]
      /\ bindings' = bindings
      /\ call' = Abstract!NoCall /\ result' = Len(values) + 1
  BY DEF EndNew, Return
<1>3. /\ k \in Nat /\ i \in 1 .. k /\ m \in Name /\ x \in Nat /\ i \in Nat
      /\ Distinct(items, k) /\ k <= Len(versions) /\ i <= Len(versions)
  <2>1. /\ names.count \in Nat /\ k \in Nat /\ k <= names.count
        /\ names.count <= Len(versions) /\ versions \in Seq(Nat \cup {Garbage})
        /\ Distinct(items, names.count) /\ m \in Name /\ x \in Nat
    BY <1>1 DEF Fits, Viewed
  <2> DEFINE c == names.count
             s == Len(versions)
  <2>2. s \in Nat
    BY <2>1
  <2> HIDE DEF k, c, s, items
  <2>3. i \in 1 .. k /\ k <= s /\ i <= s /\ \A j \in 1 .. k : j \in 1 .. c
    BY <2>1, <2>2 DEF c, s, k
  <2> QED
    BY <2>1, <2>3 DEF Distinct, c, s
<1>4. /\ NextVersion = View(items, k, versions, zero)
      /\ Bound = View(items, k, bindings, Invalid)
      /\ SavedBound = Views(items, k, saved)
      /\ NamedValues = Named(items, values)
  BY <1>1 DEF Viewed, Mapping
<1>5. /\ NextVersion' = View(items, k, newVersions, zero)
      /\ Bound' = View(items, k, bindings, Invalid)
      /\ SavedBound' = Views(items, k, saved)
      /\ NamedValues' = Named(items, newValues)
  BY <1>1, <1>2 DEF Mapping
<1>6. versions \in Seq(Nat \cup {Garbage})
  BY <1>1 DEF Fits
<1>7. /\ values \in Seq([name : Nat, version : Nat])
      /\ \A v \in DOMAIN values : items[values[v].name] \in Name
  <2>1. \A v \in DOMAIN values : values[v].name \in 1 .. names.count
    BY <1>1 DEF Fits
  <2> QED
    BY <1>1, <2>1 DEF Fits
<1>8. View(items, k, newVersions, zero) =
        [View(items, k, versions, zero) EXCEPT ![m] = x + 1]
  <2> DEFINE B == Nat \cup {Garbage}
             y == x + 1
  <2>1. versions \in Seq(B)
    BY <1>6
  <2> HIDE DEF k, items, zero, newVersions, B, y, x
  <2>2. View(items, k, With(versions, i, y), zero) =
          With(View(items, k, versions, zero), items[i], y)
    <3>1. k \in Nat
      BY <1>3
    <3>2. i \in 1 .. k
      BY <1>3
    <3>3. k <= Len(versions)
      BY <1>3
    <3>4. Distinct(items, k)
      BY <1>3
    <3>5. items[i] \in Name
      BY <1>3
    <3> QED
      BY ONLY <2>1, <3>1, <3>2, <3>3, <3>4, <3>5, ViewSet
  <2> QED
    BY <1>2, <2>2 DEF y, With
<1>9. View(items, k, versions, zero)[m] = x
  <2> HIDE DEF k, items, zero
  <2> QED
    BY <1>3, ViewAt
<1>10. /\ Named(items, newValues) =
            Append(Named(items, values), [name |-> m, version |-> x])
       /\ Len(Named(items, values)) = Len(values)
  <2> HIDE DEF items, x
  <2> QED
    BY <1>2, <1>3, <1>7, NamedMore
<1>11. NextVersion[m] = x
  BY <1>4, <1>9
<1>12. NextVersion' = [NextVersion EXCEPT ![m] = x + 1]
  BY <1>4, <1>5, <1>8
<1>13. /\ NamedValues' = Append(NamedValues, [name |-> m, version |-> x])
       /\ Len(NamedValues) = Len(values)
  BY <1>4, <1>5, <1>10
<1>14. UNCHANGED <<Bound, SavedBound>>
  BY <1>4, <1>5
<1> HIDE DEF k, items, value, newVersions, newValues, x
<1> QED
  BY <1>2, <1>11, <1>12, <1>13, <1>14
     DEF Abstract!NewValue, Abstract!Answer, items

LEMMA EndBindRefines ==
  ASSUME IInv, IInv', NEW i \in 1 .. names.count, EndBind(i),
         Viewed(count'), i <= count', names.items[i] = call.name,
         names' = names, saved' = saved, Abstract!Intern(call.name)
  PROVE  Abstract!Bind
<1> DEFINE k == count'
           items == names.items
           m == items[i]
           id == call.id
           newBindings == bindings'
<1>1. Fits /\ Mapping /\ Mapping'
  BY FitsAlways, Mapped, MappedNext
<1>2. /\ call.op = "bind" /\ newBindings = [bindings EXCEPT ![i] = id]
      /\ versions' = versions /\ values' = values
      /\ call' = Abstract!NoCall /\ result' = Invalid
  BY DEF EndBind, Return
<1>3. /\ k \in Nat /\ i \in 1 .. k /\ m \in Name
      /\ Distinct(items, k) /\ k <= Len(bindings)
  <2>1. /\ names.count \in Nat /\ k \in Nat /\ k <= names.count
        /\ names.count <= Len(bindings)
        /\ bindings \in Seq(Cell \cup {Garbage})
        /\ Distinct(items, names.count) /\ m \in Name
    BY <1>1 DEF Fits, Viewed
  <2> DEFINE c == names.count
             s == Len(bindings)
  <2>2. s \in Nat
    BY <2>1
  <2> HIDE DEF k, c, s, items
  <2>3. i \in 1 .. k /\ k <= s /\ \A j \in 1 .. k : j \in 1 .. c
    BY <2>1, <2>2 DEF c, s, k
  <2> QED
    BY <2>1, <2>3 DEF Distinct, c, s
<1>4. /\ NextVersion = View(items, k, versions, 0)
      /\ Bound = View(items, k, bindings, Invalid)
      /\ SavedBound = Views(items, k, saved)
      /\ NamedValues = Named(items, values)
  BY <1>1 DEF Viewed, Mapping
<1>5. /\ NextVersion' = View(items, k, versions, 0)
      /\ Bound' = View(items, k, newBindings, Invalid)
      /\ SavedBound' = Views(items, k, saved)
      /\ NamedValues' = Named(items, values)
  BY <1>1, <1>2 DEF Mapping
<1>6. View(items, k, newBindings, Invalid) =
        [View(items, k, bindings, Invalid) EXCEPT ![m] = id]
  <2> DEFINE B == Cell \cup {Garbage}
  <2>1. bindings \in Seq(B)
    BY <1>1 DEF Fits
  <2> HIDE DEF k, items, newBindings, B, id
  <2>2. View(items, k, With(bindings, i, id), Invalid) =
          With(View(items, k, bindings, Invalid), items[i], id)
    <3>1. k \in Nat
      BY <1>3
    <3>2. i \in 1 .. k
      BY <1>3
    <3>3. k <= Len(bindings)
      BY <1>3
    <3>4. Distinct(items, k)
      BY <1>3
    <3>5. items[i] \in Name
      BY <1>3
    <3> QED
      BY ONLY <2>1, <3>1, <3>2, <3>3, <3>4, <3>5, ViewSet
  <2> QED
    BY <1>2, <2>2 DEF With
<1>7. Bound' = [Bound EXCEPT ![m] = id]
  BY <1>4, <1>5, <1>6
<1>8. UNCHANGED <<NextVersion, NamedValues, SavedBound>>
  BY <1>4, <1>5
<1> HIDE DEF k, items, newBindings
<1> QED
  BY <1>2, <1>7, <1>8 DEF Abstract!Bind, Abstract!Answer, items

\* A name of the index is one of the names that the abstract state has seen.
LEMMA FoundRefines ==
  ASSUME IInv, IInv', Found PROVE Abstract!Respond
<1> DEFINE i == slots[ind]
           items == names.items
<1>1. /\ pc = "lookup" /\ slots # Zeros(0) /\ i # 0
      /\ items[i] = call.name
      /\ EndNew(i, versions) \/ EndBind(i) \/ EndLookup(i)
      /\ UNCHANGED <<hash, names, slots, count, saved>>
  BY DEF Found, Taken, Candidate, Get
<1>2. ind \in 0 .. SlotCount(slots) - 1
  BY <1>1 DEF IInv, Looking
<1>3. i \in 1 .. count /\ i \in 1 .. names.count /\ count \in Nat
  BY <1>1, <1>2, SlotFacts, ListFacts
<1>4. i <= count'
  BY <1>1, <1>3
<1>5. Fits /\ Mapping /\ Mapping'
  BY FitsAlways, Mapped, MappedNext
<1>6. Viewed(count')
  BY <1>1, <1>5 DEF Viewed, Fits, Mapping
<1>7. Indexed = SubSeq(items, 1, count) /\ Indexed' = Indexed
  BY <1>1, <1>5 DEF Mapping
<1>8. count <= Len(items) /\ items \in Seq(Name \cup {Garbage})
  <2>1. /\ items \in Seq(Name \cup {Garbage}) /\ names.count <= Len(items)
        /\ count <= names.count /\ names.count \in Nat /\ count \in Nat
    BY <1>5 DEF Fits
  <2>2. Len(items) \in Nat
    BY <2>1
  <2> QED
    BY <2>1, <2>2
<1>9. Len(Indexed) = count /\ Indexed[i] = call.name
  <2> HIDE DEF i, items
  <2> QED
    BY <1>1, <1>3, <1>7, <1>8
<1>10. Abstract!Intern(call.name)
  <2>1. Abstract!Contains(Indexed, call.name)
    BY <1>3, <1>9 DEF Abstract!Contains
  <2> QED
    BY <1>7, <2>1 DEF Abstract!Intern
<1> HIDE DEF i
<1>11. CASE EndNew(i, versions)
  <2>1. Abstract!NewValue
    BY <1>1, <1>3, <1>4, <1>6, <1>10, <1>11, EndNewRefines
  <2> QED
    BY <2>1 DEF Abstract!Respond
<1>12. CASE EndBind(i)
  <2>1. Abstract!Bind
    BY <1>1, <1>3, <1>4, <1>6, <1>10, <1>12, EndBindRefines
  <2> QED
    BY <2>1 DEF Abstract!Respond
<1>13. CASE EndLookup(i)
  <2>1. /\ call.op = "lookup" /\ UNCHANGED <<bindings, versions, values>>
        /\ call' = Abstract!NoCall /\ result' = bindings[i]
    BY <1>13 DEF EndLookup, Return
  <2>2. UNCHANGED <<Indexed, NextVersion, NamedValues, Bound, SavedBound>>
    <3>1. UNCHANGED cellVars
      BY <1>1, <2>1 DEF cellVars
    <3> QED
      BY <3>1, StaysRefine
  <2>3. Bound[call.name] = bindings[i]
    <3>1. count \in Nat /\ i \in 1 .. count
      BY <1>3
    <3>2. Distinct(items, count) /\ items[i] \in Name
      BY <1>3, <1>5, ListFacts DEF Fits, Distinct
    <3>3. i <= Len(bindings)
      <4>1. /\ names.count <= Len(bindings) /\ names.count \in Nat
            /\ bindings \in Seq(Cell \cup {Garbage})
        BY <1>5 DEF Fits
      <4>2. Len(bindings) \in Nat
        BY <4>1
      <4> QED
        BY <1>3, <4>1, <4>2
    <3>4. Bound = View(items, count, bindings, Invalid)
      BY <1>5 DEF Mapping
    <3>5. View(items, count, bindings, Invalid)[items[i]] = bindings[i]
      <4> HIDE DEF items
      <4> QED
        BY ONLY <3>1, <3>2, <3>3, ViewAt
    <3> QED
      BY <1>1, <3>4, <3>5
  <2> QED
    BY <2>1, <2>2, <2>3
       DEF Abstract!Respond, Abstract!Lookup, Abstract!Answer
<1> QED
  BY <1>1, <1>11, <1>12, <1>13

LEMMA LookupMissesRefines ==
  ASSUME IInv, IInv', LookupMisses PROVE Abstract!Respond
<1>1. /\ pc = "lookup" /\ call.op = "lookup" /\ ~Taken
      /\ call' = Abstract!NoCall /\ result' = Invalid /\ UNCHANGED cellVars
  BY DEF LookupMisses, Return
<1>2. UNCHANGED <<Indexed, NextVersion, NamedValues, Bound, SavedBound>>
  BY <1>1, StaysRefine
<1>3. Bound[call.name] = Invalid
  <2> DEFINE items == names.items
             m == call.name
  <2>1. count \in Nat
    BY ListFacts
  <2>2. ~Listed(items, count, m)
    BY <1>1, NotListed, ListFacts
  <2>3. m \in Name
    BY <1>1, CallFields DEF IInv, Calling
  <2>4. Bound = View(items, count, bindings, Invalid)
    BY Mapped DEF Mapping
  <2>5. View(items, count, bindings, Invalid)[m] = Invalid
    <3> HIDE DEF items, m
    <3> QED
      BY ONLY <2>1, <2>2, <2>3, ViewAt
  <2> QED
    BY <2>4, <2>5
<1> QED
  BY <1>1, <1>2, <1>3 DEF Abstract!Respond, Abstract!Lookup, Abstract!Answer

\* The name that joins the index has no value and no version until then.
LEMMA PlaceRefines ==
  ASSUME IInv, IInv', Place PROVE Abstract!Respond
<1> DEFINE i == names.count
           items == names.items
<1>1. /\ pc = "place" /\ names' = names /\ saved' = saved
      /\ count' = count + 1
      /\ EndNew(i, versions) \/ EndBind(i)
  BY DEF Place
<1>2. /\ i = count + 1 /\ count \in Nat /\ i \in 1 .. i /\ i \in Nat
      /\ i \in 1 .. names.count
  BY <1>1, ListFacts
<1>3. i = count' /\ i <= count'
  BY <1>1, <1>2
<1>4. items[i] = call.name /\ bindings[i] = Invalid /\ versions[i] = 0
  BY <1>1 DEF IInv, Placing
<1>5. Fits /\ Mapping /\ Mapping'
  BY FitsAlways, Mapped, MappedNext
<1>6. Distinct(items, count + 1)
  BY <1>2, <1>5 DEF Fits
<1>7. Viewed(count')
  <2>1. NextVersion = View(items, count + 1, versions, 0)
    <3> DEFINE zero == 0
               k == count
    <3>1. k \in Nat
      BY <1>2
    <3>2. Distinct(items, k + 1)
      BY <1>6
    <3>3. k + 1 <= Len(versions) => versions[k + 1] = zero
      BY <1>2, <1>4
    <3> HIDE DEF zero, k, items
    <3>4. View(items, k + 1, versions, zero) = View(items, k, versions, zero)
      BY ONLY <3>1, <3>2, <3>3, ViewMore
    <3> QED
      BY <1>5, <3>4 DEF Mapping, zero, k, items
  <2>2. Bound = View(items, count + 1, bindings, Invalid)
    <3> DEFINE k == count
    <3>1. k \in Nat
      BY <1>2
    <3>2. Distinct(items, k + 1)
      BY <1>6
    <3>3. k + 1 <= Len(bindings) => bindings[k + 1] = Invalid
      BY <1>2, <1>4
    <3> HIDE DEF k, items
    <3>4. View(items, k + 1, bindings, Invalid) =
            View(items, k, bindings, Invalid)
      BY ONLY <3>1, <3>2, <3>3, ViewMore
    <3> QED
      BY <1>5, <3>4 DEF Mapping, k, items
  <2>3. SavedBound = Views(items, count + 1, saved)
    <3> DEFINE k == count
    <3>1. k \in Nat
      BY <1>2
    <3>2. Distinct(items, k + 1)
      BY <1>6
    <3>3. ASSUME NEW s \in DOMAIN saved
          PROVE  View(items, k + 1, saved[s], Invalid) =
                   View(items, k, saved[s], Invalid)
      <4> DEFINE cells == saved[s]
      <4>1. Len(cells) <= k /\ cells \in Seq(Cell)
        BY <1>5 DEF Fits
      <4> HIDE DEF cells, k
      <4>2. Len(cells) \in Nat
        BY <4>1
      <4>3. k + 1 <= Len(cells) => cells[k + 1] = Invalid
        BY <3>1, <4>1, <4>2
      <4> HIDE DEF items
      <4>4. View(items, k + 1, cells, Invalid) = View(items, k, cells, Invalid)
        BY ONLY <3>1, <3>2, <4>3, ViewMore
      <4> QED
        BY <4>4 DEF cells
    <3>4. Views(items, k + 1, saved) = Views(items, k, saved)
      <4> HIDE DEF k, items
      <4> QED
        BY <3>3 DEF Views
    <3> QED
      BY <1>5, <3>4 DEF Mapping
  <2> QED
    BY <1>1, <1>2, <2>1, <2>2, <2>3 DEF Viewed
<1>8. Abstract!Intern(call.name)
  <2> DEFINE k == count
             S == Name \cup {Garbage}
  <2>1. items \in Seq(S) /\ k \in Nat /\ k + 1 <= Len(items)
    BY <1>2, <1>5 DEF Fits
  <2>2. /\ Indexed = SubSeq(items, 1, k)
        /\ Indexed' = SubSeq(items, 1, k + 1)
    BY <1>1, <1>5 DEF Mapping
  <2>3. items[k + 1] = call.name /\ \A j \in 1 .. k : items[j] # items[k + 1]
    <3>1. \A j \in 1 .. k : j \in 1 .. k + 1 /\ j # k + 1
      BY <1>2
    <3>2. k + 1 \in 1 .. k + 1
      BY <1>2
    <3> QED
      BY <1>2, <1>4, <1>6, <3>1, <3>2 DEF Distinct
  <2> HIDE DEF items, k, S
  <2>4. /\ SubSeq(items, 1, k + 1) = Append(SubSeq(items, 1, k), items[k + 1])
        /\ Len(SubSeq(items, 1, k)) = k
        /\ \A j \in 1 .. k : SubSeq(items, 1, k)[j] = items[j]
    BY <2>1, NextPart
  <2>5. ~Abstract!Contains(Indexed, call.name)
    BY <2>2, <2>3, <2>4 DEF Abstract!Contains
  <2> QED
    BY <2>2, <2>3, <2>4, <2>5 DEF Abstract!Intern
<1> HIDE DEF i
<1>9. CASE EndNew(i, versions)
  <2>1. Abstract!NewValue
    BY <1>1, <1>2, <1>3, <1>4, <1>7, <1>8, <1>9, EndNewRefines
  <2> QED
    BY <2>1 DEF Abstract!Respond
<1>10. CASE EndBind(i)
  <2>1. Abstract!Bind
    BY <1>1, <1>2, <1>3, <1>4, <1>7, <1>8, <1>10, EndBindRefines
  <2> QED
    BY <2>1 DEF Abstract!Respond
<1> QED
  BY <1>1, <1>9, <1>10

LEMMA ViewsAppend ==
  ASSUME NEW S, NEW all \in Seq(S), NEW cells \in S, NEW items, NEW k
  PROVE  Views(items, k, Append(all, cells)) =
           Append(Views(items, k, all), View(items, k, cells, Invalid))
<1> DEFINE n == Len(all)
           more == Append(all, cells)
           T == {View(items, k, c, Invalid) : c \in S}
           new == Views(items, k, more)
           old == Views(items, k, all)
           last == View(items, k, cells, Invalid)
<1>1. /\ n \in Nat /\ DOMAIN all = 1 .. n /\ DOMAIN more = 1 .. n + 1
      /\ more[n + 1] = cells /\ \A s \in 1 .. n : more[s] = all[s]
      /\ \A s \in 1 .. n : all[s] \in S
  OBVIOUS
<1> HIDE DEF n, more
<1>2. /\ DOMAIN old = 1 .. n /\ old = [s \in 1 .. n |-> old[s]]
      /\ \A s \in 1 .. n : old[s] = View(items, k, all[s], Invalid)
  BY <1>1 DEF Views
<1>3. last \in T /\ \A s \in 1 .. n : old[s] \in T
  BY <1>1, <1>2
<1>4. /\ new = [s \in 1 .. n + 1 |-> View(items, k, more[s], Invalid)]
  BY <1>1 DEF Views
<1> HIDE DEF T, old, new, last
<1>5. old \in Seq(T) /\ Len(old) = n
  BY <1>1, <1>2, <1>3
<1>6. Append(old, last) \in Seq(T) /\ Len(Append(old, last)) = n + 1
      /\ Append(old, last)[n + 1] = last
      /\ \A s \in 1 .. n : Append(old, last)[s] = old[s]
  BY <1>1, <1>3, <1>5
<1>7. Append(old, last) = [s \in 1 .. n + 1 |-> Append(old, last)[s]]
  <2> DEFINE long == Append(old, last)
  <2> HIDE DEF long
  <2>1. long \in Seq(T) /\ Len(long) = n + 1
    BY <1>6 DEF long
  <2>2. long = [s \in 1 .. n + 1 |-> long[s]]
    BY <2>1
  <2> QED
    BY <2>2 DEF long
<1>8. \A s \in 1 .. n + 1 :
        View(items, k, more[s], Invalid) = Append(old, last)[s]
  <2>1. 1 .. n + 1 = (1 .. n) \cup {n + 1}
    BY <1>1
  <2>2. View(items, k, more[n + 1], Invalid) = last
    BY <1>1 DEF last
  <2>3. \A s \in 1 .. n : View(items, k, more[s], Invalid) = old[s]
    BY <1>1, <1>2
  <2> QED
    BY <1>6, <2>1, <2>2, <2>3
<1>9. new = Append(old, last)
  BY <1>4, <1>7, <1>8
<1> QED
  BY <1>9 DEF new, old, last, more

LEMMA ViewsFront ==
  ASSUME NEW S, NEW all \in Seq(S), all # <<>>, NEW items, NEW k
  PROVE  /\ Len(Views(items, k, all)) = Len(all)
         /\ Views(items, k, all) # <<>>
         /\ Views(items, k, SubSeq(all, 1, Len(all) - 1)) =
              SubSeq(Views(items, k, all), 1, Len(all) - 1)
<1> DEFINE n == Len(all)
           less == SubSeq(all, 1, n - 1)
           old == Views(items, k, all)
           T == {View(items, k, c, Invalid) : c \in S}
<1>1. /\ n \in Nat \ {0} /\ DOMAIN all = 1 .. n /\ DOMAIN less = 1 .. n - 1
      /\ \A s \in 1 .. n - 1 : less[s] = all[s]
      /\ \A s \in 1 .. n : all[s] \in S
  OBVIOUS
<1> HIDE DEF n, less
<1>2. /\ DOMAIN old = 1 .. n /\ old = [s \in 1 .. n |-> old[s]]
      /\ \A s \in 1 .. n : old[s] = View(items, k, all[s], Invalid)
  BY <1>1 DEF Views
<1>3. \A s \in 1 .. n : old[s] \in T
  BY <1>1, <1>2
<1>4. Views(items, k, less) =
        [s \in 1 .. n - 1 |-> View(items, k, less[s], Invalid)]
  BY <1>1 DEF Views
<1> HIDE DEF T, old
<1>5. old \in Seq(T) /\ Len(old) = n
  BY <1>1, <1>2, <1>3
<1>6. old # <<>>
  BY <1>1, <1>5
<1>7. SubSeq(old, 1, n - 1) = [s \in 1 .. n - 1 |-> old[s]]
  BY <1>1, <1>5
<1>8. \A s \in 1 .. n - 1 : View(items, k, less[s], Invalid) = old[s]
  <2>1. \A s \in 1 .. n - 1 : s \in 1 .. n
    BY <1>1
  <2> QED
    BY <1>1, <1>2, <2>1
<1>9. Views(items, k, less) = SubSeq(old, 1, n - 1)
  BY <1>4, <1>7, <1>8
<1> QED
  BY <1>5, <1>6, <1>9 DEF old, less, n

LEMMA SaveRefines ==
  ASSUME IInv, IInv', Save PROVE Abstract!Save
<1> DEFINE items == names.items
           k == count
           copy == SubSeq(bindings, 1, k)
           S == Seq(Cell)
           newSaved == saved'
<1>1. /\ pc = "idle"
      /\ saved' = Append(saved, SubSeq(bindings, 1, names.count))
      /\ call' = call /\ result' = result
      /\ UNCHANGED <<names, count, bindings, versions, values>>
  BY DEF Save
<1>2. call = Abstract!NoCall /\ k = names.count
  BY <1>1, ListFacts DEF IInv, Calling
<1>3. Fits /\ Fits' /\ Mapping /\ Mapping'
  BY FitsAlways, FitsNext, Mapped, MappedNext
<1>4. /\ k \in Nat /\ k <= Len(bindings) /\ Len(bindings) \in Nat
      /\ bindings \in Seq(Cell \cup {Garbage})
  BY <1>2, <1>3 DEF Fits
<1>5. /\ Len(copy) = k /\ \A i \in 1 .. k : copy[i] = bindings[i]
  <2> HIDE DEF k
  <2> QED
    BY <1>4
<1>6. View(items, k, copy, Invalid) = View(items, k, bindings, Invalid)
  <2> HIDE DEF k, items, copy
  <2>1. \A i \in 1 .. k : /\ i <= Len(copy) <=> i <= Len(bindings)
                          /\ i <= Len(copy) => copy[i] = bindings[i]
    BY <1>4, <1>5
  <2>2. \A i \in 1 .. k : items[i] = items[i]
    OBVIOUS
  <2>3. k \in Nat
    BY <1>4
  <2> QED
    BY ONLY <2>1, <2>2, <2>3, ViewSame
<1>7. newSaved = Append(saved, copy)
  BY <1>1, <1>2
<1>8. /\ saved \in Seq(S) /\ newSaved \in Seq(S)
  BY <1>3 DEF Fits
<1>9. Bound = View(items, k, bindings, Invalid)
      /\ SavedBound = Views(items, k, saved)
      /\ SavedBound' = Views(items, k, newSaved)
  BY <1>1, <1>3 DEF Mapping
<1> HIDE DEF items, k, copy, S, newSaved
<1>10. copy \in S
  <2>1. /\ DOMAIN newSaved = 1 .. Len(saved) + 1
        /\ newSaved[Len(saved) + 1] = copy
    BY <1>7, <1>8
  <2>2. Len(saved) + 1 \in DOMAIN newSaved
    BY <1>8, <2>1
  <2> QED
    BY <1>8, <2>1, <2>2
<1>11. Views(items, k, newSaved) =
         Append(Views(items, k, saved), View(items, k, copy, Invalid))
  BY <1>7, <1>8, <1>10, ViewsAppend
<1>12. SavedBound' = Append(SavedBound, Bound)
  BY <1>6, <1>9, <1>11
<1>13. UNCHANGED <<Indexed, NextVersion, NamedValues, Bound>>
  BY <1>1, <1>3 DEF Mapping
<1> QED
  BY <1>1, <1>2, <1>12, <1>13 DEF Abstract!Save

LEMMA RestoreRefines ==
  ASSUME IInv, IInv', Restore PROVE Abstract!Restore
<1> DEFINE items == names.items
           k == count
           n == Len(saved)
           cells == saved[n]
           new == bindings'
<1>1. /\ pc = "idle" /\ saved # <<>> /\ new = Restored(cells)
      /\ call' = call /\ result' = result
      /\ UNCHANGED <<names, count, versions, values, saved>>
  BY DEF Restore
<1>2. call = Abstract!NoCall /\ k = names.count
  BY <1>1, ListFacts DEF IInv, Calling
<1>3. Fits /\ Fits' /\ Mapping /\ Mapping'
  BY FitsAlways, FitsNext, Mapped, MappedNext
<1>4. n \in DOMAIN saved /\ DOMAIN saved = 1 .. n /\ saved \in Seq(Seq(Cell))
  BY <1>1, <1>3 DEF Fits
<1>5. cells \in Seq(Cell) /\ Len(cells) <= k /\ Len(cells) \in Nat
  <2>1. \A s \in DOMAIN saved : Len(saved[s]) <= k
    BY <1>3 DEF Fits
  <2> DEFINE S == Seq(Cell)
  <2>2. saved \in Seq(S)
    BY <1>4
  <2> HIDE DEF S, n
  <2>3. saved[n] \in S /\ Len(saved[n]) <= k
    BY <1>4, <2>1, <2>2
  <2> QED
    BY <2>3 DEF S
<1>6. /\ k \in Nat /\ k <= Len(bindings) /\ Len(bindings) \in Nat
      /\ DOMAIN bindings = 1 .. Len(bindings)
      /\ new \in Seq(Cell \cup {Garbage}) /\ DOMAIN new = 1 .. Len(new)
      /\ Len(new) \in Nat
  BY <1>2, <1>3 DEF Fits
<1>7. /\ DOMAIN new = DOMAIN bindings
      /\ \A i \in 1 .. k : new[i] = IF i <= Len(cells) THEN cells[i]
                                                       ELSE Invalid
  <2>1. \A i \in 1 .. k : i \in DOMAIN bindings /\ i <= names.count
    BY <1>2, <1>6
  <2> QED
    BY <1>1, <2>1 DEF Restored
<1>8. Len(new) = Len(bindings)
  <2> DEFINE a == Len(new)
             b == Len(bindings)
  <2>1. a \in Nat /\ b \in Nat /\ 1 .. a = 1 .. b
    BY <1>6, <1>7
  <2> HIDE DEF a, b
  <2>2. a = b
    <3>1. CASE a = 0
      <4>1. 1 .. a = {}
        BY <3>1
      <4>2. b # 0 => b \in 1 .. b
        BY <2>1
      <4> QED
        BY <2>1, <3>1, <4>1, <4>2
    <3>2. CASE a # 0
      <4>1. a \in 1 .. a /\ (b # 0 => b \in 1 .. b)
        BY <2>1, <3>2
      <4>2. a \in 1 .. b
        BY <2>1, <4>1
      <4>3. b # 0
        BY <2>1, <4>2
      <4>4. b \in 1 .. a
        BY <2>1, <4>1, <4>3
      <4> QED
        BY <2>1, <4>2, <4>4
    <3> QED
      BY <3>1, <3>2
  <2> QED
    BY <2>2 DEF a, b
<1>9. /\ Bound' = View(items, k, new, Invalid)
      /\ SavedBound = Views(items, k, saved)
      /\ SavedBound' = SavedBound
      /\ UNCHANGED <<Indexed, NextVersion, NamedValues>>
  BY <1>1, <1>3 DEF Mapping
<1> HIDE DEF items, k, n, cells, new
<1>10. View(items, k, new, Invalid) = View(items, k, cells, Invalid)
  <2>1. ASSUME NEW m \in Name
        PROVE  (IF Listed(items, k, m) /\ At(items, k, m) <= Len(new)
                  THEN new[At(items, k, m)] ELSE Invalid) =
               (IF Listed(items, k, m) /\ At(items, k, m) <= Len(cells)
                  THEN cells[At(items, k, m)] ELSE Invalid)
    <3>1. CASE Listed(items, k, m)
      <4>1. At(items, k, m) \in 1 .. k
        BY <1>6, <3>1, AtListed
      <4>2. At(items, k, m) <= Len(new)
        BY <1>6, <1>8, <4>1
      <4> QED
        BY <1>7, <3>1, <4>1, <4>2
    <3>2. CASE ~Listed(items, k, m)
      BY <3>2
    <3> QED
      BY <3>1, <3>2
  <2> QED
    BY <2>1 DEF View
<1>11. /\ SavedBound # <<>>
       /\ Abstract!Last(SavedBound) = View(items, k, cells, Invalid)
  <2>1. DOMAIN SavedBound = 1 .. n
    BY <1>4, <1>9 DEF Views
  <2>2. SavedBound[n] = View(items, k, cells, Invalid)
    BY <1>4, <1>9 DEF Views, cells
  <2>3. n \in Nat /\ n # 0
    BY <1>4 DEF n
  <2>4. Len(SavedBound) = n
    BY <1>9, <2>1, <2>3 DEF Views
  <2>5. SavedBound # <<>>
    BY <2>3, <2>4
  <2> QED
    BY <2>2, <2>4, <2>5 DEF Abstract!Last
<1>12. Bound' = Abstract!Last(SavedBound)
  BY <1>9, <1>10, <1>11
<1> QED
  BY <1>1, <1>2, <1>9, <1>11, <1>12 DEF Abstract!Restore

LEMMA DropRefines ==
  ASSUME IInv, IInv', Drop PROVE Abstract!Drop
<1> DEFINE items == names.items
           k == count
           newSaved == saved'
<1>1. /\ pc = "idle" /\ saved # <<>>
      /\ newSaved = SubSeq(saved, 1, Len(saved) - 1)
      /\ call' = call /\ result' = result
      /\ UNCHANGED <<names, count, bindings, versions, values>>
  BY DEF Drop
<1>2. call = Abstract!NoCall
  BY <1>1 DEF IInv, Calling
<1>3. Fits /\ Mapping /\ Mapping'
  BY FitsAlways, Mapped, MappedNext
<1>4. saved \in Seq(Seq(Cell))
  BY <1>3 DEF Fits
<1>5. /\ SavedBound = Views(items, k, saved)
      /\ SavedBound' = Views(items, k, newSaved)
      /\ UNCHANGED <<Indexed, NextVersion, NamedValues, Bound>>
  BY <1>1, <1>3 DEF Mapping
<1> HIDE DEF items, k, newSaved
<1>6. /\ SavedBound # <<>> /\ Len(SavedBound) = Len(saved)
      /\ Views(items, k, newSaved) =
           SubSeq(Views(items, k, saved), 1, Len(saved) - 1)
  BY <1>1, <1>4, <1>5, ViewsFront
<1>7. SavedBound' = Abstract!Front(SavedBound)
  BY <1>5, <1>6 DEF Abstract!Front
<1> QED
  BY <1>1, <1>2, <1>5, <1>6, <1>7 DEF Abstract!Drop

LEMMA StartRefines ==
  ASSUME IInv, IInv', NEW c \in Abstract!Call, Start(c)
  PROVE  Abstract!Request
<1>1. /\ pc = "idle" /\ call' = c /\ UNCHANGED cellVars /\ result' = result
  BY DEF Start
<1>2. UNCHANGED <<Indexed, NextVersion, NamedValues, Bound, SavedBound>>
  BY <1>1, StaysRefine
<1>3. call = Abstract!NoCall
  BY <1>1 DEF IInv, Calling
<1> QED
  BY <1>1, <1>2, <1>3 DEF Abstract!Request

LEMMA RunningRefines ==
  ASSUME IInv, IInv', Running
  PROVE  Abstract!Respond \/ UNCHANGED Abstract!bindingVars
<1>1. CASE LookupProbe \/ Rehash \/ RehashProbe \/ RehashSet \/ PlaceProbe
  <2>1. UNCHANGED cellVars /\ call' = call /\ result' = result
    BY <1>1 DEF LookupProbe, Rehash, RehashProbe, RehashSet, PlaceProbe
  <2>2. UNCHANGED <<Indexed, NextVersion, NamedValues, Bound, SavedBound>>
    BY <2>1, StaysRefine
  <2> QED
    BY <2>1, <2>2 DEF Abstract!bindingVars
<1>2. CASE Add \/ RehashEnd
  <2>1. /\ pc \in {"lookup", "rehash"}
        /\ AddName(slots) \/ AddName(fresh)
    BY <1>2 DEF Add, RehashEnd
  <2>2. count = names.count /\ call.name \in Name
    BY <2>1, ListFacts, CallFields DEF IInv, Calling
  <2> QED
    BY <2>1, <2>2, AddRefines
<1>3. CASE Found
  BY <1>3, FoundRefines
<1>4. CASE LookupMisses
  BY <1>4, LookupMissesRefines
<1>5. CASE Place
  BY <1>5, PlaceRefines
<1> QED
  BY <1>1, <1>2, <1>3, <1>4, <1>5 DEF Running

LEMMA NextRefines ==
  IInv /\ IInv' /\ [Next]_vars
    => [Abstract!BindingsNext]_Abstract!bindingVars
<1> SUFFICES ASSUME IInv, IInv', [Next]_vars
             PROVE  [Abstract!BindingsNext]_Abstract!bindingVars
  OBVIOUS
<1>1. CASE \E c \in Abstract!Call : Start(c)
  BY <1>1, StartRefines DEF Abstract!BindingsNext
<1>2. CASE Save \/ Restore \/ Drop
  BY <1>2, SaveRefines, RestoreRefines, DropRefines
     DEF Abstract!BindingsNext
<1>3. CASE Running
  BY <1>3, RunningRefines DEF Abstract!BindingsNext
<1>4. CASE UNCHANGED vars
  <2>1. UNCHANGED cellVars /\ call' = call /\ result' = result
    BY <1>4 DEF vars
  <2>2. UNCHANGED <<Indexed, NextVersion, NamedValues, Bound, SavedBound>>
    BY <2>1, StaysRefine
  <2> QED
    BY <2>1, <2>2 DEF Abstract!bindingVars
<1> QED
  BY <1>1, <1>2, <1>3, <1>4 DEF Next

\* The safety half of ImplementsBindings: whatever the hash function and the
\* sizes, a name keeps its number, a new value gets the next version of its
\* name, a lookup returns the value bound last, and a restored snapshot
\* unbinds the names that came later (new_value_view, bind_value_view,
\* lookup_binding_view, restore_bindings).
THEOREM IndexIsBindings ==
  Spec => Abstract!BindingsInit
          /\ [][Abstract!BindingsNext]_Abstract!bindingVars
<1> QED
  BY InitInvariant, NextInvariant, InitRefines, NextRefines, PTL DEF Spec

=============================================================================
