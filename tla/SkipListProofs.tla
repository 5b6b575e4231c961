--------------------------- MODULE SkipListProofs ---------------------------
(***************************************************************************)
(* The skip list for any finite set of keys, any values and any number of  *)
(* levels: its pointers stay those of a skip list, and its operations are  *)
(* those of a map.                                                         *)
(***************************************************************************)
EXTENDS SkipList, Functions, FiniteSetTheorems, SequenceTheorems, WellFoundedInduction, TLAPS

-----------------------------------------------------------------------------
(* Induction and recursion over numbers *)

\* Every nonempty set of numbers has a least element.
LEMMA NatMin ==
  ASSUME NEW T \in SUBSET Nat, T # {}
  PROVE  \E m \in T : \A k \in T : m <= k
<1>1. \E x \in T : \A y \in T : ~(<<y, x>> \in OpToRel(<, Nat))
  BY WFMin, NatLessThanWellFounded
<1>2. \A x, y \in Nat : <<y, x>> \in OpToRel(<, Nat) <=> y < x
  BY DEF OpToRel
<1>3. PICK x \in T : \A y \in T : ~(<<y, x>> \in OpToRel(<, Nat))
  BY <1>1
<1>4. \A y \in T : ~(y < x)
  BY <1>2, <1>3
<1>q. QED
  BY <1>4

\* A set with 0 and the successor of each of its members up to N has 0 .. N.
LEMMA UpTo ==
  ASSUME NEW N \in Nat, NEW T, 0 \in T, \A n \in 0 .. N : n < N /\ n \in T => n + 1 \in T
  PROVE  \A n \in 0 .. N : n \in T
<1> SUFFICES ASSUME NEW n \in 0 .. N, n \notin T PROVE FALSE
  OBVIOUS
<1> DEFINE D == {x \in 0 .. N : x \notin T}
<1>0. D \in SUBSET Nat /\ D # {}
  OBVIOUS
<1>1. PICK m \in D : \A k \in D : m <= k
  BY <1>0, NatMin
<1>2. m - 1 \in 0 .. N /\ m - 1 < N /\ m - 1 \in T
  BY <1>1
<1>q. QED
  BY <1>1, <1>2

\* A finite set of numbers has a bound.
LEMMA Bounded ==
  ASSUME NEW S \in SUBSET Nat, IsFiniteSet(S)
  PROVE  \E b \in Nat : \A n \in S : n <= b
<1>1. PICK n \in Nat : ExistsSurjection(1 .. n, S)
  BY FS_NatSurjection
<1>2. PICK f : f \in Surjection(1 .. n, S)
  BY <1>1 DEF ExistsSurjection
<1>3. f \in [1 .. n -> S] /\ \A x \in S : \E i \in 1 .. n : f[i] = x
  BY <1>2 DEF Surjection
<1> DEFINE T == {m \in 0 .. n : \E b \in Nat : \A i \in 1 .. m : f[i] <= b}
<1>4. 0 \in T
  OBVIOUS
<1>5. ASSUME NEW m \in 0 .. n, m < n, m \in T
      PROVE  m + 1 \in T
  <2>1. PICK b \in Nat : \A i \in 1 .. m : f[i] <= b
    BY <1>5
  <2>2. f[m + 1] \in Nat /\ m + 1 \in 0 .. n
    <3>1. m + 1 \in 1 .. n
      BY <1>5
    <3>2. f[m + 1] \in S
      BY <1>3, <3>1
    <3>3. f[m + 1] \in Nat
      BY <3>2
    <3>q. QED
      BY <1>1, <1>5, <3>3
  <2>3. PICK c \in Nat : b <= c /\ f[m + 1] <= c
    BY <2>1, <2>2
  <2>4. ASSUME NEW i \in 1 .. m + 1
        PROVE  f[i] <= c
    <3>1. CASE i = m + 1
      BY <2>3, <3>1
    <3>2. CASE i # m + 1
      <4>1. i \in 1 .. m /\ i \in 1 .. n
        BY <1>5, <3>2
      <4>2. f[i] \in Nat /\ f[i] <= b
        BY <1>3, <2>1, <4>1
      <4>q. QED
        BY <2>1, <2>3, <4>2
    <3>q. QED
      BY <3>1, <3>2
  <2>q. QED
    BY <2>2, <2>4
<1>6. n \in T
  <2> HIDE DEF T
  <2>q. QED
    BY <1>4, <1>5, UpTo
<1>q. QED
  BY <1>3, <1>6

\* A nonempty finite set of numbers has a greatest element.
LEMMA NatMax ==
  ASSUME NEW S \in SUBSET Nat, IsFiniteSet(S), S # {}
  PROVE  \E m \in S : \A k \in S : k <= m
<1>1. PICK b \in Nat : \A n \in S : n <= b
  BY Bounded
<1> DEFINE D == {b - n : n \in S}
<1>2. D \in SUBSET Nat /\ D # {}
  <2>1. \A n \in S : n \in Nat /\ n <= b
    BY <1>1
  <2>2. \A n \in S : b - n \in Nat
    BY <2>1
  <2>q. QED
    BY <2>2
<1>3. PICK d \in D : \A e \in D : d <= e
  BY <1>2, NatMin
<1>4. PICK m \in S : d = b - m
  BY <1>3
<1>5. ASSUME NEW k \in S
      PROVE  k <= m
  <2>1. d <= b - k
    BY <1>3
  <2>q. QED
    BY <1>4, <2>1
<1>q. QED
  BY <1>5

\* A set that has each number of S with all above it in S has all of S.
LEMMA FromAbove ==
  ASSUME NEW S \in SUBSET Nat, IsFiniteSet(S), NEW T,
         \A n \in S : (\A m \in S : m > n => m \in T) => n \in T
  PROVE  S \subseteq T
<1>1. PICK b \in Nat : \A n \in S : n <= b
  BY Bounded
<1> SUFFICES ASSUME NEW x \in S, x \notin T PROVE FALSE
  OBVIOUS
<1> DEFINE D == {b - n : n \in {y \in S : y \notin T}}
<1>2. D \in SUBSET Nat /\ D # {}
  BY <1>1
<1>3. PICK d \in D : \A e \in D : d <= e
  BY <1>2, NatMin
<1>4. PICK n \in S : n \notin T /\ d = b - n
  BY <1>3
<1>5. ASSUME NEW m \in S, m > n, m \notin T
      PROVE  FALSE
  <2>1. b - m \in D
    BY <1>5
  <2>2. d <= b - m
    BY <1>3, <2>1
  <2>q. QED
    BY <1>4, <1>5, <2>2
<1>q. QED
  BY <1>4, <1>5

\* A function that is given at each number of S from its value at a greater one,
\* where there is one, exists.
LEMMA DownRecursion ==
  ASSUME NEW S \in SUBSET Nat, IsFiniteSet(S), NEW V, NEW next, NEW base \in [S -> V], NEW step \in [S \X V -> V],
         \A n \in S : next[n] \in S => next[n] > n
  PROVE  \E f \in [S -> V] : \A n \in S : f[n] = IF next[n] \in S THEN step[<<n, f[next[n]]>>] ELSE base[n]
<1>1. PICK b \in Nat : \A n \in S : n <= b
  BY Bounded
<1>0. \A n \in S : n \in Nat /\ n <= b
  BY <1>1
<1> DEFINE Above(k) == {n \in S : n > b - k}
           Solves(f, A) == \A n \in A : f[n] = IF next[n] \in S THEN step[<<n, f[next[n]]>>] ELSE base[n]
           T == {k \in 0 .. b + 1 : \E f \in [Above(k) -> V] : Solves(f, Above(k))}
<1>2. 0 \in T
  <2>1. Above(0) = {}
    <3>1. ASSUME NEW n \in S PROVE ~(n > b - 0)
      BY <1>0, <1>1
    <3>q. QED
      BY <3>1
  <2>2. [n \in Above(0) |-> base[n]] \in [Above(0) -> V]
    BY <2>1
  <2>3. 0 \in 0 .. b + 1
    BY <1>1
  <2>q. QED
    BY <2>1, <2>2, <2>3
<1>3. ASSUME NEW k \in 0 .. b + 1, k < b + 1, k \in T
      PROVE  k + 1 \in T
  <2>1. PICK f \in [Above(k) -> V] : Solves(f, Above(k))
    BY <1>3
  <2> DEFINE g == [n \in Above(k + 1) |->
                     IF n \in Above(k) THEN f[n]
                     ELSE IF next[n] \in S THEN step[<<n, f[next[n]]>>] ELSE base[n]]
  <2>2. Above(k) \subseteq Above(k + 1) /\ \A n \in Above(k + 1) : next[n] \in S => next[n] \in Above(k)
    <3>1. k \in Nat /\ b - k \in Int /\ b - (k + 1) = b - k - 1
      BY <1>1, <1>3
    <3>2. ASSUME NEW n \in S, n > b - k PROVE n > b - (k + 1)
      BY <1>0, <3>1, <3>2
    <3>3. ASSUME NEW n \in S, n > b - (k + 1), next[n] \in S PROVE next[n] > b - k
      <4>1. n \in Nat /\ next[n] \in Nat /\ next[n] > n
        BY <1>0, <3>3
      <4>q. QED
        BY <3>1, <3>3, <4>1
    <3>q. QED
      BY <3>2, <3>3
  <2>3. g \in [Above(k + 1) -> V]
    <3>1. ASSUME NEW n \in Above(k + 1), n \notin Above(k), next[n] \in S
          PROVE  step[<<n, f[next[n]]>>] \in V
      <4>1. f[next[n]] \in V /\ n \in S
        BY <2>1, <2>2, <3>1
      <4>q. QED
        BY <4>1
    <3>2. \A n \in Above(k + 1) : g[n] \in V
      BY <2>1, <3>1
    <3>q. QED
      BY <3>2
  <2>4. \A n \in Above(k) : g[n] = f[n]
    BY <2>2
  <2>5. ASSUME NEW n \in Above(k + 1)
        PROVE  g[n] = IF next[n] \in S THEN step[<<n, g[next[n]]>>] ELSE base[n]
    <3>1. next[n] \in S => g[next[n]] = f[next[n]]
      BY <2>2, <2>4
    <3>2. n \in Above(k) => g[n] = IF next[n] \in S THEN step[<<n, f[next[n]]>>] ELSE base[n]
      BY <2>1, <2>4
    <3>3. n \notin Above(k) => g[n] = IF next[n] \in S THEN step[<<n, f[next[n]]>>] ELSE base[n]
      OBVIOUS
    <3>q. QED
      BY <3>1, <3>2, <3>3
  <2>6. k + 1 \in 0 .. b + 1 /\ Solves(g, Above(k + 1))
    BY <1>3, <1>1, <2>5
  <2> HIDE DEF g, Solves, Above
  <2>q. QED
    BY <2>3, <2>6
<1>4. b + 1 \in T
  <2> HIDE DEF T
  <2>q. QED
    BY <1>2, <1>3, UpTo
<1>5. Above(b + 1) = S
  <2>1. ASSUME NEW n \in S PROVE n > b - (b + 1)
    BY <1>0, <1>1
  <2>q. QED
    BY <2>1
<1>q. QED
  BY <1>4, <1>5

-----------------------------------------------------------------------------
(* The pointers of a skip list *)

\* On level i each pointer leads to the next node of the level.
Ordered(l, i) ==
  \A n \in OnLevel(l, i) :
    /\ l.forward[n][i] # Null => l.forward[n][i] \in OnLevel(l, i) /\ n < l.forward[n][i]
    /\ \A m \in OnLevel(l, i) : n < m => l.forward[n][i] # Null /\ l.forward[n][i] <= m

\* A node is on the levels up to the one it drew, and the top level of the list
\* is one of them.
Linked(l) ==
  /\ Nodes(l) \subseteq Key /\ l.value \in [Nodes(l) -> Val]
  /\ l.level \in 0 .. MaxLevel
  /\ DOMAIN l.forward = Nodes(l) \cup {Header}
  /\ DOMAIN l.forward[Header] = 0 .. MaxLevel
  /\ \A n \in Nodes(l) : \E h \in 1 .. l.level : DOMAIN l.forward[n] = 0 .. h
  /\ \A i \in 0 .. MaxLevel : Ordered(l, i)
  /\ l.level > 0 => l.forward[Header][l.level] # Null
  /\ l.count = Cardinality(Nodes(l))

LEMMA LevelFacts ==
  ASSUME NEW l, Linked(l), NEW i \in 0 .. MaxLevel
  PROVE  /\ OnLevel(l, i) \in SUBSET Nat /\ IsFiniteSet(OnLevel(l, i)) /\ Header \in OnLevel(l, i)
         /\ \A n \in OnLevel(l, i) : n # Header => n \in Nodes(l) /\ n \in Key /\ 0 < n /\ i <= l.level
         /\ \A j \in 0 .. i : OnLevel(l, i) \subseteq OnLevel(l, j)
         /\ i = 0 => OnLevel(l, i) = Nodes(l) \cup {Header}
<1>1. /\ Key \subseteq Nat \ {0} /\ IsFiniteSet(Key) /\ MaxLevel \in Nat
      /\ Nodes(l) \subseteq Key /\ l.level \in 0 .. MaxLevel
      /\ DOMAIN l.forward = Nodes(l) \cup {Header} /\ DOMAIN l.forward[Header] = 0 .. MaxLevel
      /\ \A n \in Nodes(l) : \E h \in 1 .. l.level : DOMAIN l.forward[n] = 0 .. h
  BY ListAssumption DEF Linked
<1>2. OnLevel(l, i) \subseteq Key \cup {Header} /\ IsFiniteSet(Key \cup {Header})
  BY <1>1, FS_AddElement DEF OnLevel
<1>3. OnLevel(l, i) \in SUBSET Nat /\ IsFiniteSet(OnLevel(l, i)) /\ Header \in OnLevel(l, i)
  <2>1. IsFiniteSet(OnLevel(l, i))
    BY <1>2, FS_Subset
  <2>2. OnLevel(l, i) \subseteq Nat
    <3>1. Key \cup {Header} \subseteq Nat
      BY ListAssumption DEF Header
    <3>q. QED
      BY <1>2, <3>1
  <2>3. Header \in OnLevel(l, i)
    BY <1>1 DEF OnLevel
  <2>q. QED
    BY <2>1, <2>2, <2>3
<1>4. ASSUME NEW n \in OnLevel(l, i), n # Header
      PROVE  n \in Nodes(l) /\ n \in Key /\ 0 < n /\ i <= l.level
  <2>1. n \in Nodes(l) /\ i \in DOMAIN l.forward[n]
    BY <1>1, <1>4 DEF OnLevel
  <2>2. PICK h \in 1 .. l.level : DOMAIN l.forward[n] = 0 .. h
    BY <1>1, <2>1
  <2>3. i <= h /\ h <= l.level /\ h \in Nat /\ l.level \in Nat
    BY <1>1, <2>1, <2>2
  <2>4. n \in Key /\ n \in Nat /\ n # 0
    BY <1>1, <2>1
  <2>q. QED
    BY <2>1, <2>3, <2>4
<1>5. ASSUME NEW j \in 0 .. i, NEW n \in OnLevel(l, i)
      PROVE  n \in OnLevel(l, j)
  <2>1. CASE n = Header
    BY <1>1, <2>1 DEF OnLevel
  <2>2. CASE n # Header
    <3>1. n \in Nodes(l) /\ i \in DOMAIN l.forward[n]
      BY <1>1, <2>2 DEF OnLevel
    <3>2. PICK h \in 1 .. l.level : DOMAIN l.forward[n] = 0 .. h
      BY <1>1, <3>1
    <3>3. j \in 0 .. h
      BY <3>1, <3>2
    <3>q. QED
      BY <1>1, <3>1, <3>2, <3>3 DEF OnLevel
  <2>q. QED
    BY <2>1, <2>2
<1>6. ASSUME i = 0, NEW n \in Nodes(l)
      PROVE  n \in OnLevel(l, i)
  <2>1. PICK h \in 1 .. l.level : DOMAIN l.forward[n] = 0 .. h
    BY <1>1
  <2>2. 0 \in 0 .. h
    OBVIOUS
  <2>q. QED
    BY <1>1, <1>6, <2>1, <2>2 DEF OnLevel
<1>7. i = 0 => OnLevel(l, i) = Nodes(l) \cup {Header}
  BY <1>1, <1>3, <1>6 DEF OnLevel
<1>q. QED
  BY <1>3, <1>4, <1>5, <1>7

\* The last node of level i before key k.
Before(l, i, k) ==
  CHOOSE m \in OnLevel(l, i) : m < k /\ \A x \in OnLevel(l, i) : x < k => x <= m

LEMMA BeforeFacts ==
  ASSUME NEW l, Linked(l), NEW i \in 0 .. MaxLevel, NEW k \in Key
  PROVE  /\ Before(l, i, k) \in OnLevel(l, i) /\ Before(l, i, k) \in Nat /\ Before(l, i, k) < k
         /\ \A x \in OnLevel(l, i) : x < k => x <= Before(l, i, k)
<1> DEFINE S == {x \in OnLevel(l, i) : x < k}
<1>1. k \in Nat /\ 0 < k /\ OnLevel(l, i) \in SUBSET Nat /\ IsFiniteSet(OnLevel(l, i)) /\ Header \in OnLevel(l, i)
  BY LevelFacts, ListAssumption
<1>2. S \in SUBSET Nat /\ IsFiniteSet(S) /\ S # {}
  <2>1. IsFiniteSet(S)
    BY <1>1, FS_Subset
  <2>q. QED
    BY <1>1, <2>1 DEF Header
<1>3. \E m \in S : \A x \in S : x <= m
  BY <1>2, NatMax
<1>4. \E m \in OnLevel(l, i) : m < k /\ \A x \in OnLevel(l, i) : x < k => x <= m
  BY <1>3
<1>q. QED
  BY <1>1, <1>4 DEF Before

\* The pointer behind it leads to k or beyond.
LEMMA BehindBefore ==
  ASSUME NEW l, Linked(l), NEW i \in 0 .. MaxLevel, NEW k \in Key
  PROVE  LET p == Before(l, i, k)
             next == l.forward[p][i] IN
         /\ next # Null => next \in OnLevel(l, i) /\ next \in Nat /\ k <= next
         /\ \A m \in OnLevel(l, i) : p < m => next # Null /\ next <= m
         /\ k \in OnLevel(l, i) <=> next = k
<1> DEFINE p == Before(l, i, k)
           next == l.forward[p][i]
<1>1. /\ p \in OnLevel(l, i) /\ p \in Nat /\ p < k /\ k \in Nat
      /\ \A x \in OnLevel(l, i) : x \in Nat /\ (x < k => x <= p)
  BY BeforeFacts, LevelFacts, ListAssumption
<1>2. /\ next # Null => next \in OnLevel(l, i) /\ p < next
      /\ \A m \in OnLevel(l, i) : p < m => next # Null /\ next <= m
  BY <1>1 DEF Linked, Ordered
<1> HIDE DEF p, next
<1>3. ASSUME next # Null
      PROVE  next \in OnLevel(l, i) /\ next \in Nat /\ k <= next
  <2>1. next \in OnLevel(l, i) /\ next \in Nat /\ p < next
    BY <1>1, <1>2, <1>3
  <2>q. QED
    BY <1>1, <2>1
<1>4. k \in OnLevel(l, i) => next = k
  <2>1. SUFFICES ASSUME k \in OnLevel(l, i) PROVE next = k
    OBVIOUS
  <2>2. next # Null /\ next <= k
    BY <1>1, <1>2, <2>1
  <2>q. QED
    BY <1>1, <1>3, <2>2
<1>5. next = k => k \in OnLevel(l, i)
  BY <1>2, ListAssumption
<1>q. QED
  BY <1>2, <1>3, <1>4, <1>5 DEF p, next

\* The walk along a level from a node before k ends at the last one.
LEMMA WalkEnds ==
  ASSUME NEW l, Linked(l), NEW k \in Key, NEW i \in 0 .. MaxLevel, NEW n \in OnLevel(l, i), n < k
  PROVE  Walk(l, k, i, n) = Before(l, i, k)
<1> DEFINE S == OnLevel(l, i)
           next(m) == l.forward[m][i]
           on(m) == next(m) # Null /\ next(m) < k
           w == [m \in S |-> IF on(m) THEN Before(l, i, k) ELSE m]
           go == CHOOSE g : g = [m \in S |-> IF on(m) THEN g[next(m)] ELSE m]
<1>1. /\ S \in SUBSET Nat /\ IsFiniteSet(S) /\ k \in Nat
      /\ Before(l, i, k) \in S /\ Before(l, i, k) < k /\ \A x \in S : x < k => x <= Before(l, i, k)
  BY LevelFacts, BeforeFacts, ListAssumption
<1>2. \A m \in S : /\ next(m) # Null => next(m) \in S /\ m < next(m)
                   /\ \A x \in S : m < x => next(m) # Null /\ next(m) <= x
  BY DEF Linked, Ordered
<1>3. \A m \in S : m < k /\ ~on(m) => m = Before(l, i, k)
  <2> HIDE DEF S, next
  <2>1. ASSUME NEW m \in S, m < k, ~on(m), m # Before(l, i, k) PROVE FALSE
    <3>1. m < Before(l, i, k)
      <4>1. m \in Nat /\ Before(l, i, k) \in Nat /\ m <= Before(l, i, k)
        BY <1>1, <2>1
      <4>q. QED
        BY <2>1, <4>1
    <3>2. next(m) # Null /\ next(m) <= Before(l, i, k) /\ next(m) \in S
      BY <1>1, <1>2, <2>1, <3>1
    <3>3. next(m) \in Nat /\ Before(l, i, k) \in Nat
      BY <1>1, <3>2
    <3>q. QED
      BY <1>1, <2>1, <3>2, <3>3
  <2>q. QED
    BY <2>1
<1>4. w = [m \in S |-> IF on(m) THEN w[next(m)] ELSE m]
  <2>1. ASSUME NEW m \in S, on(m)
        PROVE  w[next(m)] = Before(l, i, k)
    <3>1. next(m) \in S
      BY <1>2, <2>1
    <3>q. QED
      BY <1>3, <2>1, <3>1
  <2>q. QED
    BY <2>1
<1>5. go = [m \in S |-> IF on(m) THEN go[next(m)] ELSE m]
  <2> HIDE DEF w, on, next, S
  <2>q. QED
    BY <1>4
<1>6. \A m \in S : go[m] = IF on(m) THEN go[next(m)] ELSE m
  <2> HIDE DEF go, on, next, S
  <2>q. QED
    BY <1>5
<1> DEFINE T == {m \in S : m < k => go[m] = Before(l, i, k)}
<1>7. ASSUME NEW m \in S, \A x \in S : x > m => x \in T
      PROVE  m \in T
  <2> HIDE DEF go
  <2>1. SUFFICES ASSUME m < k PROVE go[m] = Before(l, i, k)
    OBVIOUS
  <2>2. CASE on(m)
    <3>1. next(m) \in S /\ next(m) < k /\ m < next(m)
      BY <1>2, <2>2
    <3>2. next(m) \in Nat /\ m \in Nat
      BY <1>1, <3>1
    <3>3. next(m) \in T
      BY <1>7, <3>1, <3>2
    <3>q. QED
      BY <1>6, <2>2, <3>1, <3>3
  <2>3. CASE ~on(m)
    BY <1>3, <1>6, <2>1, <2>3
  <2>q. QED
    BY <2>2, <2>3
<1>8. S \subseteq T
  <2> HIDE DEF T, S
  <2>q. QED
    BY <1>1, <1>7, FromAbove
<1>9. Walk(l, k, i, n) = go[n]
  BY DEF Walk
<1>q. QED
  <2> HIDE DEF go
  <2>q. QED
    BY <1>8, <1>9

\* update[i] is element i + 1.
LEMMA UpdateIs ==
  ASSUME NEW l, Linked(l), NEW k \in Key
  PROVE  /\ Update(l, k) = [j \in 1 .. l.level + 1 |-> Before(l, j - 1, k)]
         /\ Len(Update(l, k)) = l.level + 1
         /\ \A i \in 0 .. l.level : Update(l, k)[i + 1] = Before(l, i, k)
         /\ l.level \in Nat /\ 0 \in 0 .. l.level
<1> DEFINE N == l.level
           W(i) == [j \in 1 .. N - i + 1 |-> Before(l, i + j - 1, k)]
           above(u, i) == IF i = N THEN << >> ELSE u[i + 1]
           walk(s, i) == <<Walk(l, k, i, IF s = << >> THEN Header ELSE s[1])>> \o s
           w == [i \in 0 .. N |-> W(i)]
           u == CHOOSE g : g = [i \in 0 .. N |-> walk(above(g, i), i)]
<1>1. N \in Nat /\ 0 .. N \subseteq 0 .. MaxLevel
  BY ListAssumption DEF Linked
<1>2. \A i \in 0 .. N : /\ W(i) \in Seq(Nat) /\ Len(W(i)) = N - i + 1
                        /\ \A j \in 1 .. N - i + 1 : W(i)[j] = Before(l, i + j - 1, k)
  <2>1. ASSUME NEW i \in 0 .. N, NEW j \in 1 .. N - i + 1
        PROVE  Before(l, i + j - 1, k) \in Nat
    <3>1. i + j - 1 \in 0 .. MaxLevel
      BY <1>1
    <3>q. QED
      BY <3>1, BeforeFacts
  <2>2. ASSUME NEW i \in 0 .. N
        PROVE  N - i + 1 \in Nat
    BY <1>1
  <2>q. QED
    BY <2>1, <2>2
<1>3. ASSUME NEW g, NEW i \in 0 .. N, i = N \/ g[i + 1] = W(i + 1)
      PROVE  walk(above(g, i), i) = W(i)
  <2> DEFINE s == above(g, i)
             start == IF s = << >> THEN Header ELSE s[1]
  <2>1. /\ s \in Seq(Nat) /\ Len(s) = N - i
        /\ \A j \in 1 .. N - i : s[j] = Before(l, i + j, k)
    <3>1. CASE i = N
      BY <1>1, <3>1
    <3>2. CASE i # N
      <4>1. i + 1 \in 0 .. N /\ N - (i + 1) + 1 = N - i
        BY <1>1, <3>2
      <4>2. s = W(i + 1)
        BY <1>3, <3>2
      <4>3. \A j \in 1 .. N - i : i + 1 + j - 1 = i + j
        BY <1>1
      <4> HIDE DEF W, s
      <4>q. QED
        BY <1>2, <4>1, <4>2, <4>3
    <3>q. QED
      BY <3>1, <3>2
  <2>2. start \in OnLevel(l, i) /\ start < k
    <3>1. CASE i = N
      BY <1>1, <3>1, LevelFacts, ListAssumption DEF Header
    <3>2. CASE i # N
      <4>1. i + 1 \in 0 .. N /\ i \in 0 .. i + 1 /\ i + 1 \in 0 .. MaxLevel /\ 1 \in 1 .. N - i
        BY <1>1, <3>2
      <4>2. Before(l, i + 1, k) \in OnLevel(l, i + 1) /\ Before(l, i + 1, k) < k
        BY <4>1, BeforeFacts
      <4>3. OnLevel(l, i + 1) \subseteq OnLevel(l, i)
        BY <4>1, LevelFacts
      <4>4. s # << >> /\ s[1] = Before(l, i + 1, k)
        <5> HIDE DEF s
        <5>q. QED
          BY <2>1, <4>1
      <4> HIDE DEF s
      <4>q. QED
        BY <4>2, <4>3, <4>4
    <3>q. QED
      BY <3>1, <3>2
  <2>3. Walk(l, k, i, start) = Before(l, i, k) /\ Before(l, i, k) \in Nat
    BY <1>1, <2>2, WalkEnds, BeforeFacts
  <2>4. walk(s, i) = <<Before(l, i, k)>> \o s
    BY <2>3
  <2> HIDE DEF s, start, walk, W, above
  <2>5. <<Before(l, i, k)>> \o s \in Seq(Nat) /\ Len(<<Before(l, i, k)>> \o s) = N - i + 1
    BY <1>1, <2>1, <2>3
  <2>6. ASSUME NEW j \in 1 .. N - i + 1
        PROVE  (<<Before(l, i, k)>> \o s)[j] = Before(l, i + j - 1, k)
    <3>1. CASE j = 1
      BY <1>1, <2>1, <2>3, <3>1
    <3>2. CASE j # 1
      <4>1. j - 1 \in 1 .. N - i /\ (<<Before(l, i, k)>> \o s)[j] = s[j - 1] /\ i + (j - 1) = i + j - 1
        BY <1>1, <2>1, <2>3, <3>2
      <4>q. QED
        BY <2>1, <4>1
    <3>q. QED
      BY <3>1, <3>2
  <2>7. <<Before(l, i, k)>> \o s = W(i)
    BY <1>2, <2>5, <2>6, SeqEqual
  <2>q. QED
    BY <2>4, <2>7 DEF s
<1>4. w = [i \in 0 .. N |-> walk(above(w, i), i)]
  <2>1. ASSUME NEW i \in 0 .. N
        PROVE  i = N \/ w[i + 1] = W(i + 1)
    <3>1. i # N => i + 1 \in 0 .. N
      BY <1>1
    <3>q. QED
      BY <3>1
  <2>2. \A i \in 0 .. N : w[i] = W(i)
    OBVIOUS
  <2> HIDE DEF above, walk, W, N
  <2>3. \A i \in 0 .. N : walk(above(w, i), i) = W(i)
    <3> HIDE DEF w
    <3>q. QED
      BY <1>3, <2>1
  <2>q. QED
    BY <2>3
<1>5. u = [i \in 0 .. N |-> walk(above(u, i), i)]
  <2> HIDE DEF w, above, walk, N
  <2>q. QED
    BY <1>4
<1>6. \A i \in 0 .. N : u[i] = walk(above(u, i), i)
  <2> HIDE DEF u, above, walk, N
  <2>q. QED
    BY <1>5
<1> DEFINE T == {i \in 0 .. N : u[i] = W(i)}
<1>7. ASSUME NEW i \in 0 .. N, \A j \in 0 .. N : j > i => j \in T
      PROVE  i \in T
  <2>1. i = N \/ u[i + 1] = W(i + 1)
    <3> HIDE DEF u, W
    <3>1. i # N => i + 1 \in 0 .. N /\ i + 1 > i
      BY <1>1
    <3>q. QED
      BY <1>7, <3>1
  <2> HIDE DEF above, walk, W, u
  <2>q. QED
    BY <1>3, <1>6, <2>1
<1>8. 0 .. N \subseteq T
  <2>1. 0 .. N \in SUBSET Nat /\ IsFiniteSet(0 .. N)
    BY <1>1, FS_Interval
  <2> HIDE DEF T, N
  <2>q. QED
    BY <1>7, <2>1, FromAbove
<1>9. Update(l, k) = u[0]
  BY DEF Update
<1>10. Update(l, k) = W(0)
  <2>1. 0 \in 0 .. N
    BY <1>1
  <2> HIDE DEF u, W
  <2>q. QED
    BY <1>8, <1>9, <2>1
<1>11. W(0) = [j \in 1 .. l.level + 1 |-> Before(l, j - 1, k)]
  <2>1. N - 0 + 1 = l.level + 1 /\ \A j \in 1 .. l.level + 1 : 0 + j - 1 = j - 1
    BY <1>1
  <2>q. QED
    BY <2>1
<1>12. ASSUME NEW i \in 0 .. N
       PROVE  Update(l, k)[i + 1] = Before(l, i, k)
  <2>1. i + 1 \in 1 .. l.level + 1 /\ i + 1 - 1 = i
    BY <1>1
  <2>2. Update(l, k) = [j \in 1 .. l.level + 1 |-> Before(l, j - 1, k)]
    BY <1>10, <1>11
  <2>q. QED
    BY <2>1, <2>2
<1>13. 0 \in 0 .. N /\ N - 0 + 1 = N + 1
  BY <1>1
<1>q. QED
  <2> HIDE DEF W
  <2>q. QED
    BY <1>1, <1>2, <1>10, <1>11, <1>12, <1>13

\* A key is found if and only if there is a node for it.
LEMMA HasIs ==
  ASSUME NEW l, Linked(l), NEW k \in Key
  PROVE  Has(l, k) <=> k \in Nodes(l)
<1>1. Update(l, k)[1] = Before(l, 0, k) /\ 0 \in 0 .. MaxLevel /\ OnLevel(l, 0) = Nodes(l) \cup {Header}
  <2>1. 0 \in 0 .. MaxLevel
    BY ListAssumption
  <2>2. Update(l, k)[0 + 1] = Before(l, 0, k)
    BY UpdateIs
  <2>q. QED
    BY <2>1, <2>2, LevelFacts
<1>2. k \in OnLevel(l, 0) <=> l.forward[Before(l, 0, k)][0] = k
  BY <1>1, BehindBefore
<1>3. k # Header
  BY ListAssumption DEF Header
<1>q. QED
  BY <1>1, <1>2, <1>3 DEF Has, Found

LEMMA SearchIs ==
  ASSUME NEW l, Linked(l), NEW k \in Key
  PROVE  Search(l, k) = IF k \in Nodes(l) THEN <<l.value[k]>> ELSE << >>
  BY HasIs DEF Search

-----------------------------------------------------------------------------
(* insert_element *)

LEMMA OverIs ==
  ASSUME NEW f, NEW g
  PROVE  /\ DOMAIN Over(f, g) = DOMAIN f \cup DOMAIN g
         /\ \A x \in DOMAIN f : Over(f, g)[x] = f[x]
         /\ \A x \in DOMAIN g : x \notin DOMAIN f => Over(f, g)[x] = g[x]
  BY DEF Over

LEMMA RelinkIs ==
  ASSUME NEW forward, NEW at, NEW to, \A i \in DOMAIN to : at[i + 1] \in DOMAIN forward
  PROVE  /\ DOMAIN Relink(forward, at, to) = DOMAIN forward
         /\ \A m \in DOMAIN forward :
              /\ DOMAIN Relink(forward, at, to)[m] = DOMAIN forward[m] \cup {i \in DOMAIN to : at[i + 1] = m}
              /\ \A i \in DOMAIN to : at[i + 1] = m => Relink(forward, at, to)[m][i] = to[i]
              /\ \A i \in DOMAIN forward[m] :
                   ~(i \in DOMAIN to /\ at[i + 1] = m) => Relink(forward, at, to)[m][i] = forward[m][i]
<1> DEFINE M == {at[i + 1] : i \in DOMAIN to}
           mine(m) == [i \in {j \in DOMAIN to : at[j + 1] = m} |-> to[i]]
           new == [m \in M |-> Over(mine(m), forward[m])]
<1>1. Relink(forward, at, to) = Over(new, forward)
  BY DEF Relink
<1>2. \A m : DOMAIN mine(m) = {i \in DOMAIN to : at[i + 1] = m} /\ \A i \in DOMAIN mine(m) : mine(m)[i] = to[i]
  OBVIOUS
<1>3. DOMAIN new = M /\ \A m \in M : new[m] = Over(mine(m), forward[m])
  OBVIOUS
<1>4. M \subseteq DOMAIN forward
  OBVIOUS
<1>5. /\ DOMAIN Over(new, forward) = DOMAIN forward
      /\ \A m \in M : Over(new, forward)[m] = Over(mine(m), forward[m])
      /\ \A m \in DOMAIN forward : m \notin M => Over(new, forward)[m] = forward[m]
  <2> HIDE DEF mine, M, new
  <2>1. DOMAIN Over(new, forward) = M \cup DOMAIN forward
    BY <1>3, OverIs
  <2>2. \A m \in M : Over(new, forward)[m] = new[m]
    BY <1>3, OverIs
  <2>3. \A m \in DOMAIN forward : m \notin M => Over(new, forward)[m] = forward[m]
    <3>1. \A m \in DOMAIN forward : m \notin DOMAIN new => Over(new, forward)[m] = forward[m]
      BY OverIs
    <3>q. QED
      BY <1>3, <3>1
  <2>q. QED
    BY <1>3, <1>4, <2>1, <2>2, <2>3
<1>6. ASSUME NEW m \in DOMAIN forward
      PROVE  LET node == Over(new, forward)[m] IN
             /\ DOMAIN node = DOMAIN forward[m] \cup {i \in DOMAIN to : at[i + 1] = m}
             /\ \A i \in DOMAIN to : at[i + 1] = m => node[i] = to[i]
             /\ \A i \in DOMAIN forward[m] : ~(i \in DOMAIN to /\ at[i + 1] = m) => node[i] = forward[m][i]
  <2>1. CASE m \in M
    <3>1. Over(new, forward)[m] = Over(mine(m), forward[m])
      BY <1>5, <2>1
    <3>2. /\ DOMAIN Over(mine(m), forward[m]) = DOMAIN mine(m) \cup DOMAIN forward[m]
          /\ \A i \in DOMAIN mine(m) : Over(mine(m), forward[m])[i] = mine(m)[i]
          /\ \A i \in DOMAIN forward[m] : i \notin DOMAIN mine(m) => Over(mine(m), forward[m])[i] = forward[m][i]
      BY OverIs
    <3> HIDE DEF mine, M, new
    <3>q. QED
      BY <1>2, <3>1, <3>2
  <2>2. CASE m \notin M
    <3>1. Over(new, forward)[m] = forward[m]
      BY <1>5, <2>2
    <3>2. \A i \in DOMAIN to : at[i + 1] # m
      BY <2>2
    <3> HIDE DEF mine, M, new
    <3>q. QED
      BY <3>1, <3>2
  <2>q. QED
    BY <2>1, <2>2
<1>q. QED
  <2> HIDE DEF mine, M, new
  <2>q. QED
    BY <1>1, <1>5, <1>6

\* The node is linked between its neighbours on the levels it drew, and nothing
\* else changes.
Inserted(l, k, v, h, new) ==
  /\ DOMAIN new.forward = DOMAIN l.forward \cup {k}
  /\ DOMAIN new.forward[k] = 0 .. h
  /\ \A n \in DOMAIN l.forward : DOMAIN new.forward[n] = DOMAIN l.forward[n]
  /\ \A i \in 0 .. h : new.forward[k][i] = l.forward[Before(l, i, k)][i]
  /\ \A n \in DOMAIN l.forward : \A i \in DOMAIN l.forward[n] :
       new.forward[n][i] = IF i <= h /\ n = Before(l, i, k) THEN k ELSE l.forward[n][i]
  /\ new.value = Over(l.value, Single(k, v))
  /\ new.level = IF h > l.level THEN h ELSE l.level
  /\ new.count = l.count + 1

LEMMA InsertIs ==
  ASSUME NEW l, Linked(l), NEW k \in Key, NEW v, NEW h \in Levels, k \notin Nodes(l)
  PROVE  Inserted(l, k, v, h, Insert(l, k, v, h))
<1> DEFINE update == Update(l, k)
           pred == [i \in 1 .. h + 1 |-> IF i > Len(update) THEN Header ELSE update[i]]
           node == [i \in 0 .. h |-> l.forward[pred[i + 1]][i]]
           to == [i \in 0 .. h |-> k]
           linked == Relink(l.forward, pred, to)
           forward == Over(Single(k, node), linked)
<1>1. h \in Nat /\ h <= MaxLevel /\ MaxLevel \in Nat /\ 0 .. h \subseteq 0 .. MaxLevel /\ k # Header
  BY ListAssumption DEF Levels, Header
<1>2. Insert(l, k, v, h) =
        [forward |-> forward, value |-> Over(l.value, Single(k, v)),
         level |-> IF h > l.level THEN h ELSE l.level, count |-> l.count + 1]
  BY HasIs DEF Insert, Has
<1>3. ASSUME NEW i \in 0 .. h
      PROVE  pred[i + 1] = Before(l, i, k) /\ Before(l, i, k) \in DOMAIN l.forward
  <2>1. /\ i \in 0 .. MaxLevel /\ i + 1 \in 1 .. h + 1
        /\ Before(l, i, k) \in OnLevel(l, i) /\ Len(update) = l.level + 1 /\ l.level \in Nat
    BY <1>1, BeforeFacts, UpdateIs
  <2>2. CASE i <= l.level
    <3>1. update[i + 1] = Before(l, i, k)
      BY <1>1, <2>1, <2>2, UpdateIs
    <3> HIDE DEF update
    <3>2. ~(i + 1 > Len(update))
      BY <1>1, <2>1, <2>2
    <3>q. QED
      BY <2>1, <3>1, <3>2 DEF OnLevel
  <2>3. CASE i > l.level
    <3>1. Before(l, i, k) = Header
      BY <1>1, <2>1, <2>3, LevelFacts
    <3> HIDE DEF update
    <3>2. i + 1 > Len(update)
      BY <1>1, <2>1, <2>3
    <3>q. QED
      BY <2>1, <3>1, <3>2 DEF OnLevel
  <2>q. QED
    BY <1>1, <2>1, <2>2, <2>3
<1>4. DOMAIN to = 0 .. h /\ \A i \in 0 .. h : to[i] = k
  OBVIOUS
<1> HIDE DEF pred, to, update
<1>5. /\ DOMAIN linked = DOMAIN l.forward
      /\ \A m \in DOMAIN l.forward :
           /\ DOMAIN linked[m] = DOMAIN l.forward[m] \cup {i \in 0 .. h : pred[i + 1] = m}
           /\ \A i \in 0 .. h : pred[i + 1] = m => linked[m][i] = k
           /\ \A i \in DOMAIN l.forward[m] : ~(i \in 0 .. h /\ pred[i + 1] = m) => linked[m][i] = l.forward[m][i]
  <2>1. \A i \in DOMAIN to : pred[i + 1] \in DOMAIN l.forward
    BY <1>3, <1>4
  <2>2. /\ DOMAIN linked = DOMAIN l.forward
        /\ \A m \in DOMAIN l.forward :
             /\ DOMAIN linked[m] = DOMAIN l.forward[m] \cup {i \in DOMAIN to : pred[i + 1] = m}
             /\ \A i \in DOMAIN to : pred[i + 1] = m => linked[m][i] = to[i]
             /\ \A i \in DOMAIN l.forward[m] :
                  ~(i \in DOMAIN to /\ pred[i + 1] = m) => linked[m][i] = l.forward[m][i]
    BY <2>1, RelinkIs
  <2> HIDE DEF linked
  <2>q. QED
    BY <1>4, <2>2
<1> HIDE DEF linked
<1>6. k \notin DOMAIN l.forward
  BY <1>1 DEF Linked
<1>7. /\ DOMAIN forward = DOMAIN l.forward \cup {k} /\ forward[k] = node
      /\ \A m \in DOMAIN l.forward : forward[m] = linked[m]
  <2> DEFINE one == Single(k, node)
  <2>1. DOMAIN one = {k} /\ one[k] = node
    BY DEF Single
  <2> HIDE DEF one, node
  <2>2. /\ DOMAIN Over(one, linked) = DOMAIN one \cup DOMAIN linked
        /\ \A x \in DOMAIN one : Over(one, linked)[x] = one[x]
        /\ \A x \in DOMAIN linked : x \notin DOMAIN one => Over(one, linked)[x] = linked[x]
    BY OverIs
  <2>3. forward = Over(one, linked)
    BY DEF one
  <2> HIDE DEF forward
  <2>q. QED
    BY <1>5, <1>6, <2>1, <2>2, <2>3
<1>8. ASSUME NEW m \in DOMAIN l.forward
      PROVE  DOMAIN linked[m] = DOMAIN l.forward[m]
  <2>1. ASSUME NEW i \in 0 .. h, pred[i + 1] = m
        PROVE  i \in DOMAIN l.forward[m]
    <3>1. Before(l, i, k) \in OnLevel(l, i) /\ m = Before(l, i, k)
      BY <1>1, <1>3, <2>1, BeforeFacts
    <3>q. QED
      BY <3>1 DEF OnLevel
  <2>q. QED
    BY <1>5, <2>1
<1>9. ASSUME NEW m \in DOMAIN l.forward, NEW i \in DOMAIN l.forward[m]
      PROVE  linked[m][i] = IF i <= h /\ m = Before(l, i, k) THEN k ELSE l.forward[m][i]
  <2>1. i \in Nat
    <3>1. DOMAIN l.forward = Nodes(l) \cup {Header} /\ DOMAIN l.forward[Header] = 0 .. MaxLevel
          /\ \A n \in Nodes(l) : \E j \in 1 .. l.level : DOMAIN l.forward[n] = 0 .. j
      BY DEF Linked
    <3>2. m = Header => i \in 0 .. MaxLevel
      BY <3>1
    <3>3. m # Header => \E j \in 1 .. l.level : i \in 0 .. j
      BY <3>1
    <3>q. QED
      BY <3>2, <3>3
  <2>2. i <= h <=> i \in 0 .. h
    BY <1>1, <2>1
  <2>q. QED
    BY <1>3, <1>5, <2>2
<1>10. \A i \in 0 .. h : node[i] = l.forward[Before(l, i, k)][i]
  BY <1>3
<1>q. QED
  <2> HIDE DEF forward, node
  <2>1. DOMAIN node = 0 .. h
    BY DEF node
  <2>q. QED
    BY <1>2, <1>7, <1>8, <1>9, <1>10, <2>1 DEF Inserted

LEMMA InsertKeeps ==
  ASSUME NEW l, Linked(l), NEW k \in Key, NEW v \in Val, NEW h \in Levels
  PROVE  Linked(Insert(l, k, v, h))
<1> DEFINE new == Insert(l, k, v, h)
<1>0. CASE k \in Nodes(l)
  BY <1>0, HasIs DEF Insert, Has
<1>a. CASE k \notin Nodes(l)
  <2>1. /\ DOMAIN new.forward = DOMAIN l.forward \cup {k}
        /\ DOMAIN new.forward[k] = 0 .. h
        /\ \A n \in DOMAIN l.forward : DOMAIN new.forward[n] = DOMAIN l.forward[n]
        /\ \A i \in 0 .. h : new.forward[k][i] = l.forward[Before(l, i, k)][i]
        /\ \A n \in DOMAIN l.forward : \A i \in DOMAIN l.forward[n] :
             new.forward[n][i] = IF i <= h /\ n = Before(l, i, k) THEN k ELSE l.forward[n][i]
        /\ new.value = Over(l.value, Single(k, v))
        /\ new.level = IF h > l.level THEN h ELSE l.level
        /\ new.count = l.count + 1
    <3>1. Inserted(l, k, v, h, new)
      BY <1>a, InsertIs
    <3>q. QED
      BY <3>1 DEF Inserted
  <2> HIDE DEF new
  <2>2. /\ h \in Nat /\ 1 <= h /\ h <= MaxLevel /\ MaxLevel \in Nat /\ k \in Nat /\ 0 < k
        /\ Key \subseteq Nat \ {0} /\ IsFiniteSet(Key) /\ Null \notin Nat
    BY ListAssumption DEF Levels
  <2>3. /\ Nodes(l) \subseteq Key /\ l.value \in [Nodes(l) -> Val]
        /\ l.level \in Nat /\ l.level <= MaxLevel
        /\ DOMAIN l.forward = Nodes(l) \cup {Header}
        /\ DOMAIN l.forward[Header] = 0 .. MaxLevel
        /\ \A n \in Nodes(l) : \E j \in 1 .. l.level : DOMAIN l.forward[n] = 0 .. j
        /\ \A i \in 0 .. MaxLevel : Ordered(l, i)
        /\ l.level > 0 => l.forward[Header][l.level] # Null
        /\ l.count = Cardinality(Nodes(l))
    BY <2>2 DEF Linked
  <2>4. Nodes(new) = Nodes(l) \cup {k} /\ new.value \in [Nodes(new) -> Val]
    <3> DEFINE one == Single(k, v)
    <3>1. DOMAIN one = {k} /\ one[k] = v
      BY DEF Single
    <3>2. new.value = [x \in DOMAIN l.value \cup {k} |-> IF x \in DOMAIN l.value THEN l.value[x] ELSE one[x]]
      BY <2>1, <3>1 DEF Over
    <3> HIDE DEF one
    <3>3. \A x \in DOMAIN l.value \cup {k} : new.value[x] \in Val
      BY <2>3, <3>1, <3>2 DEF Nodes
    <3>q. QED
      BY <3>2, <3>3 DEF Nodes
  <2>5. new.level \in Nat /\ l.level <= new.level /\ h <= new.level /\ new.level <= MaxLevel
    BY <2>1, <2>2, <2>3
  <2>6. \A n \in Nodes(new) : \E j \in 1 .. new.level : DOMAIN new.forward[n] = 0 .. j
    <3>1. ASSUME NEW n \in Nodes(l)
          PROVE  \E j \in 1 .. new.level : DOMAIN new.forward[n] = 0 .. j
      <4>1. PICK j \in 1 .. l.level : DOMAIN l.forward[n] = 0 .. j
        BY <2>3
      <4>2. j \in 1 .. new.level /\ DOMAIN new.forward[n] = 0 .. j
        BY <2>1, <2>3, <2>5, <4>1
      <4>q. QED
        BY <4>2
    <3>2. h \in 1 .. new.level /\ DOMAIN new.forward[k] = 0 .. h
      BY <2>1, <2>2, <2>5
    <3>q. QED
      BY <2>4, <3>1, <3>2
  <2>7. ASSUME NEW i \in 0 .. MaxLevel
        PROVE  Ordered(new, i)
    <3> DEFINE S == OnLevel(l, i)
               p == Before(l, i, k)
               next == l.forward[p][i]
    <3>1. /\ S \in SUBSET Nat /\ p \in S /\ p < k /\ \A x \in S : x < k => x <= p
          /\ next # Null => next \in S /\ next \in Nat /\ k <= next
          /\ \A m \in S : p < m => next # Null /\ next <= m
      BY BeforeFacts, BehindBefore, LevelFacts
    <3>2. k \notin S
      BY <1>a, <2>2, LevelFacts DEF Header
    <3>3. \A n \in S : /\ l.forward[n][i] # Null => l.forward[n][i] \in S /\ n < l.forward[n][i]
                       /\ \A m \in S : n < m => l.forward[n][i] # Null /\ l.forward[n][i] <= m
      BY <2>3 DEF Ordered
    <3>4. i \in Nat /\ (i \in 0 .. h <=> i <= h)
      BY <2>2
    <3>5. OnLevel(new, i) = IF i <= h THEN S \cup {k} ELSE S
      <4>1. DOMAIN l.forward \cup {k} = DOMAIN new.forward /\ k \notin DOMAIN l.forward
        BY <1>a, <2>1, <2>2, <2>3 DEF Header
      <4>2. \A n \in DOMAIN l.forward : n \in OnLevel(new, i) <=> n \in S
        BY <2>1, <4>1 DEF OnLevel
      <4>3. k \in OnLevel(new, i) <=> i <= h
        BY <2>1, <3>4, <4>1 DEF OnLevel
      <4>4. OnLevel(new, i) \subseteq DOMAIN l.forward \cup {k} /\ S \subseteq DOMAIN l.forward
        BY <4>1 DEF OnLevel
      <4> HIDE DEF S
      <4>q. QED
        BY <4>1, <4>2, <4>3, <4>4
    <3>6. \A n \in S : new.forward[n][i] = IF i <= h /\ n = p THEN k ELSE l.forward[n][i]
      BY <2>1 DEF OnLevel
    <3>7. i <= h => new.forward[k][i] = next
      BY <2>1, <3>4
    <3> HIDE DEF S, p, next
    <3>8. \A n \in S : n \in Nat
      BY <3>1
    <3>9. ASSUME NEW n \in S
          PROVE  /\ new.forward[n][i] # Null => new.forward[n][i] \in OnLevel(new, i) /\ n < new.forward[n][i]
                 /\ \A m \in OnLevel(new, i) : n < m => new.forward[n][i] # Null /\ new.forward[n][i] <= m
      <4>1. CASE i <= h /\ n = p
        <5>1. new.forward[n][i] = k /\ OnLevel(new, i) = S \cup {k}
          BY <3>5, <3>6, <4>1
        <5>2. k # Null /\ n < k
          BY <2>2, <3>1, <4>1
        <5>3. ASSUME NEW m \in S, n < m
              PROVE  k <= m
          BY <2>2, <3>1, <3>8, <4>1, <5>3
        <5>q. QED
          BY <2>2, <5>1, <5>2, <5>3
      <4>2. CASE ~(i <= h /\ n = p)
        <5>1. new.forward[n][i] = l.forward[n][i] /\ S \subseteq OnLevel(new, i)
          BY <3>5, <3>6, <4>2
        <5>2. ASSUME i <= h, n < k
              PROVE  l.forward[n][i] # Null /\ l.forward[n][i] <= k
          <6>1. n < p /\ p \in S /\ p \in Nat /\ p < k
            BY <3>1, <3>8, <4>2, <5>2
          <6>2. l.forward[n][i] # Null /\ l.forward[n][i] \in Nat /\ l.forward[n][i] <= p
            BY <3>3, <3>8, <6>1
          <6>q. QED
            BY <2>2, <6>1, <6>2
        <5>q. QED
          BY <3>3, <3>5, <5>1, <5>2
      <4>q. QED
        BY <4>1, <4>2
    <3>10. ASSUME i <= h
           PROVE  /\ new.forward[k][i] # Null => new.forward[k][i] \in OnLevel(new, i) /\ k < new.forward[k][i]
                  /\ \A m \in OnLevel(new, i) : k < m => new.forward[k][i] # Null /\ new.forward[k][i] <= m
      <4>1. new.forward[k][i] = next /\ OnLevel(new, i) = S \cup {k}
        BY <3>5, <3>7, <3>10
      <4>2. next # Null => next \in S /\ k < next
        BY <2>2, <3>1, <3>2
      <4>3. ASSUME NEW m \in S, k < m
            PROVE  next # Null /\ next <= m
        <5>1. p < m
          BY <2>2, <3>1, <3>8, <4>3
        <5>q. QED
          BY <3>1, <5>1
      <4>q. QED
        BY <2>2, <4>1, <4>2, <4>3
    <3>q. QED
      BY <3>5, <3>9, <3>10 DEF Ordered
  <2>8. new.level > 0 => new.forward[Header][new.level] # Null
    <3>1. new.level \in 0 .. MaxLevel /\ Header \in DOMAIN l.forward /\ Header = 0
      BY <2>2, <2>3, <2>5 DEF Header
    <3>2. new.forward[Header][new.level]
            = IF new.level <= h /\ Header = Before(l, new.level, k) THEN k ELSE l.forward[Header][new.level]
      BY <2>1, <2>3, <3>1
    <3>3. CASE h > l.level
      <4>1. new.level = h
        BY <2>1, <3>3
      <4>2. Before(l, h, k) \in OnLevel(l, h) /\ h \in 0 .. MaxLevel
        BY <2>2, BeforeFacts
      <4>3. Before(l, h, k) = Header
        BY <2>2, <2>3, <3>3, <4>2, LevelFacts
      <4>q. QED
        BY <2>2, <3>2, <4>1, <4>3
    <3>4. CASE ~(h > l.level)
      <4>1. new.level = l.level
        BY <2>1, <3>4
      <4>q. QED
        BY <2>2, <2>3, <3>2, <4>1
    <3>q. QED
      BY <3>3, <3>4
  <2>9. new.count = Cardinality(Nodes(new))
    <3>1. IsFiniteSet(Nodes(l))
      BY <2>2, <2>3, FS_Subset
    <3>2. Cardinality(Nodes(l) \cup {k}) = Cardinality(Nodes(l)) + 1
      BY <1>a, <3>1, FS_AddElement
    <3>q. QED
      BY <2>1, <2>3, <2>4, <3>2
  <2>10. DOMAIN new.forward = Nodes(new) \cup {Header} /\ DOMAIN new.forward[Header] = 0 .. MaxLevel
    BY <2>1, <2>3, <2>4
  <2>11. Nodes(new) \subseteq Key /\ new.level \in 0 .. MaxLevel
    BY <2>2, <2>3, <2>4, <2>5
  <2>q. QED
    BY <2>4, <2>6, <2>7, <2>8, <2>9, <2>10, <2>11 DEF Linked, new
<1>q. QED
  BY <1>0, <1>a

\* The values are those of before, and the new one.
LEMMA InsertValue ==
  ASSUME NEW l, Linked(l), NEW k \in Key, NEW v, NEW h \in Levels
  PROVE  Insert(l, k, v, h).value = Over(l.value, Single(k, v))
<1>1. CASE k \in Nodes(l)
  <2>1. Insert(l, k, v, h) = l
    BY <1>1, HasIs DEF Insert, Has
  <2>2. DOMAIN l.value \cup {k} = DOMAIN l.value /\ l.value \in [DOMAIN l.value -> Val]
    BY <1>1 DEF Nodes, Linked
  <2> DEFINE one == Single(k, v)
  <2>3. DOMAIN one = {k}
    BY DEF Single
  <2>4. Over(l.value, one) = [x \in DOMAIN l.value |-> l.value[x]]
    <3> HIDE DEF one
    <3>q. QED
      BY <2>2, <2>3 DEF Over
  <2>5. l.value = [x \in DOMAIN l.value |-> l.value[x]]
    BY <2>2
  <2>q. QED
    BY <2>1, <2>4, <2>5
<1>2. CASE k \notin Nodes(l)
  <2>1. Inserted(l, k, v, h, Insert(l, k, v, h))
    BY <1>2, InsertIs
  <2>q. QED
    BY <2>1 DEF Inserted
<1>q. QED
  BY <1>1, <1>2

-----------------------------------------------------------------------------
(* delete_element *)

\* The node is unlinked on the levels it drew, and nothing else changes but the
\* top level, which is one that is used.
Deleted(l, k, new) ==
  /\ DOMAIN new.forward = DOMAIN l.forward \ {k}
  /\ \A n \in DOMAIN new.forward : DOMAIN new.forward[n] = DOMAIN l.forward[n]
  /\ \A n \in DOMAIN new.forward : \A i \in DOMAIN l.forward[n] :
       new.forward[n][i] = IF i \in DOMAIN l.forward[k] /\ n = Before(l, i, k)
                           THEN l.forward[k][i] ELSE l.forward[n][i]
  /\ new.value = Restrict(l.value, Nodes(l) \ {k})
  /\ new.level \in 0 .. l.level
  /\ new.level > 0 => new.forward[Header][new.level] # Null
  /\ \A i \in 1 .. l.level : new.forward[Header][i] # Null => i <= new.level
  /\ new.count = l.count - 1

LEMMA DeleteIs ==
  ASSUME NEW l, Linked(l), NEW k \in Nodes(l)
  PROVE  Deleted(l, k, Delete(l, k))
<1> DEFINE update == Update(l, k)
           on == {i \in 0 .. l.level : \A j \in 0 .. i : l.forward[update[j + 1]][j] = k}
           to == [i \in on |-> l.forward[k][i]]
           unlinked == Relink(l.forward, update, to)
           used == {i \in 1 .. l.level : unlinked[Header][i] # Null}
           top == CHOOSE i \in used \cup {0} : \A j \in used : j <= i
           new == Delete(l, k)
<1>0. /\ k \in Key /\ k # Header /\ k \in DOMAIN l.forward /\ Header \in DOMAIN l.forward
      /\ l.level \in Nat /\ 0 .. l.level \subseteq 0 .. MaxLevel
  BY ListAssumption DEF Linked, Header
<1>1. new = [forward |-> Restrict(unlinked, DOMAIN unlinked \ {k}),
             value |-> Restrict(l.value, Nodes(l) \ {k}),
             level |-> top, count |-> l.count - 1]
  BY <1>0, HasIs DEF Delete, Has
<1>2. PICK d \in 1 .. l.level : DOMAIN l.forward[k] = 0 .. d
  BY DEF Linked
<1>3. d \in Nat /\ 0 .. d \subseteq 0 .. l.level
  BY <1>0, <1>2
<1>4. ASSUME NEW j \in 0 .. l.level
      PROVE  /\ update[j + 1] = Before(l, j, k) /\ Before(l, j, k) \in OnLevel(l, j)
             /\ l.forward[update[j + 1]][j] = k <=> j \in 0 .. d
  <2>1. update[j + 1] = Before(l, j, k)
    BY <1>0, UpdateIs
  <2>2. j \in 0 .. MaxLevel
    BY <1>0
  <2>3. k \in OnLevel(l, j) <=> l.forward[Before(l, j, k)][j] = k
    BY <1>0, <2>2, BehindBefore
  <2>4. k \in OnLevel(l, j) <=> j \in 0 .. d
    BY <1>0, <1>2 DEF OnLevel
  <2>5. Before(l, j, k) \in OnLevel(l, j)
    BY <1>0, <2>2, BeforeFacts
  <2>q. QED
    BY <2>1, <2>3, <2>4, <2>5
<1> HIDE DEF update
<1>5. on = 0 .. d
  <2>1. ASSUME NEW i \in on
        PROVE  i \in 0 .. d
    <3>1. i \in 0 .. l.level /\ i \in 0 .. i
      BY <1>0
    <3>q. QED
      BY <1>4, <3>1
  <2>2. ASSUME NEW i \in 0 .. d
        PROVE  i \in on
    <3>1. i \in 0 .. l.level /\ \A j \in 0 .. i : j \in 0 .. d /\ j \in 0 .. l.level
      BY <1>0, <1>2
    <3>q. QED
      BY <1>4, <3>1
  <2>q. QED
    BY <2>1, <2>2
<1>6. DOMAIN to = 0 .. d /\ \A i \in 0 .. d : to[i] = l.forward[k][i]
  BY <1>5
<1> HIDE DEF on, to
<1>7. /\ DOMAIN unlinked = DOMAIN l.forward
      /\ \A m \in DOMAIN l.forward :
           /\ DOMAIN unlinked[m] = DOMAIN l.forward[m] \cup {i \in 0 .. d : update[i + 1] = m}
           /\ \A i \in 0 .. d : update[i + 1] = m => unlinked[m][i] = l.forward[k][i]
           /\ \A i \in DOMAIN l.forward[m] :
                ~(i \in 0 .. d /\ update[i + 1] = m) => unlinked[m][i] = l.forward[m][i]
  <2>1. \A i \in DOMAIN to : update[i + 1] \in DOMAIN l.forward
    <3>1. \A i \in 0 .. d : update[i + 1] \in OnLevel(l, i)
      BY <1>3, <1>4
    <3>q. QED
      BY <1>6, <3>1 DEF OnLevel
  <2>2. /\ DOMAIN unlinked = DOMAIN l.forward
        /\ \A m \in DOMAIN l.forward :
             /\ DOMAIN unlinked[m] = DOMAIN l.forward[m] \cup {i \in DOMAIN to : update[i + 1] = m}
             /\ \A i \in DOMAIN to : update[i + 1] = m => unlinked[m][i] = to[i]
             /\ \A i \in DOMAIN l.forward[m] :
                  ~(i \in DOMAIN to /\ update[i + 1] = m) => unlinked[m][i] = l.forward[m][i]
    BY <2>1, RelinkIs
  <2> HIDE DEF unlinked
  <2>q. QED
    BY <1>6, <2>2
<1> HIDE DEF unlinked
<1>8. ASSUME NEW m \in DOMAIN l.forward
      PROVE  /\ DOMAIN unlinked[m] = DOMAIN l.forward[m]
             /\ \A i \in DOMAIN l.forward[m] :
                  unlinked[m][i] = IF i \in 0 .. d /\ m = Before(l, i, k)
                                   THEN l.forward[k][i] ELSE l.forward[m][i]
  <2>1. ASSUME NEW i \in 0 .. d
        PROVE  /\ update[i + 1] = Before(l, i, k)
               /\ update[i + 1] = m => i \in DOMAIN l.forward[m]
    <3>1. update[i + 1] = Before(l, i, k) /\ Before(l, i, k) \in OnLevel(l, i)
      BY <1>3, <1>4
    <3>q. QED
      BY <3>1 DEF OnLevel
  <2>2. DOMAIN unlinked[m] = DOMAIN l.forward[m]
    BY <1>7, <2>1
  <2>3. ASSUME NEW i \in DOMAIN l.forward[m]
        PROVE  unlinked[m][i] = IF i \in 0 .. d /\ m = Before(l, i, k)
                                THEN l.forward[k][i] ELSE l.forward[m][i]
    BY <1>7, <2>1
  <2>q. QED
    BY <2>2, <2>3
<1>9. DOMAIN Restrict(unlinked, DOMAIN unlinked \ {k}) = DOMAIN l.forward \ {k}
      /\ \A n \in DOMAIN l.forward \ {k} : Restrict(unlinked, DOMAIN unlinked \ {k})[n] = unlinked[n]
  BY <1>7 DEF Restrict
<1>10. top \in 0 .. l.level /\ (top > 0 => unlinked[Header][top] # Null)
       /\ \A i \in used : i <= top
  <2> DEFINE S == used \cup {0}
  <2>1. S \in SUBSET Nat /\ S # {} /\ S \subseteq 0 .. l.level
    BY <1>0
  <2>2. IsFiniteSet(S)
    <3> HIDE DEF S
    <3>1. IsFiniteSet(0 .. l.level)
      BY <1>0, FS_Interval
    <3>q. QED
      BY <2>1, <3>1, FS_Subset
  <2>3. \E m \in S : \A j \in S : j <= m
    <3> HIDE DEF S
    <3>q. QED
      BY <2>1, <2>2, NatMax
  <2>4. top \in S /\ \A j \in used : j <= top
    BY <2>3
  <2> HIDE DEF top
  <2>q. QED
    BY <1>0, <2>1, <2>4
<1> HIDE DEF top
<1>11. /\ new.forward = Restrict(unlinked, DOMAIN unlinked \ {k})
       /\ new.value = Restrict(l.value, Nodes(l) \ {k})
       /\ new.level = top /\ new.count = l.count - 1
  <2> HIDE DEF new
  <2>q. QED
    BY <1>1
<1> HIDE DEF new
<1>12. new.forward[Header] = unlinked[Header]
  BY <1>0, <1>9, <1>11
<1>13. Deleted(l, k, new)
  <2>1. DOMAIN new.forward = DOMAIN l.forward \ {k}
    BY <1>9, <1>11
  <2>2. ASSUME NEW n \in DOMAIN new.forward
        PROVE  new.forward[n] = unlinked[n] /\ n \in DOMAIN l.forward
    BY <1>9, <1>11
  <2>3. \A n \in DOMAIN new.forward : DOMAIN new.forward[n] = DOMAIN l.forward[n]
    BY <1>8, <2>2
  <2>4. \A n \in DOMAIN new.forward : \A i \in DOMAIN l.forward[n] :
          new.forward[n][i] = IF i \in DOMAIN l.forward[k] /\ n = Before(l, i, k)
                              THEN l.forward[k][i] ELSE l.forward[n][i]
    BY <1>2, <1>8, <2>2
  <2>5. /\ new.level \in 0 .. l.level
        /\ new.level > 0 => new.forward[Header][new.level] # Null
        /\ \A i \in 1 .. l.level : new.forward[Header][i] # Null => i <= new.level
    BY <1>10, <1>11, <1>12
  <2>q. QED
    BY <1>11, <2>1, <2>3, <2>4, <2>5 DEF Deleted
<1>q. QED
  BY <1>13 DEF new

LEMMA DeleteKeeps ==
  ASSUME NEW l, Linked(l), NEW k \in Key
  PROVE  Linked(Delete(l, k))
<1> DEFINE new == Delete(l, k)
<1>0. CASE k \notin Nodes(l)
  BY <1>0, HasIs DEF Delete, Has
<1>a. CASE k \in Nodes(l)
  <2>1. /\ DOMAIN new.forward = DOMAIN l.forward \ {k}
        /\ \A n \in DOMAIN new.forward : DOMAIN new.forward[n] = DOMAIN l.forward[n]
        /\ \A n \in DOMAIN new.forward : \A i \in DOMAIN l.forward[n] :
             new.forward[n][i] = IF i \in DOMAIN l.forward[k] /\ n = Before(l, i, k)
                                 THEN l.forward[k][i] ELSE l.forward[n][i]
        /\ new.value = Restrict(l.value, Nodes(l) \ {k})
        /\ new.level \in 0 .. l.level
        /\ new.level > 0 => new.forward[Header][new.level] # Null
        /\ \A i \in 1 .. l.level : new.forward[Header][i] # Null => i <= new.level
        /\ new.count = l.count - 1
    <3>1. Deleted(l, k, new)
      BY <1>a, DeleteIs
    <3>q. QED
      BY <3>1 DEF Deleted
  <2> HIDE DEF new
  <2>2. /\ MaxLevel \in Nat /\ k \in Nat /\ 0 < k /\ k # Header
        /\ Key \subseteq Nat \ {0} /\ IsFiniteSet(Key) /\ Null \notin Nat
    BY ListAssumption DEF Header
  <2>3. /\ Nodes(l) \subseteq Key /\ l.value \in [Nodes(l) -> Val]
        /\ l.level \in Nat /\ l.level <= MaxLevel
        /\ DOMAIN l.forward = Nodes(l) \cup {Header}
        /\ DOMAIN l.forward[Header] = 0 .. MaxLevel
        /\ \A n \in Nodes(l) : \E j \in 1 .. l.level : DOMAIN l.forward[n] = 0 .. j
        /\ \A i \in 0 .. MaxLevel : Ordered(l, i)
        /\ l.count = Cardinality(Nodes(l))
    BY <2>2 DEF Linked
  <2>4. Nodes(new) = Nodes(l) \ {k} /\ new.value \in [Nodes(new) -> Val]
    BY <2>1, <2>3 DEF Nodes, Restrict
  <2>5. DOMAIN new.forward = Nodes(new) \cup {Header} /\ DOMAIN new.forward[Header] = 0 .. MaxLevel
    BY <2>1, <2>2, <2>3, <2>4
  <2>6. ASSUME NEW i \in 0 .. MaxLevel
        PROVE  Ordered(new, i)
    <3> DEFINE S == OnLevel(l, i)
               p == Before(l, i, k)
    <3>1. /\ S \in SUBSET Nat /\ p \in S /\ p \in Nat /\ p < k /\ \A x \in S : x < k => x <= p
      BY BeforeFacts, LevelFacts
    <3>2. k \in S <=> i \in DOMAIN l.forward[k]
      BY <1>a, <2>3 DEF OnLevel
    <3>3. \A n \in S : /\ l.forward[n][i] # Null => l.forward[n][i] \in S /\ n < l.forward[n][i]
                       /\ \A m \in S : n < m => l.forward[n][i] # Null /\ l.forward[n][i] <= m
      BY <2>3 DEF Ordered
    <3>4. OnLevel(new, i) = S \ {k}
      BY <2>1 DEF OnLevel
    <3>5. \A n \in S \ {k} : new.forward[n][i] = IF k \in S /\ n = p THEN l.forward[k][i] ELSE l.forward[n][i]
      BY <2>1, <3>2 DEF OnLevel
    <3> HIDE DEF S, p
    <3>6. \A n \in S : n \in Nat
      BY <3>1
    <3>7. ASSUME NEW n \in S \ {k}
          PROVE  /\ new.forward[n][i] # Null => new.forward[n][i] \in S \ {k} /\ n < new.forward[n][i]
                 /\ \A m \in S \ {k} : n < m => new.forward[n][i] # Null /\ new.forward[n][i] <= m
      <4>1. CASE k \in S /\ n = p
        <5>1. new.forward[n][i] = l.forward[k][i]
          BY <3>5, <4>1
        <5>2. l.forward[k][i] # Null => l.forward[k][i] \in S \ {k} /\ n < l.forward[k][i]
          <6>1. l.forward[k][i] # Null => l.forward[k][i] \in S /\ k < l.forward[k][i]
            BY <3>3, <4>1
          <6>2. n \in Nat /\ n < k
            BY <3>1, <4>1
          <6>3. \A x \in Nat : k < x => x # k /\ n < x
            BY <2>2, <6>2
          <6>q. QED
            BY <3>6, <6>1, <6>3
        <5>3. ASSUME NEW m \in S \ {k}, n < m
              PROVE  l.forward[k][i] # Null /\ l.forward[k][i] <= m
          <6>1. k < m
            BY <2>2, <3>1, <3>6, <4>1, <5>3
          <6>q. QED
            BY <3>3, <4>1, <6>1
        <5>q. QED
          BY <5>1, <5>2, <5>3
      <4>2. CASE ~(k \in S /\ n = p)
        <5>1. new.forward[n][i] = l.forward[n][i]
          BY <3>5, <4>2
        <5>2. l.forward[n][i] # k
          <6> SUFFICES ASSUME l.forward[n][i] = k PROVE FALSE
            OBVIOUS
          <6>1. k \in S /\ n < k
            BY <2>2, <3>3
          <6>2. n < p
            BY <3>1, <3>6, <4>2, <6>1
          <6>3. k <= p
            BY <3>1, <3>3, <6>2
          <6>q. QED
            BY <2>2, <3>1, <6>3
        <5>q. QED
          BY <3>3, <5>1, <5>2
      <4>q. QED
        BY <4>1, <4>2
    <3>q. QED
      BY <3>4, <3>7 DEF Ordered
  <2>7. ASSUME NEW n \in Nodes(new)
        PROVE  \E j \in 1 .. new.level : DOMAIN new.forward[n] = 0 .. j
    <3>1. n \in Nodes(l) /\ n \in DOMAIN new.forward /\ Header \in DOMAIN new.forward /\ n \in Nat /\ Header < n
      BY <2>2, <2>3, <2>4, <2>5 DEF Header
    <3>2. PICK j \in 1 .. l.level : DOMAIN l.forward[n] = 0 .. j
      BY <2>3, <3>1
    <3>3. DOMAIN new.forward[n] = 0 .. j /\ j \in Nat /\ j \in 0 .. MaxLevel /\ j \in 0 .. j
      BY <2>1, <2>2, <2>3, <3>1, <3>2
    <3>4. n \in OnLevel(new, j) /\ Header \in OnLevel(new, j)
      BY <2>5, <3>1, <3>3 DEF OnLevel
    <3>5. new.forward[Header][j] # Null
      BY <2>6, <3>1, <3>3, <3>4 DEF Ordered
    <3>6. j <= new.level
      BY <2>1, <3>2, <3>5
    <3>q. QED
      BY <2>1, <2>3, <3>2, <3>3, <3>6
  <2>8. new.count = Cardinality(Nodes(new))
    <3>1. IsFiniteSet(Nodes(l))
      BY <2>2, <2>3, FS_Subset
    <3>2. Cardinality(Nodes(l) \ {k}) = Cardinality(Nodes(l)) - 1
      BY <1>a, <3>1, FS_RemoveElement
    <3>q. QED
      BY <2>1, <2>3, <2>4, <3>2
  <2>9. Nodes(new) \subseteq Key /\ new.level \in 0 .. MaxLevel
    BY <2>1, <2>2, <2>3, <2>4
  <2>q. QED
    BY <2>1, <2>4, <2>5, <2>6, <2>7, <2>8, <2>9 DEF Linked, new
<1>q. QED
  BY <1>0, <1>a

LEMMA DeleteValue ==
  ASSUME NEW l, Linked(l), NEW k \in Key
  PROVE  Delete(l, k).value = Restrict(l.value, Nodes(l) \ {k})
<1>1. CASE k \in Nodes(l)
  <2>1. Deleted(l, k, Delete(l, k))
    BY <1>1, DeleteIs
  <2>q. QED
    BY <2>1 DEF Deleted
<1>2. CASE k \notin Nodes(l)
  <2>1. Delete(l, k) = l
    BY <1>2, HasIs DEF Delete, Has
  <2>2. Nodes(l) \ {k} = Nodes(l) /\ l.value = [x \in Nodes(l) |-> l.value[x]]
    BY <1>2 DEF Linked
  <2>q. QED
    BY <2>1, <2>2 DEF Restrict
<1>q. QED
  BY <1>1, <1>2

-----------------------------------------------------------------------------
(* insert_set_element and load_file *)

LEMMA InsertSetIs ==
  ASSUME NEW l, Linked(l), NEW k \in Key, NEW v \in Val, NEW h \in Levels
  PROVE  /\ Linked(InsertSet(l, k, v, h))
         /\ InsertSet(l, k, v, h).value = Over(Single(k, v), l.value)
<1> DEFINE one == Single(k, v)
           old == IF Search(l, k) # << >> THEN Delete(l, k) ELSE l
<1>1. InsertSet(l, k, v, h) = Insert(old, k, v, h)
  BY DEF InsertSet
<1>2. Linked(old) /\ old.value = Restrict(l.value, Nodes(l) \ {k})
  <2>1. CASE k \in Nodes(l)
    <3>1. Search(l, k) # << >>
      BY <2>1, SearchIs
    <3>2. old = Delete(l, k)
      BY <3>1
    <3>q. QED
      BY <3>2, DeleteKeeps, DeleteValue
  <2>2. CASE k \notin Nodes(l)
    <3>1. old = l
      BY <2>2, SearchIs
    <3>2. Nodes(l) \ {k} = Nodes(l) /\ l.value = [x \in Nodes(l) |-> l.value[x]]
      BY <2>2 DEF Linked
    <3>q. QED
      BY <3>1, <3>2 DEF Restrict
  <2>q. QED
    BY <2>1, <2>2
<1> HIDE DEF old
<1>3. Linked(Insert(old, k, v, h)) /\ Insert(old, k, v, h).value = Over(old.value, one)
  BY <1>2, InsertKeeps, InsertValue
<1>4. Over(old.value, one) = Over(one, l.value)
  <2>1. DOMAIN old.value = Nodes(l) \ {k} /\ \A x \in Nodes(l) \ {k} : old.value[x] = l.value[x]
    BY <1>2 DEF Restrict
  <2>2. DOMAIN one = {k} /\ DOMAIN l.value = Nodes(l)
    BY DEF Nodes, Single
  <2>3. DOMAIN old.value \cup DOMAIN one = DOMAIN one \cup DOMAIN l.value
    BY <2>1, <2>2
  <2> HIDE DEF one
  <2>4. \A x \in DOMAIN old.value \cup DOMAIN one :
          (IF x \in DOMAIN old.value THEN old.value[x] ELSE one[x])
            = (IF x \in DOMAIN one THEN one[x] ELSE l.value[x])
    BY <2>1, <2>2
  <2>q. QED
    BY <2>3, <2>4 DEF Over
<1>q. QED
  BY <1>1, <1>3, <1>4

\* A dump is a sequence of pairs with ascending keys.
LEMMA DumpsFacts ==
  ASSUME NEW dump \in Dumps
  PROVE  /\ Len(dump) \in Nat /\ DOMAIN dump = 1 .. Len(dump)
         /\ \A i \in 1 .. Len(dump) : dump[i][1] \in Key /\ dump[i][2] \in Val
         /\ \A i, j \in 1 .. Len(dump) : dump[i][1] = dump[j][1] => i = j
         /\ KeysOf(dump) = {dump[i][1] : i \in 1 .. Len(dump)}
<1>1. PICK n \in 0 .. Cardinality(Key) : dump \in [1 .. n -> Key \X Val]
  BY DEF Dumps
<1>2. n \in Nat
  <2>1. Cardinality(Key) \in Nat
    BY ListAssumption, FS_CardinalityType
  <2>q. QED
    BY <2>1
<1>3. Len(dump) = n /\ DOMAIN dump = 1 .. n
  BY <1>1, <1>2
<1>4. \A i \in 1 .. n : dump[i][1] \in Key /\ dump[i][2] \in Val
  BY <1>1
<1>5. ASSUME NEW i \in 1 .. n, NEW j \in 1 .. n, dump[i][1] = dump[j][1]
      PROVE  i = j
  <2>1. \A a, b \in 1 .. n : a < b => dump[a][1] < dump[b][1]
    BY <1>3 DEF Dumps
  <2>2. dump[i][1] \in Nat
    BY <1>4, ListAssumption
  <2>3. ~(i < j) /\ ~(j < i)
    BY <1>5, <2>1, <2>2
  <2>q. QED
    BY <1>2, <2>3
<1>6. KeysOf(dump) = {dump[i][1] : i \in 1 .. n}
  BY <1>3 DEF KeysOf, ToSet
<1>q. QED
  BY <1>2, <1>3, <1>4, <1>5, <1>6

\* The map of pairs whose keys differ.
LEMMA MapOfIs ==
  ASSUME NEW pairs, NEW N \in Nat, DOMAIN pairs = 1 .. N,
         \A i, j \in 1 .. N : pairs[i][1] = pairs[j][1] => i = j
  PROVE  /\ DOMAIN MapOf(pairs) = {pairs[i][1] : i \in 1 .. N}
         /\ \A i \in 1 .. N : MapOf(pairs)[pairs[i][1]] = pairs[i][2]
<1>1. KeysOf(pairs) = {pairs[i][1] : i \in 1 .. N}
  BY DEF KeysOf, ToSet
<1>2. ASSUME NEW i \in 1 .. N
      PROVE  MapOf(pairs)[pairs[i][1]] = pairs[i][2]
  <2> DEFINE p == CHOOSE q \in ToSet(pairs) : q[1] = pairs[i][1]
  <2>1. \E q \in ToSet(pairs) : q[1] = pairs[i][1]
    BY DEF ToSet
  <2>2. p \in ToSet(pairs) /\ p[1] = pairs[i][1]
    BY <2>1
  <2>3. MapOf(pairs)[pairs[i][1]] = p[2]
    BY <1>1 DEF MapOf
  <2> HIDE DEF p
  <2>4. PICK j \in 1 .. N : p = pairs[j]
    BY <2>2 DEF ToSet
  <2>5. j = i
    BY <2>2, <2>4
  <2>q. QED
    BY <2>3, <2>4, <2>5
<1>q. QED
  BY <1>1, <1>2 DEF MapOf

\* The list after i pairs of the dump.
LoadedTo(l, dump, new, i) ==
  /\ Linked(new)
  /\ Nodes(new) = Nodes(l) \cup {dump[j][1] : j \in 1 .. i}
  /\ \A n \in Nodes(l) : new.value[n] = l.value[n]
  /\ \A j \in 1 .. i : dump[j][1] \notin Nodes(l) => new.value[dump[j][1]] = dump[j][2]

LEMMA LoadIs ==
  ASSUME NEW l, Linked(l), NEW dump \in Dumps, NEW lvl, \A k \in KeysOf(dump) : lvl[k] \in Levels
  PROVE  /\ Linked(Load(l, dump, lvl))
         /\ Load(l, dump, lvl).value = Over(l.value, MapOf(dump))
<1> DEFINE N == Len(dump)
           put(i, new) == LET p == dump[i] IN Insert(new, p[1], p[2], lvl[p[1]])
           u == CHOOSE g : g = [i \in 0 .. N |-> IF i = 0 THEN l ELSE put(i, g[i - 1])]
           Solved(f, n) == f = [i \in 0 .. n |-> IF i = 0 THEN l ELSE put(i, f[i - 1])]
           T == {n \in 0 .. N : \E f : Solved(f, n)}
<1>1. /\ N \in Nat /\ DOMAIN dump = 1 .. N
      /\ \A i \in 1 .. N : dump[i][1] \in Key /\ dump[i][2] \in Val /\ lvl[dump[i][1]] \in Levels
      /\ \A i, j \in 1 .. N : dump[i][1] = dump[j][1] => i = j
  <2>1. KeysOf(dump) = {dump[i][1] : i \in 1 .. N}
    BY DumpsFacts
  <2>q. QED
    BY <2>1, DumpsFacts
<1>2. Load(l, dump, lvl) = u[N]
  BY DEF Load
<1> HIDE DEF N, put
<1>3. 0 \in T
  <2> DEFINE f == [i \in 0 .. 0 |-> l]
  <2>1. \A i \in 0 .. 0 : i = 0
    OBVIOUS
  <2>2. Solved(f, 0)
    BY <2>1
  <2> HIDE DEF f, Solved
  <2>3. 0 \in 0 .. N
    BY <1>1
  <2>q. QED
    BY <2>2, <2>3
<1>4. ASSUME NEW n \in 0 .. N, n < N, n \in T
      PROVE  n + 1 \in T
  <2>1. PICK f : Solved(f, n)
    BY <1>4
  <2> DEFINE g == [i \in 0 .. n + 1 |-> IF i = n + 1 THEN put(i, f[n]) ELSE f[i]]
  <2>2. n \in Nat /\ n + 1 \in 0 .. N
    BY <1>1, <1>4
  <2>3. \A i \in 0 .. n : f[i] = IF i = 0 THEN l ELSE put(i, f[i - 1])
    <3> DEFINE rhs == [i \in 0 .. n |-> IF i = 0 THEN l ELSE put(i, f[i - 1])]
    <3>1. f = rhs
      BY <2>1
    <3>2. \A i \in 0 .. n : rhs[i] = IF i = 0 THEN l ELSE put(i, f[i - 1])
      OBVIOUS
    <3> HIDE DEF rhs
    <3>q. QED
      BY <3>1, <3>2
  <2>4. ASSUME NEW i \in 0 .. n + 1
        PROVE  g[i] = IF i = 0 THEN l ELSE put(i, g[i - 1])
    <3>1. CASE i = n + 1
      <4>1. i # 0 /\ i - 1 = n /\ n \in 0 .. n + 1 /\ n # n + 1
        BY <2>2, <3>1
      <4>2. g[n] = f[n]
        BY <4>1
      <4>3. g[i] = put(i, f[n])
        BY <3>1
      <4> HIDE DEF g
      <4>q. QED
        BY <4>1, <4>2, <4>3
    <3>2. CASE i # n + 1
      <4>1. i \in 0 .. n /\ g[i] = f[i]
        BY <2>2, <3>2
      <4>2. i # 0 => i - 1 \in 0 .. n + 1 /\ i - 1 # n + 1
        BY <2>2, <4>1
      <4>3. i # 0 => g[i - 1] = f[i - 1]
        BY <4>2
      <4> HIDE DEF g
      <4>q. QED
        BY <2>3, <4>1, <4>3
    <3>q. QED
      BY <3>1, <3>2
  <2>5. Solved(g, n + 1)
    <3> DEFINE rhs == [i \in 0 .. n + 1 |-> IF i = 0 THEN l ELSE put(i, g[i - 1])]
    <3>1. DOMAIN g = 0 .. n + 1 /\ g = [i \in DOMAIN g |-> g[i]]
      OBVIOUS
    <3> HIDE DEF g
    <3>2. \A i \in 0 .. n + 1 : rhs[i] = g[i]
      BY <2>4
    <3>3. g = rhs
      BY <3>1, <3>2
    <3>q. QED
      BY <3>3
  <2> HIDE DEF Solved, g
  <2>q. QED
    BY <2>2, <2>5
<1>5. N \in T
  <2>1. N \in 0 .. N
    BY <1>1
  <2> HIDE DEF T
  <2>q. QED
    BY <1>1, <1>3, <1>4, <2>1, UpTo
<1>6. u = [i \in 0 .. N |-> IF i = 0 THEN l ELSE put(i, u[i - 1])]
  <2>1. \E f : f = [i \in 0 .. N |-> IF i = 0 THEN l ELSE put(i, f[i - 1])]
    BY <1>5
  <2>q. QED
    BY <2>1
<1>7. u[0] = l /\ \A i \in 1 .. N : u[i] = put(i, u[i - 1])
  <2> DEFINE rhs == [i \in 0 .. N |-> IF i = 0 THEN l ELSE put(i, u[i - 1])]
  <2>1. u = rhs
    BY <1>6
  <2> HIDE DEF u
  <2>2. \A i \in 0 .. N : rhs[i] = IF i = 0 THEN l ELSE put(i, u[i - 1])
    OBVIOUS
  <2>3. 0 \in 0 .. N /\ \A i \in 1 .. N : i \in 0 .. N /\ i # 0
    BY <1>1
  <2> HIDE DEF rhs
  <2>q. QED
    BY <2>1, <2>2, <2>3
<1> HIDE DEF u, T
<1> DEFINE L == {i \in 0 .. N : LoadedTo(l, dump, u[i], i)}
<1>8. 0 \in L
  <2>1. 0 \in 0 .. N /\ 1 .. 0 = {}
    BY <1>1
  <2>q. QED
    BY <1>7, <2>1 DEF LoadedTo
<1>9. ASSUME NEW i \in 0 .. N, i < N, i \in L
      PROVE  i + 1 \in L
  <2> DEFINE k == dump[i + 1][1]
             v == dump[i + 1][2]
             old == u[i]
             new == u[i + 1]
             one == Single(k, v)
  <2>1. i + 1 \in 1 .. N /\ i + 1 \in 0 .. N /\ i + 1 - 1 = i
    BY <1>1, <1>9
  <2>2. new = Insert(old, k, v, lvl[k])
    BY <1>7, <2>1 DEF put
  <2>3. k \in Key /\ v \in Val /\ lvl[k] \in Levels
    BY <1>1, <2>1
  <2>4. LoadedTo(l, dump, old, i)
    BY <1>9
  <2>5. DOMAIN one = {k} /\ one[k] = v
    BY DEF Single
  <2>6. \A j \in 1 .. i + 1 : j \in 1 .. i \/ j = i + 1
    BY <1>1
  <2>7. i + 1 \in 1 .. i + 1 /\ \A j \in 1 .. i : j \in 1 .. i + 1 /\ j \in 1 .. N /\ j # i + 1
    BY <1>1, <1>9
  <2>8. \A j \in 1 .. i : dump[j][1] # k
    BY <1>1, <2>1, <2>7
  <2>9. Linked(new) /\ new.value = Over(old.value, one)
    <3> HIDE DEF old, new, k, v
    <3>1. Linked(old)
      BY <2>4 DEF LoadedTo
    <3>2. Linked(Insert(old, k, v, lvl[k]))
      BY <2>3, <3>1, InsertKeeps
    <3>3. Insert(old, k, v, lvl[k]).value = Over(old.value, one)
      BY <2>3, <3>1, InsertValue
    <3>q. QED
      BY <2>2, <3>2, <3>3
  <2>10. {dump[j][1] : j \in 1 .. i + 1} = {dump[j][1] : j \in 1 .. i} \cup {k}
    BY <2>6, <2>7
  <2> HIDE DEF old, new, k, v, one
  <2>11. /\ Nodes(new) = Nodes(old) \cup {k}
         /\ \A n \in Nodes(old) : new.value[n] = old.value[n]
         /\ k \notin Nodes(old) => new.value[k] = v
    <3>1. /\ DOMAIN Over(old.value, one) = DOMAIN old.value \cup DOMAIN one
          /\ \A x \in DOMAIN old.value : Over(old.value, one)[x] = old.value[x]
          /\ \A x \in DOMAIN one : x \notin DOMAIN old.value => Over(old.value, one)[x] = one[x]
      BY OverIs
    <3>q. QED
      BY <2>5, <2>9, <3>1 DEF Nodes
  <2>12. k \in Nodes(old) => k \in Nodes(l)
    BY <2>4, <2>8 DEF LoadedTo
  <2>13. Nodes(new) = Nodes(l) \cup {dump[j][1] : j \in 1 .. i + 1}
    BY <2>4, <2>10, <2>11 DEF LoadedTo
  <2>14. \A n \in Nodes(l) : new.value[n] = l.value[n]
    BY <2>4, <2>11 DEF LoadedTo
  <2>15. ASSUME NEW j \in 1 .. i + 1, dump[j][1] \notin Nodes(l)
         PROVE  new.value[dump[j][1]] = dump[j][2]
    <3>1. CASE j = i + 1
      BY <2>11, <2>12, <2>15, <3>1 DEF k, v
    <3>2. CASE j \in 1 .. i
      <4>1. dump[j][1] \in Nodes(old) /\ old.value[dump[j][1]] = dump[j][2]
        BY <2>4, <2>15, <3>2 DEF LoadedTo
      <4>q. QED
        BY <2>11, <4>1
    <3>q. QED
      BY <2>6, <3>1, <3>2
  <2>16. LoadedTo(l, dump, new, i + 1)
    BY <2>9, <2>13, <2>14, <2>15 DEF LoadedTo
  <2>q. QED
    BY <2>1, <2>16 DEF new
<1>10. N \in L
  <2>1. N \in 0 .. N
    BY <1>1
  <2> HIDE DEF L
  <2>q. QED
    BY <1>1, <1>8, <1>9, <2>1, UpTo
<1> DEFINE new == Load(l, dump, lvl)
           m == MapOf(dump)
<1>11. LoadedTo(l, dump, new, N)
  BY <1>2, <1>10
<1>12. DOMAIN m = {dump[i][1] : i \in 1 .. N} /\ \A i \in 1 .. N : m[dump[i][1]] = dump[i][2]
  BY <1>1, MapOfIs
<1> HIDE DEF new, m
<1>13. /\ Nodes(new) = Nodes(l) \cup DOMAIN m /\ new.value \in [Nodes(new) -> Val]
       /\ \A n \in Nodes(l) : new.value[n] = l.value[n]
       /\ \A k \in DOMAIN m : k \notin Nodes(l) => new.value[k] = m[k]
  <2>1. /\ Nodes(new) = Nodes(l) \cup DOMAIN m
        /\ \A n \in Nodes(l) : new.value[n] = l.value[n]
        /\ \A j \in 1 .. N : dump[j][1] \notin Nodes(l) => new.value[dump[j][1]] = m[dump[j][1]]
    BY <1>11, <1>12 DEF LoadedTo
  <2>2. new.value \in [Nodes(new) -> Val]
    BY <1>11 DEF LoadedTo, Linked
  <2>q. QED
    BY <1>12, <2>1, <2>2
<1>14. new.value = Over(l.value, m)
  <2>1. new.value = [x \in Nodes(new) |-> new.value[x]]
    BY <1>13
  <2>2. \A x \in Nodes(l) \cup DOMAIN m : new.value[x] = IF x \in Nodes(l) THEN l.value[x] ELSE m[x]
    BY <1>13
  <2>q. QED
    BY <1>13, <2>1, <2>2 DEF Over, Nodes
<1>15. Linked(new)
  BY <1>11 DEF LoadedTo
<1>q. QED
  BY <1>14, <1>15 DEF new, m

-----------------------------------------------------------------------------
(* dump_file *)

\* The nodes of a level that are above n, in ascending order.
Listed(l, i, n, s) ==
  /\ s \in Seq(Nat)
  /\ {s[a] : a \in DOMAIN s} = {m \in OnLevel(l, i) : n < m}
  /\ \A a, b \in DOMAIN s : a < b => s[a] < s[b]

LEMMA ListedCons ==
  ASSUME NEW l, NEW i, NEW n \in Nat, NEW next \in Nat, NEW s,
         OnLevel(l, i) \in SUBSET Nat, Listed(l, i, next, s),
         next \in OnLevel(l, i), n < next, \A m \in OnLevel(l, i) : n < m => next <= m
  PROVE  Listed(l, i, n, <<next>> \o s)
<1> DEFINE S == OnLevel(l, i)
           t == <<next>> \o s
<1>1. s \in Seq(Nat) /\ {s[a] : a \in DOMAIN s} = {m \in S : next < m} /\ \A a, b \in DOMAIN s : a < b => s[a] < s[b]
  BY DEF Listed
<1>2. DOMAIN s = 1 .. Len(s) /\ Len(s) \in Nat /\ \A a \in DOMAIN s : s[a] \in Nat
  BY <1>1
<1>3. t \in Seq(Nat) /\ DOMAIN t = 1 .. Len(s) + 1 /\ t[1] = next
  BY <1>1
<1>4. \A a \in 1 .. Len(s) : t[a + 1] = s[a] /\ a + 1 \in DOMAIN t
  BY <1>1, <1>2, <1>3
<1>5. \A a \in DOMAIN t : a = 1 \/ (a - 1 \in 1 .. Len(s) /\ a = (a - 1) + 1)
  BY <1>2, <1>3
<1> HIDE DEF t, S
<1>6. ASSUME NEW a \in 1 .. Len(s)
      PROVE  s[a] \in S /\ next < s[a]
  <2>1. s[a] \in {s[b] : b \in DOMAIN s}
    BY <1>2
  <2>q. QED
    BY <1>1, <2>1
<1>7. ASSUME NEW a \in DOMAIN t
      PROVE  t[a] \in S /\ n < t[a]
  <2>1. CASE a = 1
    BY <1>3, <2>1 DEF S
  <2>2. CASE a # 1
    <3>1. t[a] = s[a - 1] /\ a - 1 \in 1 .. Len(s)
      BY <1>4, <1>5, <2>2
    <3>2. t[a] \in S /\ next < t[a] /\ t[a] \in Nat
      BY <1>2, <1>6, <3>1
    <3>q. QED
      BY <3>2
  <2>q. QED
    BY <2>1, <2>2
<1>8. ASSUME NEW m \in S, n < m
      PROVE  \E a \in DOMAIN t : t[a] = m
  <2>1. m \in Nat /\ next <= m
    BY <1>8 DEF S
  <2>2. CASE m = next
    BY <1>2, <1>3, <2>2
  <2>3. CASE m # next
    <3>1. m \in {s[a] : a \in DOMAIN s}
      BY <1>1, <2>1, <2>3
    <3>2. PICK a \in 1 .. Len(s) : s[a] = m
      BY <1>2, <3>1
    <3>q. QED
      BY <1>4, <3>2
  <2>q. QED
    BY <2>2, <2>3
<1>9. {t[a] : a \in DOMAIN t} = {m \in S : n < m}
  BY <1>7, <1>8
<1>10. ASSUME NEW a \in DOMAIN t, NEW b \in DOMAIN t, a < b
       PROVE  t[a] < t[b]
  <2>1. b # 1 /\ a \in Nat /\ b \in Nat
    BY <1>2, <1>3, <1>10
  <2>2. t[b] = s[b - 1] /\ b - 1 \in 1 .. Len(s)
    BY <1>4, <1>5, <2>1
  <2>3. CASE a = 1
    BY <1>3, <1>6, <2>2, <2>3
  <2>4. CASE a # 1
    <3>1. t[a] = s[a - 1] /\ a - 1 \in 1 .. Len(s)
      BY <1>4, <1>5, <2>4
    <3>2. a - 1 < b - 1
      BY <1>10, <2>1
    <3>q. QED
      BY <1>1, <1>2, <2>2, <3>1, <3>2
  <2>q. QED
    BY <2>3, <2>4
<1>q. QED
  BY <1>3, <1>9, <1>10 DEF Listed, t, S

LEMMA ChainIs ==
  ASSUME NEW l, Linked(l), NEW i \in 0 .. MaxLevel
  PROVE  Listed(l, i, Header, Chain(l, i))
<1> DEFINE S == OnLevel(l, i)
           V == Seq(Nat)
           next == [n \in S |-> l.forward[n][i]]
           base == [n \in S |-> << >>]
           cons(g, n) == LET x == l.forward[n][i] IN IF x = Null THEN << >> ELSE <<x>> \o g[x]
           u == CHOOSE g : g = [n \in S |-> cons(g, n)]
<1>1. S \in SUBSET Nat /\ IsFiniteSet(S) /\ Header \in S /\ Null \notin Nat
  BY LevelFacts, ListAssumption
<1>2. \A n \in S : /\ l.forward[n][i] # Null => l.forward[n][i] \in S /\ n < l.forward[n][i]
                   /\ \A m \in S : n < m => l.forward[n][i] # Null /\ l.forward[n][i] <= m
  BY DEF Linked, Ordered
<1>3. Chain(l, i) = u[Header]
  BY DEF Chain
<1>4. \A n \in S : next[n] = l.forward[n][i] /\ (next[n] \in S <=> next[n] # Null)
  BY <1>1, <1>2
<1> HIDE DEF S
\* The step of the recursion, defined for the nodes that have no next one too.
<1> DEFINE then == [p \in S \X V |-> IF next[p[1]] \in Nat THEN <<next[p[1]]>> \o p[2] ELSE << >>]
<1>5. then \in [S \X V -> V] /\ base \in [S -> V]
  <2>1. ASSUME NEW n \in S, NEW s \in V
        PROVE  (IF next[n] \in Nat THEN <<next[n]>> \o s ELSE << >>) \in V
    <3> HIDE DEF next
    <3>q. QED
      OBVIOUS
  <2> HIDE DEF next, V
  <2>2. << >> \in V
    BY DEF V
  <2>q. QED
    BY <2>1, <2>2
<1>6. PICK f \in [S -> V] : \A n \in S : f[n] = IF next[n] \in S THEN then[<<n, f[next[n]]>>] ELSE base[n]
  <2>1. \A n \in S : next[n] \in S => next[n] > n
    BY <1>1, <1>2, <1>4
  <2> HIDE DEF next, base, then, V, cons, u
  <2>2. S \in SUBSET Nat /\ IsFiniteSet(S) /\ base \in [S -> V] /\ then \in [S \X V -> V]
    BY <1>1, <1>5
  <2>q. QED
    BY <2>1, <2>2, DownRecursion, SMTT(30)
<1>7. f = [n \in S |-> cons(f, n)]
  <2>1. ASSUME NEW n \in S
        PROVE  f[n] = cons(f, n)
    <3>1. CASE l.forward[n][i] = Null
      <4>1. next[n] \notin S /\ base[n] = << >>
        BY <1>4, <3>1
      <4>2. f[n] = base[n]
        <5> HIDE DEF next, base, then
        <5>q. QED
          BY <1>6, <4>1
      <4>q. QED
        BY <3>1, <4>1, <4>2
    <3>2. CASE l.forward[n][i] # Null
      <4>1. next[n] \in S /\ next[n] \in Nat /\ next[n] = l.forward[n][i]
        BY <1>1, <1>4, <3>2
      <4>2. f[n] = then[<<n, f[next[n]]>>]
        <5> HIDE DEF next, base, then
        <5>q. QED
          BY <1>6, <4>1
      <4>3. f[next[n]] \in V
        BY <1>6, <4>1
      <4>4. then[<<n, f[next[n]]>>] = <<next[n]>> \o f[next[n]]
        <5> HIDE DEF next, V
        <5>q. QED
          BY <4>1, <4>3
      <4> HIDE DEF next, then
      <4>q. QED
        BY <3>2, <4>1, <4>2, <4>4
    <3>q. QED
      BY <3>1, <3>2
  <2> HIDE DEF cons, V
  <2>q. QED
    BY <1>6, <2>1
<1>8. u = [n \in S |-> cons(u, n)]
  <2> HIDE DEF cons
  <2>q. QED
    BY <1>7
<1>9. \A n \in S : u[n] = cons(u, n)
  <2> DEFINE rhs == [n \in S |-> cons(u, n)]
  <2>1. u = rhs
    BY <1>8
  <2> HIDE DEF u, cons
  <2>2. \A n \in S : rhs[n] = cons(u, n)
    OBVIOUS
  <2> HIDE DEF rhs
  <2>q. QED
    BY <2>1, <2>2
<1> HIDE DEF u
<1> DEFINE T == {n \in S : Listed(l, i, n, u[n])}
<1>10. ASSUME NEW n \in S, \A m \in S : m > n => m \in T
       PROVE  n \in T
  <2> DEFINE x == l.forward[n][i]
  <2>1. CASE x = Null
    <3>1. u[n] = << >>
      BY <1>9, <2>1
    <3>2. {m \in S : n < m} = {}
      BY <1>2, <2>1
    <3>3. Listed(l, i, n, << >>)
      BY <3>2 DEF Listed, S
    <3>q. QED
      BY <3>1, <3>3
  <2>2. CASE x # Null
    <3>1. x \in S /\ x \in Nat /\ n \in Nat /\ n < x /\ \A m \in S : n < m => x <= m
      BY <1>1, <1>2, <2>2
    <3>2. u[n] = <<x>> \o u[x]
      BY <1>9, <2>2
    <3> HIDE DEF x
    <3>3. Listed(l, i, x, u[x])
      BY <1>10, <3>1
    <3>4. Listed(l, i, n, <<x>> \o u[x])
      BY <1>1, <3>1, <3>3, ListedCons DEF S
    <3>q. QED
      BY <3>2, <3>4
  <2>q. QED
    BY <2>1, <2>2
<1>11. S \subseteq T
  <2> HIDE DEF T
  <2>q. QED
    BY <1>1, <1>10, FromAbove
<1>q. QED
  BY <1>1, <1>3, <1>11

\* A dump has the keys in ascending order, each with its value.
LEMMA DumpIs ==
  ASSUME NEW l, Linked(l)
  PROVE  /\ MapOf(Dump(l)) = l.value
         /\ Dump(l) \in Dumps
         /\ KeysOf(Dump(l)) = Nodes(l)
<1> DEFINE c == Chain(l, 0)
           d == Dump(l)
           N == Len(c)
<1>1. 0 \in 0 .. MaxLevel /\ Key \subseteq Nat \ {0} /\ IsFiniteSet(Key)
  BY ListAssumption
<1>2. Listed(l, 0, Header, c) /\ OnLevel(l, 0) = Nodes(l) \cup {Header}
  BY <1>1, ChainIs, LevelFacts
<1>3. Nodes(l) \subseteq Key /\ l.value \in [Nodes(l) -> Val]
  BY DEF Linked
<1> HIDE DEF c
<1>4. /\ c \in Seq(Nat) /\ N \in Nat /\ DOMAIN c = 1 .. N
      /\ \A a \in 1 .. N : c[a] \in Nodes(l)
      /\ \A m \in Nodes(l) : \E a \in 1 .. N : c[a] = m
      /\ \A a, b \in 1 .. N : a < b => c[a] < c[b]
  <2>1. c \in Seq(Nat) /\ {c[a] : a \in DOMAIN c} = {m \in Nodes(l) \cup {Header} : Header < m}
        /\ \A a, b \in DOMAIN c : a < b => c[a] < c[b]
    BY <1>2 DEF Listed
  <2>2. N \in Nat /\ DOMAIN c = 1 .. N
    BY <2>1
  <2>3. {m \in Nodes(l) \cup {Header} : Header < m} = Nodes(l)
    <3>1. \A m \in Nodes(l) : m \in Nat /\ 0 < m
      <4> SUFFICES ASSUME NEW m \in Nodes(l) PROVE m \in Nat /\ 0 < m
        OBVIOUS
      <4>1. m \in Nat \ {0}
        BY <1>1, <1>3
      <4>q. QED
        BY <4>1
    <3>q. QED
      BY <3>1 DEF Header
  <2>4. {c[a] : a \in 1 .. N} = Nodes(l)
    BY <2>1, <2>2, <2>3
  <2>q. QED
    BY <2>1, <2>2, <2>4
<1>5. d = [j \in 1 .. N |-> <<c[j], l.value[c[j]]>>]
  BY <1>4 DEF Dump, PairsOf, c
<1> HIDE DEF d, N
<1>6. DOMAIN d = 1 .. N /\ \A j \in 1 .. N : d[j] = <<c[j], l.value[c[j]]>>
  BY <1>5
<1>7. \A j \in 1 .. N : d[j][1] = c[j] /\ d[j][2] = l.value[c[j]] /\ d[j] \in Key \X Val
  <2> SUFFICES ASSUME NEW j \in 1 .. N
               PROVE  d[j][1] = c[j] /\ d[j][2] = l.value[c[j]] /\ d[j] \in Key \X Val
    OBVIOUS
  <2>1. c[j] \in Key /\ l.value[c[j]] \in Val
    BY <1>3, <1>4
  <2>2. d[j] = <<c[j], l.value[c[j]]>>
    BY <1>6
  <2>q. QED
    BY <2>1, <2>2
<1>8. \A a, b \in 1 .. N : c[a] = c[b] => a = b
  <2> SUFFICES ASSUME NEW a \in 1 .. N, NEW b \in 1 .. N, c[a] = c[b] PROVE a = b
    OBVIOUS
  <2>1. c[a] \in Nat /\ a \in Nat /\ b \in Nat
    BY <1>1, <1>3, <1>4
  <2>2. ~(a < b) /\ ~(b < a)
    BY <1>4, <2>1
  <2>q. QED
    BY <2>1, <2>2
<1>9. {d[j][1] : j \in 1 .. N} = Nodes(l)
  <2>1. {d[j][1] : j \in 1 .. N} = {c[j] : j \in 1 .. N}
    BY <1>7
  <2>q. QED
    BY <1>4, <2>1
<1>10. MapOf(d) = l.value
  <2> DEFINE m == MapOf(d)
  <2>1. DOMAIN m = {d[j][1] : j \in 1 .. N} /\ \A j \in 1 .. N : m[d[j][1]] = d[j][2]
    <3>1. \A a, b \in 1 .. N : d[a][1] = d[b][1] => a = b
      BY <1>7, <1>8
    <3>q. QED
      BY <1>4, <1>6, <3>1, MapOfIs
  <2>2. m = [k \in KeysOf(d) |-> m[k]]
    BY DEF MapOf
  <2> HIDE DEF m
  <2>3. DOMAIN m = Nodes(l) /\ \A k \in Nodes(l) : m[k] = l.value[k]
    <3>1. \A k \in Nodes(l) : \E j \in 1 .. N : d[j][1] = k /\ d[j][2] = l.value[k]
      BY <1>4, <1>7
    <3>q. QED
      BY <1>9, <2>1, <3>1
  <2>4. m = l.value
    BY <1>3, <2>2, <2>3
  <2>q. QED
    BY <2>4 DEF m
<1>11. KeysOf(d) = Nodes(l)
  BY <1>6, <1>9 DEF KeysOf, ToSet
<1>12. N <= Cardinality(Key) /\ Cardinality(Key) \in Nat
  <2> DEFINE f == [a \in 1 .. N |-> c[a]]
  <2>1. f \in Injection(1 .. N, Key)
    BY <1>3, <1>4, <1>8 DEF Injection, IsInjective
  <2>2. Cardinality(1 .. N) = N /\ IsFiniteSet(1 .. N)
    BY <1>4, FS_Interval
  <2>3. Cardinality(1 .. N) <= Cardinality(Key)
    <3> HIDE DEF f
    <3>q. QED
      BY <1>1, <2>1, FS_Injection
  <2>4. Cardinality(Key) \in Nat
    BY <1>1, FS_CardinalityType
  <2>q. QED
    BY <2>2, <2>3, <2>4
<1>13. d \in Dumps
  <2>1. N \in 0 .. Cardinality(Key)
    BY <1>4, <1>12
  <2>2. d \in [1 .. N -> Key \X Val]
    BY <1>5, <1>7
  <2>3. \A a, b \in DOMAIN d : a < b => d[a][1] < d[b][1]
    BY <1>4, <1>6, <1>7
  <2>q. QED
    BY <2>1, <2>2, <2>3 DEF Dumps
<1>q. QED
  BY <1>10, <1>11, <1>13 DEF d

-----------------------------------------------------------------------------
(* What follows for the list *)

LEMMA EmptyIs == Linked(EmptyList) /\ EmptyList.value = << >>
<1> DEFINE l == EmptyList
           top == [i \in 0 .. MaxLevel |-> Null]
<1>1. l.value = << >> /\ l.level = 0 /\ l.count = 0 /\ l.forward = Single(Header, top)
  BY DEF EmptyList
<1>2. DOMAIN l.forward = {Header} /\ l.forward[Header] = top /\ MaxLevel \in Nat
  BY <1>1, ListAssumption DEF Single
<1> HIDE DEF l
<1>3. DOMAIN top = 0 .. MaxLevel /\ \A i \in 0 .. MaxLevel : top[i] = Null
  OBVIOUS
<1> HIDE DEF top
<1>4. Nodes(l) = {} /\ l.value \in [Nodes(l) -> Val]
  BY <1>1 DEF Nodes
<1>5. ASSUME NEW i \in 0 .. MaxLevel
      PROVE  Ordered(l, i)
  <2>1. OnLevel(l, i) = {Header}
    BY <1>2, <1>3 DEF OnLevel
  <2>q. QED
    BY <1>2, <1>3, <2>1 DEF Ordered, Header
<1>6. Cardinality(Nodes(l)) = 0
  BY <1>4, FS_EmptySet
<1>q. QED
  BY <1>1, <1>2, <1>3, <1>4, <1>5, <1>6 DEF Linked, l

\* What WellFormed, OperationsAgree and DumpLoads say of a list.
LEMMA LinkedIsWellFormed ==
  ASSUME Linked(list)
  PROVE  WellFormed
<1>1. ASSUME NEW i \in 0 .. MaxLevel
      PROVE  LET chain == Chain(list, i) IN
             /\ \A a, b \in DOMAIN chain : a < b => chain[a] < chain[b]
             /\ ToSet(chain) = {k \in Nodes(list) : i \in DOMAIN list.forward[k]}
  <2> DEFINE chain == Chain(list, i)
  <2>1. Listed(list, i, Header, chain)
    BY ChainIs
  <2> HIDE DEF chain
  <2>2. {m \in OnLevel(list, i) : Header < m} = {k \in Nodes(list) : i \in DOMAIN list.forward[k]}
    <3>1. DOMAIN list.forward = Nodes(list) \cup {Header} /\ \A k \in Nodes(list) : k \in Nat /\ 0 < k
      <4>1. \A k \in Nodes(list) : k \in Nat \ {0}
        BY ListAssumption DEF Linked
      <4>2. \A x \in Nat \ {0} : x \in Nat /\ 0 < x
        OBVIOUS
      <4>q. QED
        BY <4>1, <4>2 DEF Linked
    <3>q. QED
      BY <3>1 DEF OnLevel, Header
  <2>3. ToSet(chain) = {k \in Nodes(list) : i \in DOMAIN list.forward[k]}
    BY <2>1, <2>2 DEF Listed, ToSet
  <2>4. \A a, b \in DOMAIN chain : a < b => chain[a] < chain[b]
    BY <2>1 DEF Listed
  <2>q. QED
    BY <2>3, <2>4 DEF chain
<1>2. ASSUME NEW k \in Nodes(list)
      PROVE  DOMAIN list.forward[k] \subseteq 0 .. list.level
  <2>1. PICK h \in 1 .. list.level : DOMAIN list.forward[k] = 0 .. h
    BY DEF Linked
  <2>2. list.level \in Nat
    BY ListAssumption DEF Linked
  <2>q. QED
    BY <2>1, <2>2
<1>q. QED
  BY <1>1, <1>2 DEF WellFormed, Linked

LEMMA LinkedAgrees ==
  ASSUME Linked(list)
  PROVE  OperationsAgree
<1> DEFINE m == MapOf(Dump(list))
<1>1. m = list.value /\ DOMAIN m = Nodes(list)
  BY DumpIs DEF Nodes
<1> HIDE DEF m
<1>2. ASSUME NEW k \in Key
      PROVE  /\ Search(list, k) = IF k \in DOMAIN m THEN <<m[k]>> ELSE << >>
             /\ MapOf(Dump(Delete(list, k))) = Restrict(m, DOMAIN m \ {k})
  <2>1. Search(list, k) = IF k \in DOMAIN m THEN <<m[k]>> ELSE << >>
    BY <1>1, SearchIs
  <2>2. MapOf(Dump(Delete(list, k))) = Restrict(m, DOMAIN m \ {k})
    BY <1>1, DeleteKeeps, DeleteValue, DumpIs
  <2>q. QED
    BY <2>1, <2>2
<1>3. ASSUME NEW k \in Key, NEW v \in Val, NEW lvl \in Levels
      PROVE  /\ MapOf(Dump(Insert(list, k, v, lvl))) = Over(m, Single(k, v))
             /\ MapOf(Dump(InsertSet(list, k, v, lvl))) = Over(Single(k, v), m)
  <2>1. MapOf(Dump(Insert(list, k, v, lvl))) = Over(m, Single(k, v))
    BY <1>1, InsertKeeps, InsertValue, DumpIs
  <2>2. MapOf(Dump(InsertSet(list, k, v, lvl))) = Over(Single(k, v), m)
    BY <1>1, InsertSetIs, DumpIs
  <2>q. QED
    BY <2>1, <2>2
<1>4. ASSUME NEW dump \in Dumps
      PROVE  MapOf(Dump(Load(list, dump, [k \in Key |-> 1]))) = Over(m, MapOf(dump))
  <2> DEFINE lvl == [k \in Key |-> 1]
  <2>1. \A k \in KeysOf(dump) : lvl[k] \in Levels
    <3>1. KeysOf(dump) \subseteq Key
      BY DumpsFacts
    <3>2. 1 \in Levels
      BY ListAssumption DEF Levels
    <3>q. QED
      BY <3>1, <3>2
  <2> HIDE DEF lvl
  <2>2. Linked(Load(list, dump, lvl)) /\ Load(list, dump, lvl).value = Over(list.value, MapOf(dump))
    BY <2>1, LoadIs
  <2>3. MapOf(Dump(Load(list, dump, lvl))) = Over(m, MapOf(dump))
    BY <1>1, <2>2, DumpIs
  <2>q. QED
    BY <2>3 DEF lvl
<1>5. m = MapOf(Dump(list))
  BY DEF m
<1>q. QED
  BY <1>2, <1>3, <1>4, <1>5 DEF OperationsAgree

LEMMA LinkedLoads ==
  ASSUME Linked(list)
  PROVE  DumpLoads
<1> SUFFICES ASSUME NEW lvl \in [KeysOf(Dump(list)) -> Levels], NEW k \in Key
             PROVE  Search(Load(EmptyList, Dump(list), lvl), k) = Search(list, k)
  BY DEF DumpLoads
<1> DEFINE copy == Load(EmptyList, Dump(list), lvl)
<1>1. Dump(list) \in Dumps /\ MapOf(Dump(list)) = list.value
  BY DumpIs
<1>2. Linked(EmptyList) /\ EmptyList.value = << >>
  BY EmptyIs
<1>3. Linked(copy) /\ copy.value = Over(EmptyList.value, MapOf(Dump(list)))
  BY <1>1, <1>2, LoadIs
<1> HIDE DEF copy
<1>4. copy.value = list.value
  <2>1. Over(<< >>, list.value) = [x \in Nodes(list) |-> list.value[x]]
    <3>1. DOMAIN << >> = {}
      OBVIOUS
    <3>q. QED
      BY <3>1 DEF Over, Nodes
  <2>2. list.value = [x \in Nodes(list) |-> list.value[x]]
    BY DEF Linked
  <2>q. QED
    BY <1>1, <1>2, <1>3, <2>1, <2>2
<1>5. Search(copy, k) = Search(list, k)
  BY <1>3, <1>4, SearchIs DEF Nodes
<1>q. QED
  BY <1>5 DEF copy

LEMMA LinkedStart == Init => Linked(list)
  BY EmptyIs DEF Init

LEMMA LinkedStep ==
  ASSUME Linked(list), [Next]_list
  PROVE  Linked(list')
<1>1. CASE UNCHANGED list
  BY <1>1
<1>2. CASE NewList
  BY <1>2, EmptyIs DEF NewList
<1>3. ASSUME NEW k \in Key, NEW v \in Val, NEW lvl \in Levels, InsertElement(k, v, lvl)
      PROVE  Linked(list')
  BY <1>3, InsertKeeps DEF InsertElement
<1>4. ASSUME NEW k \in Key, DeleteElement(k)
      PROVE  Linked(list')
  BY <1>4, DeleteKeeps DEF DeleteElement
<1>5. ASSUME NEW k \in Key, NEW v \in Val, NEW lvl \in Levels, InsertSetElement(k, v, lvl)
      PROVE  Linked(list')
  BY <1>5, InsertSetIs DEF InsertSetElement
<1>6. ASSUME NEW dump \in Dumps, NEW lvl \in [KeysOf(dump) -> Levels], LoadFile(dump, lvl)
      PROVE  Linked(list')
  BY <1>6, LoadIs DEF LoadFile
<1>q. QED
  BY <1>1, <1>2, <1>3, <1>4, <1>5, <1>6 DEF Next, Operation

LEMMA LinkedHolds == Spec => []Linked(list)
<1>1. Linked(list) /\ [Next]_list => Linked(list)'
  BY LinkedStep
<1>q. QED
  BY <1>1, LinkedStart, PTL DEF Spec

\* Whatever calls there have been, each level of the list goes through exactly
\* the nodes that drew it, in ascending order, no level above the top is in use,
\* and the count of the elements is right.
THEOREM ListIsWellFormed == Spec => []WellFormed
  BY LinkedHolds, LinkedIsWellFormed, PTL

\* search_element, insert_element, insert_set_element, delete_element and
\* load_file are the operations of a map, for any keys, values and levels.
THEOREM ListIsAMap == Spec => []OperationsAgree
  BY LinkedHolds, LinkedAgrees, PTL

\* What dump_file writes, load_file makes into a list that answers every search
\* as the dumped one does.
THEOREM DumpsRestore == Spec => []DumpLoads
  BY LinkedHolds, LinkedLoads, PTL
=============================================================================
