------------------------------ MODULE SkipList ------------------------------
(***************************************************************************)
(* The skip list of skipList/include/skipList.h, the store of a KvServer.  *)
(* KvServer holds its own lock around every call, so each is one action.   *)
(*                                                                         *)
(* A node is named by its key, which is unique, and the header by 0.  Level*)
(* 0 has every node, level i those that drew a level of i or more.  The    *)
(* operators below compute on a list as the code does, by following the    *)
(* pointers from the top level of the list down.                           *)
(***************************************************************************)
EXTENDS Naturals, SequencesExt

CONSTANTS Key, Val,
          MaxLevel,   \* _max_level
          Null        \* the null pointer

ASSUME ListAssumption ==
  /\ Key \subseteq Nat \ {0} /\ IsFiniteSet(Key)
  /\ MaxLevel \in Nat \ {0} /\ Null \notin Nat

VARIABLE list   \* [forward, value, level, count]: the nodes, _skip_list_level, _element_count

Header == 0
Levels == 1..MaxLevel           \* what get_random_level returns
Nodes(l) == DOMAIN l.value

\* Function f, and g where f is not defined.
Over(f, g) == [x \in DOMAIN f \cup DOMAIN g |-> IF x \in DOMAIN f THEN f[x] ELSE g[x]]

Single(x, y) == [n \in {x} |-> y]

EmptyList ==
  [forward |-> Single(Header, [i \in 0..MaxLevel |-> Null]),
   value |-> << >>, level |-> 0, count |-> 0]

Init == list = EmptyList

\* The nodes that have a pointer of level i, the header among them.
OnLevel(l, i) == {n \in DOMAIN l.forward : i \in DOMAIN l.forward[n]}

\* The node after which k belongs on level i, coming from node n of that level.
Walk(l, k, i, n) ==
  LET go[m \in OnLevel(l, i)] ==
        LET next == l.forward[m][i] IN
        IF next # Null /\ next < k THEN go[next] ELSE m
  IN  go[n]

\* update[]: the predecessors of k on the levels of the list, the bottom level
\* first.  They are found from the top down: the search on a level starts at the
\* node where the one above ended.
Update(l, k) ==
  LET from[i \in 0..l.level] ==
        LET above == IF i = l.level THEN << >> ELSE from[i + 1] IN
        <<Walk(l, k, i, IF above = << >> THEN Header ELSE above[1])>> \o above
  IN  from[0]

\* The node behind the predecessors on level 0: the first that is not below k.
Found(l, update) == l.forward[update[1]][0]
Has(l, k) == Found(l, Update(l, k)) = k

\* search_element: the value, in a sequence that is empty if there is none.
Search(l, k) == IF Has(l, k) THEN <<l.value[k]>> ELSE << >>

\* The forward pointers with that of node at[i] on level i set to to[i].
Relink(forward, at, to) ==
  LET node(m) == Over([i \in {j \in DOMAIN to : at[j + 1] = m} |-> to[i]], forward[m])
  IN  Over([m \in {at[i + 1] : i \in DOMAIN to} |-> node(m)], forward)

\* insert_element.  A key that is there keeps its value.  The new node is linked
\* on the levels up to the one it drew, above the top of the list after the header.
Insert(l, k, v, lvl) ==
  LET update == Update(l, k)
      pred == [i \in 1..lvl + 1 |-> IF i > Len(update) THEN Header ELSE update[i]]
      node == [i \in 0..lvl |-> l.forward[pred[i + 1]][i]]
  IN  IF Found(l, update) = k THEN l
      ELSE [forward |-> Over(Single(k, node), Relink(l.forward, pred, [i \in 0..lvl |-> k])),
            value |-> Over(l.value, Single(k, v)),
            level |-> IF lvl > l.level THEN lvl ELSE l.level, count |-> l.count + 1]

\* faulty: the top level is not given up.
DeleteKeepLevel(l, k) ==
  LET update == Update(l, k)
      on == {i \in 0..l.level : \A j \in 0..i : l.forward[update[j + 1]][j] = k}
      unlinked == Relink(l.forward, update, [i \in on |-> l.forward[k][i]])
  IN  IF Found(l, update) # k THEN l
      ELSE [forward |-> Restrict(unlinked, DOMAIN unlinked \ {k}),
            value |-> Restrict(l.value, Nodes(l) \ {k}),
            level |-> l.level, count |-> l.count - 1]

\* delete_element: the node is unlinked from the bottom up to the first level it
\* is not on, and the levels left empty are given up.
Delete(l, k) ==
  LET update == Update(l, k)
      on == {i \in 0..l.level : \A j \in 0..i : l.forward[update[j + 1]][j] = k}
      unlinked == Relink(l.forward, update, [i \in on |-> l.forward[k][i]])
      used == {i \in 1..l.level : unlinked[Header][i] # Null}
  IN  IF Found(l, update) # k THEN l
      ELSE [forward |-> Restrict(unlinked, DOMAIN unlinked \ {k}),
            value |-> Restrict(l.value, Nodes(l) \ {k}),
            level |-> CHOOSE i \in used \cup {0} : \A j \in used : j <= i,
            count |-> l.count - 1]

\* faulty: leaves it to insert_element.
InsertSetKeep(l, k, v, lvl) == Insert(l, k, v, lvl)

\* insert_set_element: a key that is there is deleted first.
InsertSet(l, k, v, lvl) ==
  Insert(IF Search(l, k) # << >> THEN Delete(l, k) ELSE l, k, v, lvl)

\* The nodes of level i in the order of its pointers, header left out.
Chain(l, i) ==
  LET from[n \in OnLevel(l, i)] ==
        LET next == l.forward[n][i] IN
        IF next = Null THEN << >> ELSE <<next>> \o from[next]
  IN  from[Header]

PairsOf(l, chain) == [j \in DOMAIN chain |-> <<chain[j], l.value[chain[j]]>>]

\* faulty: along the top level.
DumpTop(l) == PairsOf(l, Chain(l, l.level))

\* dump_file: the pairs of key and value along level 0.
Dump(l) == PairsOf(l, Chain(l, 0))

\* load_file: the pairs of a dump are inserted one after the other, each node
\* with a level of its own, into what the list holds already.
Load(l, dump, lvl) ==
  LET after[i \in 0..Len(dump)] ==
        IF i = 0 THEN l ELSE LET p == dump[i] IN Insert(after[i - 1], p[1], p[2], lvl[p[1]])
  IN  after[Len(dump)]

-----------------------------------------------------------------------------
InsertElement(k, v, lvl) == list' = Insert(list, k, v, lvl)
DeleteElement(k) == list' = Delete(list, k)
InsertSetElement(k, v, lvl) == list' = InsertSet(list, k, v, lvl)
LoadFile(dump, lvl) == list' = Load(list, dump, lvl)

KeysOf(pairs) == {p[1] : p \in ToSet(pairs)}

\* What dump_file may return: by ascending key, any values.
Dumps ==
  {d \in UNION {[1..n -> Key \X Val] : n \in 0..Cardinality(Key)} :
     \A i, j \in DOMAIN d : i < j => d[i][1] < d[j][1]}

Operation ==
  \/ \E k \in Key, v \in Val, lvl \in Levels : InsertElement(k, v, lvl)
  \/ \E k \in Key : DeleteElement(k)
  \/ \E k \in Key, v \in Val, lvl \in Levels : InsertSetElement(k, v, lvl)
  \/ \E dump \in Dumps : \E lvl \in [KeysOf(dump) -> Levels] : LoadFile(dump, lvl)

\* The constructor.
NewList == list' = EmptyList

Next == NewList \/ Operation

Spec == Init /\ [][Next]_list

-----------------------------------------------------------------------------
(* What is checked.                                                        *)

\* The map that pairs of a key and a value stand for.
MapOf(pairs) ==
  [k \in KeysOf(pairs) |-> (CHOOSE p \in ToSet(pairs) : p[1] = k)[2]]

\* Whatever pointers earlier operations have left, and whatever level a new node
\* draws, the operations are those of a map: search_element finds what the map
\* holds, insert_set_element overrides, and insert_element and load_file do not,
\* so that a snapshot loaded over an older state leaves the old values in place.
OperationsAgree ==
  LET m == MapOf(Dump(list)) IN
  /\ \A k \in Key :
       /\ Search(list, k) = IF k \in DOMAIN m THEN <<m[k]>> ELSE << >>
       /\ MapOf(Dump(Delete(list, k))) = Restrict(m, DOMAIN m \ {k})
       /\ \A v \in Val, lvl \in Levels :
            /\ MapOf(Dump(Insert(list, k, v, lvl))) = Over(m, Single(k, v))
            /\ MapOf(Dump(InsertSet(list, k, v, lvl))) = Over(Single(k, v), m)
  /\ \A dump \in Dumps :
       MapOf(Dump(Load(list, dump, [k \in Key |-> 1]))) = Over(m, MapOf(dump))

\* The pointers make a skip list: each level goes through exactly the nodes that
\* drew it, in ascending order, no level above the top of the list is used and
\* the top one is, and _element_count counts the nodes.
WellFormed ==
  /\ \A i \in 0..MaxLevel :
       LET chain == Chain(list, i) IN
       /\ \A a, b \in DOMAIN chain : a < b => chain[a] < chain[b]
       /\ ToSet(chain) = {k \in Nodes(list) : i \in DOMAIN list.forward[k]}
  /\ \A k \in Nodes(list) : DOMAIN list.forward[k] \subseteq 0..list.level
  /\ list.level > 0 => list.forward[Header][list.level] # Null
  /\ list.count = Cardinality(Nodes(list))

\* A dump loaded into an empty list makes a list in which search_element finds
\* what it found in the first, whatever levels the nodes draw this time.
DumpLoads ==
  \A lvl \in [KeysOf(Dump(list)) -> Levels] :
    LET copy == Load(EmptyList, Dump(list), lvl) IN
    \A k \in Key : Search(copy, k) = Search(list, k)
=============================================================================
