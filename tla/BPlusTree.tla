------------------------------ MODULE BPlusTree ------------------------------
(***************************************************************************)
(* The B+ tree of index/bplustree.py, node by node, while one thread       *)
(* changes it and others read it: SELECT takes no lock, so every change of *)
(* a list or a pointer that a reader can see is a step of its own.         *)
(***************************************************************************)
EXTENDS Integers, SequencesExt

CONSTANTS
  Order,     \* ORDER: the most children of an inner node
  Keys,      \* the keys, integers
  Entries,   \* pairs <<key, row index>> the table may enter
  Removals,  \* pairs <<key, row index>> the table may take out
  Lookups,   \* the conditions readers look up: points and ranges
  Writers,   \* threads inside Table.insert, update or delete
  Readers,   \* threads inside an index scan
  MaxNodes,  \* bound: no insertion starts with more nodes than this
  Nil        \* None

ASSUME OrderAssumption == Order \in Nat /\ Order >= 3
ASSUME KeysAssumption  == Keys \subseteq Int /\ \A e \in Entries \cup Removals : e[1] \in Keys
ASSUME NilAssumption   == Nil \notin Nat
ASSUME LookupsAssumption ==
  \A c \in Lookups : /\ c.lo \in Int \cup {Nil} /\ c.hi \in Int \cup {Nil}
                     /\ c.point => c.lo # Nil /\ c.hi = c.lo

VARIABLES
  nodes,  \* the BPlusNodes made so far
  root,   \* BPlusTree.root
  op,     \* op[w]: where writer w is in insert or delete
  rd      \* rd[r]: where reader r is in search or range_search

vars == <<nodes, root, op, rd>>

Leaf(keys, values, next) ==
  [leaf |-> TRUE, keys |-> keys, values |-> values, children |-> <<>>, next |-> next]
Inner(keys, children) ==
  [leaf |-> FALSE, keys |-> keys, values |-> <<>>, children |-> children, next |-> Nil]

Idle == [pc |-> "idle"]

Init ==
  /\ nodes = <<Leaf(<<>>, <<>>, Nil)>>
  /\ root = 1
  /\ op = [w \in Writers |-> Idle]
  /\ rd = [r \in Readers |-> Idle]

-----------------------------------------------------------------------------
(***************************************************************************)
(* Positions are counted from 1 here, from 0 in the code.                  *)
(***************************************************************************)
\* A mistake to catch: a key equal to the separator goes to the left.
LeftOfSeparator(n, key) ==
  LET keys == nodes[n].keys IN
  Min({i \in 1..(Len(keys) + 1) : i <= Len(keys) => key <= keys[i]})

\* _find_child_index
ChildIndex(n, key) ==
  LET keys == nodes[n].keys IN
  Min({i \in 1..(Len(keys) + 1) : i <= Len(keys) => key < keys[i]})

\* The loop of _leaf_insert: where the key is, or belongs.
LeafIndex(n, key) ==
  LET keys == nodes[n].keys IN
  Min({i \in 1..(Len(keys) + 1) : i <= Len(keys) => key <= keys[i]})

Has(n, key) == \E i \in DOMAIN nodes[n].keys : nodes[n].keys[i] = key

\* node.children[i], or Nil where Python raises IndexError.
Child(n, i) == IF i \in DOMAIN nodes[n].children THEN nodes[n].children[i] ELSE Nil

\* The way of _insert and _delete_leaf down to a leaf, with the position taken
\* at every inner node; it ends early where a child is missing.
Path(key) ==
  LET down[n \in DOMAIN nodes] ==
        IF nodes[n].leaf THEN <<[node |-> n, at |-> 0]>>
        ELSE LET i == ChildIndex(n, key) IN
             <<[node |-> n, at |-> i]>>
               \o (IF Child(n, i) = Nil THEN <<>> ELSE down[Child(n, i)])
  IN  down[root]

\* list.insert(i, x) puts x at the end when i is past it.
PutAt(list, i, x) == InsertAt(list, IF i <= Len(list) THEN i ELSE Len(list) + 1, x)
PopAt(list, i)    == IF i \in DOMAIN list THEN RemoveAt(list, i) ELSE list
Upto(list, n)     == SubSeq(list, 1, n)
\* A mistake to catch: the first of the upper half is left out.
FromNext(list, n) == SubSeq(list, n + 1, Len(list))
From(list, n)     == SubSeq(list, n, Len(list))

-----------------------------------------------------------------------------
(***************************************************************************)
(* insert(key, row_index).  op[w].path leads to the node being changed.    *)
(***************************************************************************)
Here(w) == Last(op[w].path).node
At(w)   == Last(op[w].path).at
Go(w, pc)  == op' = [op EXCEPT ![w].pc = pc]
Finish(w)  == op' = [op EXCEPT ![w] = Idle]

\* What readers read from now on may have changed under them.
Disturb == rd' = [r \in Readers |-> IF rd[r] = Idle THEN Idle ELSE [rd[r] EXCEPT !.quiet = FALSE]]

\* All changes of one node by a writer have this form.
Change(w, pc, node) ==
  /\ op[w].pc = pc
  /\ nodes' = [nodes EXCEPT ![Here(w)] = node]
  /\ Disturb

Call(w, e, pc) ==
  /\ op[w] = Idle
  /\ nodes[Last(Path(e[1])).node].leaf
  /\ op' = [op EXCEPT ![w] = [pc |-> pc, key |-> e[1], row |-> e[2],
                              path |-> Path(e[1]), at |-> 0, mid |-> 0, new |-> Nil]]
  /\ UNCHANGED <<nodes, root, rd>>

\* Every row position stands in one index entry at most: it is the position of
\* a row just appended.
Free(e) == \A n \in DOMAIN nodes : \A i \in DOMAIN nodes[n].values :
             ~Contains(nodes[n].values[i], e[2])

CallInsert(w, e) == Len(nodes) <= MaxNodes /\ Free(e) /\ Call(w, e, "leaf")

\* After a node got a key: done, or it is over-full and splits.
\* A mistake to catch: a node is split only when it has one key more.
NextIfRoomy(w, n, split) == IF Len(nodes'[n].keys) > Order THEN Go(w, split) ELSE Finish(w)
NextUp(w, n, split) == IF Len(nodes'[n].keys) >= Order THEN Go(w, split) ELSE Finish(w)

\* _leaf_insert: a known key gets one row more, a new one comes in two steps.
LeafRow(w) ==
  LET n == Here(w)  i == LeafIndex(n, op[w].key) IN
  /\ op[w].pc = "leaf" /\ Has(n, op[w].key)
  /\ Change(w, "leaf", [nodes[n] EXCEPT !.values[i] = Append(@, op[w].row)])
  /\ Finish(w)
  /\ UNCHANGED root

LeafKey(w) ==
  LET n == Here(w)  i == LeafIndex(n, op[w].key) IN
  /\ op[w].pc = "leaf" /\ ~Has(n, op[w].key)
  /\ Change(w, "leaf", [nodes[n] EXCEPT !.keys = PutAt(@, i, op[w].key)])
  /\ op' = [op EXCEPT ![w].pc = "value", ![w].at = i]
  /\ UNCHANGED root

LeafValue(w) ==
  LET n == Here(w) IN
  /\ Change(w, "value", [nodes[n] EXCEPT !.values = PutAt(@, op[w].at, <<op[w].row>>)])
  /\ NextUp(w, n, "split")
  /\ UNCHANGED root

Mid(n) == Len(nodes[n].keys) \div 2

\* The node is done: on to its parent, or to a new root.
Up(w) ==
  IF Len(op[w].path) = 1 THEN Go(w, "root")
  ELSE op' = [op EXCEPT ![w].pc = "parent", ![w].path = Front(@)]

\* _split_leaf: the upper half goes to a new leaf, which the readers cannot
\* reach before Link.
SplitLeafKeys(w) ==
  LET n == Here(w) IN
  /\ op[w].pc = "split"
  /\ nodes' = Append([nodes EXCEPT ![n].keys = Upto(@, Mid(n))],
                     Leaf(From(nodes[n].keys, Mid(n) + 1), From(nodes[n].values, Mid(n) + 1), Nil))
  /\ op' = [op EXCEPT ![w].pc = "splitvalues", ![w].new = Len(nodes) + 1,
                      ![w].mid = nodes[n].keys[Mid(n) + 1]]
  /\ Disturb
  /\ UNCHANGED root

SplitLeafValues(w) ==
  LET n == Here(w) IN
  /\ Change(w, "splitvalues", [nodes[n] EXCEPT !.values = Upto(@, Len(nodes[n].keys))])
  /\ Go(w, "link")
  /\ UNCHANGED root

\* A mistake to catch: the two assignments swapped, so the new leaf follows itself.
LinkLate(w) ==
  LET n == Here(w) IN
  /\ op[w].pc = "link"
  /\ nodes' = [nodes EXCEPT ![n].next = op[w].new, ![op[w].new].next = op[w].new]
  /\ Disturb /\ Up(w)
  /\ UNCHANGED root

Link(w) ==
  LET n == Here(w) IN
  /\ op[w].pc = "link"
  /\ nodes' = [nodes EXCEPT ![n].next = op[w].new, ![op[w].new].next = nodes[n].next]
  /\ Disturb /\ Up(w)
  /\ UNCHANGED root

\* _insert, back in the parent.
ParentKey(w) ==
  LET n == Here(w) IN
  /\ Change(w, "parent", [nodes[n] EXCEPT !.keys = PutAt(@, At(w), op[w].mid)])
  /\ Go(w, "child")
  /\ UNCHANGED root

ParentChild(w) ==
  LET n == Here(w) IN
  /\ Change(w, "child", [nodes[n] EXCEPT !.children = PutAt(@, At(w) + 1, op[w].new)])
  /\ NextUp(w, n, "splitinner")
  /\ UNCHANGED root

\* _split_internal: the middle key moves up.
SplitInnerKeys(w) ==
  LET n == Here(w) IN
  /\ op[w].pc = "splitinner"
  /\ nodes' = Append([nodes EXCEPT ![n].keys = Upto(@, Mid(n))],
                     Inner(From(nodes[n].keys, Mid(n) + 2), From(nodes[n].children, Mid(n) + 2)))
  /\ op' = [op EXCEPT ![w].pc = "splitchildren", ![w].new = Len(nodes) + 1,
                      ![w].mid = nodes[n].keys[Mid(n) + 1]]
  /\ Disturb
  /\ UNCHANGED root

SplitInnerChildren(w) ==
  LET n == Here(w) IN
  /\ op[w].pc = "splitchildren"
  /\ nodes' = [nodes EXCEPT ![n].children = Upto(@, Len(nodes[n].keys) + 1)]
  /\ Disturb /\ Up(w)
  /\ UNCHANGED root

\* insert: the root was split.
NewRoot(w) ==
  /\ op[w].pc = "root"
  /\ nodes' = Append(nodes, Inner(<<op[w].mid>>, <<root, op[w].new>>))
  /\ root' = Len(nodes) + 1
  /\ Disturb /\ Finish(w)

-----------------------------------------------------------------------------
(***************************************************************************)
(* delete(key, row_index).  Leaves are never merged.                       *)
(***************************************************************************)
CallDelete(w, e) == Call(w, e, "remove")

\* Nothing happens where the key, or the row under it, is not there.
RemoveRow(w) ==
  LET n == Here(w)  i == LeafIndex(n, op[w].key) IN
  /\ op[w].pc = "remove"
  /\ IF Has(n, op[w].key) /\ i \in DOMAIN nodes[n].values
     THEN /\ nodes' = [nodes EXCEPT ![n].values[i] = RemoveFirst(@, op[w].row)]
          /\ Disturb
          /\ IF nodes'[n].values[i] = <<>>
             THEN op' = [op EXCEPT ![w].pc = "popkey", ![w].at = i]
             ELSE Finish(w)
     ELSE Finish(w) /\ UNCHANGED <<nodes, rd>>
  /\ UNCHANGED root

PopKey(w) ==
  LET n == Here(w) IN
  /\ Change(w, "popkey", [nodes[n] EXCEPT !.keys = PopAt(@, op[w].at)])
  /\ Go(w, "popvalue")
  /\ UNCHANGED root

\* A root without keys would be replaced by its only child; inner nodes never
\* lose a key, so that does not happen.
PopValue(w) ==
  LET n == Here(w) IN
  /\ Change(w, "popvalue", [nodes[n] EXCEPT !.values = PopAt(@, op[w].at)])
  /\ Finish(w)
  /\ root' = IF ~nodes'[root].leaf /\ nodes'[root].keys = <<>>
             THEN nodes'[root].children[1] ELSE root

Write(w) ==
  \/ \E e \in Entries : CallInsert(w, e)
  \/ \E e \in Removals : CallDelete(w, e)
  \/ LeafRow(w) \/ LeafKey(w) \/ LeafValue(w)
  \/ SplitLeafKeys(w) \/ SplitLeafValues(w) \/ Link(w)
  \/ ParentKey(w) \/ ParentChild(w)
  \/ SplitInnerKeys(w) \/ SplitInnerChildren(w) \/ NewRoot(w)
  \/ RemoveRow(w) \/ PopKey(w) \/ PopValue(w)

-----------------------------------------------------------------------------
(***************************************************************************)
(* search(key) and range_search(lo, hi), as one: a point is a range whose  *)
(* reader stops at the first leaf.  lo or hi may be Nil.                   *)
(***************************************************************************)
Point(k) == [lo |-> k, hi |-> k, loIn |-> TRUE, hiIn |-> TRUE, point |-> TRUE]

Above(c, k) == c.lo = Nil \/ k > c.lo \/ (c.loIn /\ k = c.lo)
Below(c, k) == c.hi = Nil \/ k < c.hi \/ (c.hiIn /\ k = c.hi)

CallSearch(r, c) ==
  /\ rd[r] = Idle
  /\ rd' = [rd EXCEPT ![r] = [pc |-> "down", cond |-> c, node |-> root, out |-> <<>>,
                              quiet |-> \A w \in Writers : op[w] = Idle]]
  /\ UNCHANGED <<nodes, root, op>>

Fail(r) == rd' = [rd EXCEPT ![r].pc = "error"]

\* _find_leaf and _leftmost_leaf, one node.
Descend(r) ==
  LET n == rd[r].node
      c == rd[r].cond
      child == Child(n, IF c.lo = Nil THEN 1 ELSE ChildIndex(n, c.lo))
  IN
  /\ rd[r].pc = "down"
  /\ IF nodes[n].leaf THEN rd' = [rd EXCEPT ![r].pc = "scan"]
     ELSE IF child = Nil THEN Fail(r)
     ELSE rd' = [rd EXCEPT ![r].node = child]
  /\ UNCHANGED <<nodes, root, op>>

\* The rows a leaf contributes: its keys in order, up to the first beyond hi.
Stop(n, c) == Min({i \in 1..(Len(nodes[n].keys) + 1) :
                     i <= Len(nodes[n].keys) => ~Below(c, nodes[n].keys[i])})
Hits(n, c) == {i \in 1..(Stop(n, c) - 1) : Above(c, nodes[n].keys[i])}
Found(n, c) == FlattenSeq([i \in 1..(Stop(n, c) - 1) |->
                            IF i \in Hits(n, c) THEN nodes[n].values[i] ELSE <<>>])

\* A mistake to catch: a range ends at the end of its leaf.
LastLeaf(n, c) == TRUE
Ends(n, c) == c.point \/ Stop(n, c) <= Len(nodes[n].keys) \/ nodes[n].next = Nil

ScanLeaf(r) ==
  LET n == rd[r].node
      c == rd[r].cond
  IN
  /\ rd[r].pc = "scan"
  /\ IF ~(Hits(n, c) \subseteq DOMAIN nodes[n].values) THEN Fail(r)
     ELSE rd' = [rd EXCEPT
            ![r].out = @ \o Found(n, c),
            ![r].pc = IF Ends(n, c) THEN "done" ELSE "scan",
            ![r].node = IF Ends(n, c) THEN n ELSE nodes[n].next]
  /\ UNCHANGED <<nodes, root, op>>

Return(r) ==
  /\ rd[r].pc \in {"done", "error"}
  /\ rd' = [rd EXCEPT ![r] = Idle]
  /\ UNCHANGED <<nodes, root, op>>

Read(r) == Descend(r) \/ ScanLeaf(r) \/ Return(r)

Next ==
  \/ \E w \in Writers : Write(w)
  \/ \E r \in Readers :
       \/ \E c \in Lookups : CallSearch(r, c)
       \/ Read(r)

\* A thread inside a lookup is scheduled again and again.
Spec == Init /\ [][Next]_vars /\ \A r \in Readers : WF_vars(Read(r))

-----------------------------------------------------------------------------
(***************************************************************************)
(* Properties.                                                             *)
(***************************************************************************)
Leaves == {n \in DOMAIN nodes : nodes[n].leaf}
AtRest == \A w \in Writers : op[w] = Idle

\* The value list of key i of leaf n, also while a writer is between the
\* insertion (removal) of the key and that of its value list.
Between(n, pc) == {op[w].at : w \in {v \in Writers : op[v].pc = pc /\ Here(v) = n}}
SettledKeys(n) ==
  IF Between(n, "value") = {} THEN nodes[n].keys
  ELSE RemoveAt(nodes[n].keys, CHOOSE i \in Between(n, "value") : TRUE)
SettledValues(n) ==
  IF Between(n, "popvalue") = {} THEN nodes[n].values
  ELSE RemoveAt(nodes[n].values, CHOOSE i \in Between(n, "popvalue") : TRUE)

Under(k) ==
  UNION {{SettledValues(n)[i] : i \in {j \in DOMAIN SettledKeys(n) : SettledKeys(n)[j] = k}}
           : n \in Leaves}
Held == [k \in Keys |-> IF Under(k) = {} THEN <<>> ELSE CHOOSE v \in Under(k) : TRUE]

\* With one writer at a time the tree is the map it stands for, at every step of
\* a split or a removal: no key and no row gets lost, doubled or moved to another
\* key (bplustree.py 52-198).
Map == INSTANCE SortedMultimap WITH held <- Held
ImplementsMultimap == Map!Spec

\* The leaf chain from the left, as far as there are leaves.
Chain ==
  LET left[n \in DOMAIN nodes] ==
        IF nodes[n].leaf THEN n ELSE left[nodes[n].children[1]]
      at[i \in 1..Cardinality(Leaves)] ==
        IF i = 1 THEN left[root]
        ELSE IF at[i - 1] = Nil THEN Nil ELSE nodes[at[i - 1]].next
  IN  [i \in 1..Cardinality(Leaves) |-> at[i]]

\* Between two operations the chain visits every leaf once, in key order, and
\* the way down from the root finds every key: range scans and lookups see the
\* whole index (bplustree.py 92-135).
RestingTreeIsSearchable ==
  AtRest =>
    /\ \A n \in Leaves : Contains(Chain, n)
    /\ nodes[Last(Chain)].next = Nil
    /\ LET all == FlattenSeq([i \in DOMAIN Chain |-> nodes[Chain[i]].keys])
       IN  \A i, j \in DOMAIN all : i < j => all[i] < all[j]
    /\ \A k \in Keys : Held[k] # <<>> => Has(Last(Path(k)).node, k)

\* Between two operations no node is over-full, inner nodes have one child more
\* than keys, and all leaves are equally deep (bplustree.py 61-111).
RestingTreeIsBalanced ==
  LET depth[n \in DOMAIN nodes] ==
        IF nodes[n].leaf THEN {0}
        ELSE {d + 1 : d \in UNION {depth[nodes[n].children[i]] : i \in DOMAIN nodes[n].children}}
  IN
  AtRest =>
    /\ \A n \in DOMAIN nodes :
         /\ Len(nodes[n].keys) < Order
         /\ nodes[n].leaf  => Len(nodes[n].values) = Len(nodes[n].keys)
         /\ ~nodes[n].leaf => Len(nodes[n].children) = Len(nodes[n].keys) + 1
    /\ Cardinality(depth[root]) = 1

\* The rows of the keys that meet condition c, in the order of the keys.
InOrder(S) == [i \in 1..Cardinality(S) |-> CHOOSE k \in S : Cardinality({x \in S : x < k}) = i - 1]
Answer(c) ==
  LET in == InOrder({k \in Keys : Above(c, k) /\ Below(c, k) /\ Held[k] # <<>>})
  IN  FlattenSeq([i \in DOMAIN in |-> Held[in[i]]])

\* A lookup that no writer's step falls into returns exactly the rows of its
\* keys, in key order, and never fails; only an overlapping one may miss rows,
\* return others or fail (bplustree.py 117-174 without a lock).
QuietLookupsAreExact ==
  \A r \in Readers : rd[r] # Idle /\ rd[r].quiet =>
    /\ rd[r].pc # "error"
    /\ rd[r].pc = "done" => rd[r].out = Answer(rd[r].cond)

\* Every lookup ends, however the writers go on splitting under it: the leaf
\* chain never leads back (range_search's loop, bplustree.py 158-174).
LookupsEnd == \A r \in Readers : rd[r] # Idle ~> rd[r] = Idle
=============================================================================
