----------------------------- MODULE OrderTree ------------------------------
(***************************************************************************)
(* packages/gnu-compat: the treap behind __gnu_pbds::tree, set form, as a  *)
(* heap of nodes with pointers.  A node is named by its key, 0 is nullptr  *)
(* and `cmp` is the order of numbers.  The pair (heap, node) that a        *)
(* function leaves behind is the record [heap, root].                      *)
(***************************************************************************)
EXTENDS Naturals, FiniteSets

CONSTANTS
    MaxKey,         \* keys are 1..MaxKey
    MaxPriority     \* priorities drawn are 1..MaxPriority, equal ones among them

ASSUME TreeAssumption == {MaxKey, MaxPriority} \subseteq Nat \ {0}

VARIABLES
    heap,       \* the nodes that are allocated, by key
    root,       \* root_
    keys        \* (history) the keys a set would hold

treeVars == <<heap, root, keys>>

NoNodes == [k \in {} |-> 0]

TreeInit == heap = NoNodes /\ root = 0 /\ keys = {}

SizeOf(h, n) == IF n = 0 THEN 0 ELSE h[n].size

WithParent(h, ns, p) == [k \in DOMAIN h |-> IF k \in ns THEN [h[k] EXCEPT !.parent = p] ELSE h[k]]

\* (mutation) The children keep the parent they had.
RefreshSizeOnly(h, n) ==
    [h EXCEPT ![n].size = 1 + SizeOf(h, h[n].left) + SizeOf(h, h[n].right)]

Refresh(h, n) ==
    LET sized == [h EXCEPT ![n].size = 1 + SizeOf(h, h[n].left) + SizeOf(h, h[n].right)]
    IN  WithParent(sized, {h[n].left, h[n].right}, n)

\* A pointer into the heap.
Pointers(h) == DOMAIN h \cup {0}

\* The node n, when s is what the call for one of its children left.
SplitAt(n, key, s) ==
    LET below == n < key
        linked == IF below THEN [s.heap EXCEPT ![n].right = s.lo]
                  ELSE [s.heap EXCEPT ![n].left = s.hi]
        lo == IF below THEN n ELSE s.lo
        hi == IF below THEN s.hi ELSE n
    IN  [heap |-> WithParent(Refresh(linked, n), {lo, hi}, 0), lo |-> lo, hi |-> hi]

\* Everything below `key`, and everything from it on.
Split(h, n, key) ==
    LET split[m \in Pointers(h)] ==
            IF m = 0 THEN [heap |-> h, lo |-> 0, hi |-> 0]
            ELSE SplitAt(m, key, split[IF m < key THEN h[m].right ELSE h[m].left])
    IN  split[n]

\* `lo` over what the merge of its right side and `hi` left, and the other way round.
LoOver(m, lo) ==
    [heap |-> WithParent(Refresh([m.heap EXCEPT ![lo].right = m.root], lo), {lo}, 0), root |-> lo]
HiOver(m, hi) ==
    [heap |-> WithParent(Refresh([m.heap EXCEPT ![hi].left = m.root], hi), {hi}, 0), root |-> hi]

Merge(h, lo, hi) ==
    LET merge[p \in Pointers(h) \X Pointers(h)] ==
            IF p[1] = 0 THEN [heap |-> h, root |-> p[2]]
            ELSE IF p[2] = 0 THEN [heap |-> h, root |-> p[1]]
            ELSE IF h[p[1]].priority > h[p[2]].priority
            THEN LoOver(merge[<<h[p[1]].right, p[2]>>], p[1])
            ELSE HiOver(merge[<<p[1], h[p[2]].left>>], p[2])
    IN  merge[<<lo, hi>>]

Leftmost(h, n) ==
    LET leftmost[m \in Pointers(h)] ==
            IF m = 0 THEN 0 ELSE IF h[m].left = 0 THEN m ELSE leftmost[h[m].left]
    IN  leftmost[n]

Rightmost(h, n) ==
    LET rightmost[m \in Pointers(h)] ==
            IF m = 0 THEN 0 ELSE IF h[m].right = 0 THEN m ELSE rightmost[h[m].right]
    IN  rightmost[n]

\* The first ancestor on whose right, or left, the node does not hang.
ClimbRight(h, n) ==
    LET climb[m \in DOMAIN h] ==
            IF h[m].parent # 0 /\ h[h[m].parent].right = m THEN climb[h[m].parent]
            ELSE h[m].parent
    IN  climb[n]

ClimbLeft(h, n) ==
    LET climb[m \in DOMAIN h] ==
            IF h[m].parent # 0 /\ h[h[m].parent].left = m THEN climb[h[m].parent]
            ELSE h[m].parent
    IN  climb[n]

Successor(h, n) ==
    IF n = 0 THEN 0
    ELSE IF h[n].right # 0 THEN Leftmost(h, h[n].right)
    ELSE ClimbRight(h, n)

Predecessor(h, n) ==
    IF h[n].left # 0 THEN Rightmost(h, h[n].left) ELSE ClimbLeft(h, n)

\* The iterator: end() is 0, and -- finds its way back from there.
PlusPlus(n) == Successor(heap, n)
MinusMinus(n) == IF n # 0 THEN Predecessor(heap, n) ELSE Rightmost(heap, root)

\* The nodes of a copy, under the given parent.
Clone(h, n, parent) ==
    LET clone[p \in Pointers(h) \X Pointers(h)] ==
            IF p[1] = 0 THEN NoNodes
            ELSE LET m == p[1]
                     left == clone[<<h[m].left, m>>]
                     right == clone[<<h[m].right, m>>]
                 IN  [k \in {m} \cup DOMAIN left \cup DOMAIN right |->
                         IF k = m THEN [h[m] EXCEPT !.parent = p[2]]
                         ELSE IF k \in DOMAIN left THEN left[k] ELSE right[k]]
    IN  clone[<<n, parent>>]

\* The nodes destroy() frees.
Destroy(h, n) == [k \in DOMAIN h \ DOMAIN Clone(h, n, 0) |-> h[k]]

\* A node without a left child is freed, its right child takes its place.
Freed(h, n) ==
    [heap |-> WithParent([k \in DOMAIN h \ {n} |-> h[k]], {h[n].right}, 0), root |-> h[n].right]

\* (mutation) Sizes are left as they were on the way back up.
RelinkedUnsized(e, n) ==
    [heap |-> WithParent(WithParent([e.heap EXCEPT ![n].left = e.root], {e.root}, n), {n}, 0),
     root |-> n]

\* The way back up: what is left of the left side is linked again.
Relinked(e, n) ==
    [heap |-> WithParent(Refresh([e.heap EXCEPT ![n].left = e.root], n), {n}, 0), root |-> n]

\* Frees the leftmost node.
EraseLeftmost(h, n) ==
    LET erased[m \in DOMAIN h] ==
            IF h[m].left = 0 THEN Freed(h, m) ELSE Relinked(erased[h[m].left], m)
    IN  erased[n]

-----------------------------------------------------------------------------
(* Queries, each a walk down from a node.                                   *)

Find(key) ==
    LET find[n \in Pointers(heap)] ==
            IF n = 0 \/ n = key THEN n
            ELSE find[IF key < n THEN heap[n].left ELSE heap[n].right]
    IN  find[root]

\* From each node, and the best that was met before it.
Bound(key, strict) ==
    LET bound[p \in Pointers(heap) \X Pointers(heap)] ==
            IF p[1] = 0 THEN p[2]
            ELSE IF p[1] < key \/ (strict /\ p[1] = key) THEN bound[<<heap[p[1]].right, p[2]>>]
            ELSE bound[<<heap[p[1]].left, p[1]>>]
    IN  bound[<<root, 0>>]

LowerBound(key) == Bound(key, FALSE)
UpperBound(key) == Bound(key, TRUE)

FindByOrder(k) ==
    LET find[p \in Pointers(heap) \X Nat] ==
            IF p[1] = 0 THEN 0
            ELSE LET left == SizeOf(heap, heap[p[1]].left)
                 IN  IF p[2] < left THEN find[<<heap[p[1]].left, p[2]>>]
                     ELSE IF p[2] = left THEN p[1]
                     ELSE find[<<heap[p[1]].right, p[2] - (left + 1)>>]
    IN  find[<<root, k>>]

OrderOfKey(key) ==
    LET rank[n \in Pointers(heap)] ==
            IF n = 0 THEN 0
            ELSE IF n < key THEN SizeOf(heap, heap[n].left) + 1 + rank[heap[n].right]
            ELSE rank[heap[n].left]
    IN  rank[root]

-----------------------------------------------------------------------------
(* Updates.                                                                 *)

Node(priority) == [priority |-> priority, size |-> 1, left |-> 0, right |-> 0, parent |-> 0]

\* What insert and erase leave: the merged tree, its root without a parent.
Settled(m) == heap' = WithParent(m.heap, {m.root}, 0) /\ root' = m.root

Insert(key, priority) ==
    /\ keys' = keys \cup {key}
    /\ IF Find(key) # 0 THEN UNCHANGED <<heap, root>>
       ELSE LET s == Split(heap, root, key)
                fresh == [k \in DOMAIN s.heap \cup {key} |->
                            IF k = key THEN Node(priority) ELSE s.heap[k]]
                below == Merge(fresh, s.lo, key)
            IN  Settled(Merge(below.heap, below.root, s.hi))

\* Splits and merges whether the key is there or not.
Erase(key) ==
    LET s == Split(heap, root, key)
        rest == IF Leftmost(s.heap, s.hi) = key THEN EraseLeftmost(s.heap, s.hi)
                ELSE [heap |-> s.heap, root |-> s.hi]
    IN  /\ keys' = keys \ {key}
        /\ Settled(Merge(rest.heap, s.lo, rest.root))

Empty == heap' = Destroy(heap, root) /\ root' = 0 /\ keys' = {}

\* A copy takes the original's place, which is destroyed.
Copy == heap' = Clone(heap, root, 0) /\ root' = root /\ keys' = keys

TreeNext ==
    \/ \E key \in 1..MaxKey : Erase(key) \/ \E p \in 1..MaxPriority : Insert(key, p)
    \/ Empty
    \/ Copy

TreeSpec == TreeInit /\ [][TreeNext]_treeVars

-----------------------------------------------------------------------------
(* Properties.                                                              *)

\* Pointers and sizes agree: a child is on its side and knows its parent, sizes
\* count the nodes below, no priority is below a child's, and every node that is
\* allocated hangs on the root, so that none leaks (ost.hpp 49-93).
TreeTypeOK ==
    /\ root = 0 <=> heap = NoNodes
    /\ root # 0 => heap[root].parent = 0
    /\ DOMAIN Clone(heap, root, 0) = DOMAIN heap
    /\ \A n \in DOMAIN heap :
          /\ heap[n].size = Cardinality(DOMAIN Clone(heap, n, 0))
          /\ \A m \in {heap[n].left, heap[n].right} \ {0} :
                heap[m].parent = n /\ heap[m].priority <= heap[n].priority

Above(key) == {k \in keys : k > key}
Below(key) == {k \in keys : k < key}
Least(S) == IF S = {} THEN 0 ELSE CHOOSE k \in S : \A j \in S : k <= j
Greatest(S) == IF S = {} THEN 0 ELSE CHOOSE k \in S : \A j \in S : j <= k

\* After any inserts, erases, copies and clears every query, and every step of an
\* iterator, answers as the sorted set of keys would (assoc_container.hpp 105-223).
AnswersLikeASet ==
    /\ \A key \in 0..(MaxKey + 1) :
          /\ Find(key) = IF key \in keys THEN key ELSE 0
          /\ LowerBound(key) = Least(keys \ Below(key))
          /\ UpperBound(key) = Least(Above(key))
          /\ OrderOfKey(key) = Cardinality(Below(key))
    /\ \A k \in 0..MaxKey :
          FindByOrder(k) = Least({key \in keys : Cardinality(Below(key)) = k})
    /\ SizeOf(heap, root) = Cardinality(keys) /\ Leftmost(heap, root) = Least(keys)
    /\ \A key \in keys : PlusPlus(key) = Least(Above(key)) /\ MinusMinus(key) = Greatest(Below(key))
    /\ MinusMinus(0) = Greatest(keys)

=============================================================================
