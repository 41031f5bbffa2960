----------------------------- MODULE HeapQueue -----------------------------
(***************************************************************************)
(* core.PriorityQueue as it is built: a binary heap of items kept by       *)
(* container/heap, each item knowing its own position, and a lookup table  *)
(* from key to item.  Drop and Update find an item by key and trust the    *)
(* position it carries.                                                    *)
(*                                                                         *)
(* Positions start at 1 here, so the children of i are 2i and 2i+1.        *)
(***************************************************************************)
EXTENDS Integers, Sequences, FiniteSets

CONSTANTS Keys, Values, Priorities, Absent

ASSUME QueueConstants == Priorities \subseteq Int

VARIABLES
  heap,     \* tq.queue: the keys of the items in heap order
  lookup,   \* tq.lookup: key -> the item's value, priority and index
  result    \* what the last call returned

heapVars == <<heap, lookup, result>>

Heaped == {heap[i] : i \in DOMAIN heap}

HeapTypeOK ==
  /\ heap \in Seq(Keys)
  /\ DOMAIN lookup \subseteq Keys
  /\ lookup \in [DOMAIN lookup -> [value : Values, priority : Priorities, index : Nat]]

-----------------------------------------------------------------------------
\* container/heap over the pair of the heap and its items.

Less(s, i, j) == s.items[s.heap[i]].priority > s.items[s.heap[j]].priority

\* priorityQueue.Swap.
Swap(s, i, j) ==
  [heap |-> [s.heap EXCEPT ![i] = s.heap[j], ![j] = s.heap[i]],
   items |-> [k \in DOMAIN s.items |->
                CASE k = s.heap[j] -> [s.items[k] EXCEPT !.index = i]
                  [] k = s.heap[i] /\ i # j -> [s.items[k] EXCEPT !.index = j]
                  [] OTHER -> s.items[k]]]

\* The loops of up and down carry the position of the item they sift, and end
\* for lack of positions at the latest.
At(s, i) == [heap |-> s.heap, items |-> s.items, at |-> i]

UpTurn(s) ==
  LET parent == s.at \div 2
  IN  IF s.at > 1 /\ Less(s, s.at, parent) THEN At(Swap(s, parent, s.at), parent) ELSE s

Up(s, i) ==
  LET turn[k \in Nat] == IF k = 0 THEN At(s, i) ELSE UpTurn(turn[k - 1])
  IN  turn[Len(s.heap)]

\* Sift down within the first n positions.
DownTurn(s, n) ==
  LET left  == 2 * s.at
      right == left + 1
      child == IF right <= n /\ Less(s, right, left) THEN right ELSE left
  IN  IF left <= n /\ Less(s, child, s.at) THEN At(Swap(s, s.at, child), child) ELSE s

Down(s, i, n) ==
  LET turn[k \in Nat] == IF k = 0 THEN At(s, i) ELSE DownTurn(turn[k - 1], n)
  IN  turn[Len(s.heap)]

\* "if !down(h, i, n) { up(h, i) }": down reports whether the item has moved.
Settle_DownOnlyBug(s, i, n) == Down(s, i, n)
Settle(s, i, n) ==
  LET d == Down(s, i, n) IN IF d.at > i THEN d ELSE Up(s, i)

\* priorityQueue.Pop: cut the last item off, and the delete from the lookup
\* table that follows every heap.Remove and heap.Pop.
CutLast(s) ==
  LET last == s.heap[Len(s.heap)]
  IN  [heap |-> SubSeq(s.heap, 1, Len(s.heap) - 1),
       items |-> [k \in DOMAIN s.items \ {last} |-> s.items[k]]]

RemoveAt(s, i) ==
  LET n == Len(s.heap) - 1
  IN  CutLast(IF i = n + 1 THEN s ELSE Settle(Swap(s, i, n + 1), i, n))

PopRoot_NoSiftBug(s) == CutLast(Swap(s, 1, Len(s.heap)))
PopRoot(s) ==
  LET n == Len(s.heap) - 1 IN CutLast(Down(Swap(s, 1, n + 1), 1, n))

-----------------------------------------------------------------------------
Current == [heap |-> heap, items |-> lookup]
Becomes(s) == heap' = s.heap /\ lookup' = s.items
Known == DOMAIN lookup

HeapInit ==
  /\ heap = <<>>
  /\ lookup = [k \in {} |-> Absent]
  /\ result = Absent

Push(k, v, p) ==
  /\ k \in Keys
  /\ result' = (k \notin Known)
  /\ IF k \in Known
     THEN UNCHANGED <<heap, lookup>>
     ELSE LET n == Len(heap) + 1
              it == [value |-> v, priority |-> p, index |-> n]
          IN  Becomes(Up([heap |-> Append(heap, k),
                          items |-> [j \in Known \cup {k} |-> IF j = k THEN it ELSE lookup[j]]],
                         n))

Update(k, v, p) ==
  /\ result' = (k \in Known)
  /\ IF k \in Known
     THEN Becomes(Settle([Current EXCEPT !.items[k].value = v, !.items[k].priority = p],
                         lookup[k].index, Len(heap)))
     ELSE UNCHANGED <<heap, lookup>>

UpdatePriority(k, p) ==
  /\ result' = (k \in Known)
  /\ IF k \in Known /\ lookup[k].priority # p
     THEN Becomes(Settle([Current EXCEPT !.items[k].priority = p], lookup[k].index, Len(heap)))
     ELSE UNCHANGED <<heap, lookup>>

Drop(k) ==
  /\ result' = (k \in Known)
  /\ IF k \in Known THEN Becomes(RemoveAt(Current, lookup[k].index))
                    ELSE UNCHANGED <<heap, lookup>>

Pop ==
  IF heap = <<>>
  THEN result' = Absent /\ UNCHANGED <<heap, lookup>>
  ELSE result' = lookup[heap[1]].value /\ Becomes(PopRoot(Current))

Peek ==
  /\ result' = IF heap = <<>> THEN Absent ELSE lookup[heap[1]].value
  /\ UNCHANGED <<heap, lookup>>

HeapNext ==
  \/ \E k \in Keys, v \in Values, p \in Priorities : Push(k, v, p) \/ Update(k, v, p)
  \/ \E k \in Keys, p \in Priorities : UpdatePriority(k, p)
  \/ \E k \in Keys : Drop(k)
  \/ Pop
  \/ Peek

HeapSpec == HeapInit /\ [][HeapNext]_heapVars

-----------------------------------------------------------------------------
\* The position an item carries is where it is, as Drop and Update act on the
\* item found by key at the position it was last moved to, and the heap order
\* holds, which an update or a removal in the middle must restore in whichever
\* direction it was broken: over any sequence of calls.
HeapIsSound ==
  /\ HeapTypeOK
  /\ Heaped = Known /\ Len(heap) = Cardinality(Known)
  /\ \A k \in Known : heap[lookup[k].index] = k
  /\ \A i \in 2..Len(heap) : lookup[heap[i \div 2]].priority >= lookup[heap[i]].priority

PQ == INSTANCE PriorityQueue
        WITH content <- [k \in DOMAIN lookup |->
                          [value |-> lookup[k].value, priority |-> lookup[k].priority]]

\* The heap with its lookup table is a priority queue with unique keys.
ImplementsPriorityQueue == PQ!PQSpec
=============================================================================
