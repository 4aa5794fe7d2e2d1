------------------------------- MODULE Cache -------------------------------
(* The two caches of the object store: TinyLinkedLruCache, a doubly linked  *)
(* list threaded through a fixed array of slots, and WeightedLruCache, an   *)
(* LRU queue under a budget of bytes.                                       *)
EXTENDS Integers, Sequences, FiniteSets

CONSTANTS
  LruKey,      \* hashes
  LruValue,    \* sizes of cached blobs; the size stands for the bytes
  Slots,       \* N, the slots of the tiny cache
  Capacity     \* capacity_bytes of the weighted cache

ASSUME CacheAssumption ==
  /\ LruValue \subseteq Nat
  /\ Slots \in Nat
  /\ Capacity \in Nat

VARIABLES
  slots, index, headSlot, tailSlot, free,    \* the tiny cache
  entries, lru, used                         \* the weighted cache

tiny == <<slots, index, headSlot, tailSlot, free>>
weighted == <<entries, lru, used>>
cacheVars == <<tiny, weighted>>

NoSlot == 0
Vacant == [key |-> NoSlot, value |-> 0, prev |-> NoSlot, next |-> NoSlot]
NoIndex == [k \in {} |-> NoSlot]

CacheInit ==
  /\ slots = [i \in 1..Slots |-> Vacant]
  /\ index = NoIndex
  /\ headSlot = NoSlot
  /\ tailSlot = NoSlot
  /\ free = [i \in 1..Slots |-> Slots + 1 - i]
  /\ entries = NoIndex
  /\ lru = <<>>
  /\ used = 0

-----------------------------------------------------------------------------
(* TinyLinkedLruCache.  A list is [slots, head, tail].                       *)

List == [slots |-> slots, head |-> headSlot, tail |-> tailSlot]

\* Sets a link of a slot, when there is one.
Link(s, i, field, j) == IF i = NoSlot THEN s ELSE [s EXCEPT ![i][field] = j]

\* Mutant: detach leaves the head pointer alone.
detach_keeps_head(l, i) ==
  LET e == l.slots[i]
      s == Link(Link(l.slots, e.prev, "next", e.next), e.next, "prev", e.prev)
  IN [slots |-> [s EXCEPT ![i].prev = NoSlot, ![i].next = NoSlot],
      head |-> l.head,
      tail |-> IF l.tail = i THEN e.prev ELSE l.tail]

detach(l, i) ==
  LET e == l.slots[i]
      s == Link(Link(l.slots, e.prev, "next", e.next), e.next, "prev", e.prev)
  IN [slots |-> [s EXCEPT ![i].prev = NoSlot, ![i].next = NoSlot],
      head |-> IF l.head = i THEN e.next ELSE l.head,
      tail |-> IF l.tail = i THEN e.prev ELSE l.tail]

push_back(l, i) ==
  [slots |-> [Link(l.slots, l.tail, "next", i) EXCEPT ![i].prev = l.tail, ![i].next = NoSlot],
   head |-> IF l.tail = NoSlot THEN i ELSE l.head,
   tail |-> i]

move_to_back(l, i) == IF l.tail = i THEN l ELSE push_back(detach(l, i), i)

SetList(l) ==
  /\ slots' = l.slots
  /\ headSlot' = l.head
  /\ tailSlot' = l.tail

TinyGet(k) ==
  IF k \notin DOMAIN index THEN UNCHANGED tiny
  ELSE SetList(move_to_back(List, index[k])) /\ UNCHANGED <<index, free>>

\* A full cache gives up the slot at the head of the list.
allocate_slot ==
  IF free # <<>>
  THEN [slot |-> free[Len(free)], free |-> SubSeq(free, 1, Len(free) - 1),
        list |-> List, index |-> index]
  ELSE [slot |-> headSlot, free |-> free, list |-> detach(List, headSlot),
        index |-> [k \in DOMAIN index \ {slots[headSlot].key} |-> index[k]]]

TinyInsert(k, v) ==
  LET a == allocate_slot
      s == [a.list.slots EXCEPT ![a.slot] = [Vacant EXCEPT !.key = k, !.value = v]]
  IN /\ SetList(push_back([a.list EXCEPT !.slots = s], a.slot))
     /\ index' = [x \in DOMAIN a.index \cup {k} |-> IF x = k THEN a.slot ELSE a.index[x]]
     /\ free' = a.free

TinyPut(k, v) ==
  CASE Slots = 0 -> UNCHANGED tiny
    [] k \in DOMAIN index ->
         /\ SetList(move_to_back([List EXCEPT !.slots[index[k]].value = v], index[k]))
         /\ UNCHANGED <<index, free>>
    [] OTHER -> TinyInsert(k, v)

-----------------------------------------------------------------------------
(* WeightedLruCache.                                                         *)

Others(f, k) == [x \in DOMAIN f \ {k} |-> f[x]]

\* retain(|x| x != k).
Except(q, k) ==
  LET Kept[n \in 0..Len(q)] ==
        IF n = 0 THEN <<>> ELSE IF q[n] = k THEN Kept[n - 1] ELSE Append(Kept[n - 1], q[n])
  IN Kept[Len(q)]

\* One turn of the loop of evict_until: the oldest key goes, if there is no room.
pop_front(c, incoming) ==
  IF c.used + incoming <= Capacity \/ c.lru = <<>> THEN c
  ELSE [entries |-> Others(c.entries, Head(c.lru)), lru |-> Tail(c.lru),
        used |-> c.used - c.entries[Head(c.lru)]]

evict_until(c, incoming) ==
  LET Turn[n \in 0..Len(c.lru)] == IF n = 0 THEN c ELSE pop_front(Turn[n - 1], incoming)
  IN Turn[Len(c.lru)]

replaced(k) == IF k \in DOMAIN entries THEN used - entries[k] ELSE used

WeightedGet(k) ==
  /\ IF k \in DOMAIN entries THEN lru' = Append(Except(lru, k), k) ELSE UNCHANGED lru
  /\ UNCHANGED <<entries, used>>

WeightedPut(k, v) ==
  IF v > Capacity THEN UNCHANGED weighted
  ELSE LET r == evict_until([entries |-> Others(entries, k), lru |-> Except(lru, k), used |-> replaced(k)], v)
       IN /\ entries' = [x \in DOMAIN r.entries \cup {k} |-> IF x = k THEN v ELSE r.entries[x]]
          /\ lru' = Append(r.lru, k)
          /\ used' = r.used + v

-----------------------------------------------------------------------------
TinyCall == \E k \in LruKey : TinyGet(k) \/ \E v \in LruValue : TinyPut(k, v)
WeightedCall == \E k \in LruKey : WeightedGet(k) \/ \E v \in LruValue : WeightedPut(k, v)

CacheNext == (TinyCall /\ UNCHANGED weighted) \/ (WeightedCall /\ UNCHANGED tiny)

CacheSpec == CacheInit /\ [][CacheNext]_cacheVars

-----------------------------------------------------------------------------
(* Properties.                                                               *)

\* The slots met on the way from the head, at most Slots of them.
Chain ==
  LET Walk[n \in 0..Slots] ==
        IF n = 0 THEN [at |-> headSlot, met |-> <<>>]
        ELSE LET w == Walk[n - 1]
             IN IF w.at = NoSlot THEN w ELSE [at |-> slots[w.at].next, met |-> Append(w.met, w.at)]
  IN Walk[Slots].met

Order == LET c == Chain IN [i \in 1..Len(c) |-> [key |-> slots[c[i]].key, value |-> slots[c[i]].value]]

Lru == INSTANCE AbstractLru WITH
         order <- Order

\* The linked list through the slots behaves as a queue ordered by last use:
\* detach, push_back and allocate_slot lose no entry and evict the oldest.
TinyIsLru == Lru!LruSpec

\* What the keys of a queue weigh.
Total(q, e) ==
  LET Sum[n \in 0..Len(q)] == IF n = 0 THEN 0 ELSE Sum[n - 1] + e[q[n]]
  IN Sum[Len(q)]

\* The budget is kept: used_bytes is the sum of the sizes of what is cached
\* (not of what was), at most the capacity, and the queue names each key once.
WeightedInBudget ==
  /\ {lru[i] : i \in DOMAIN lru} = DOMAIN entries
  /\ Len(lru) = Cardinality(DOMAIN entries)
  /\ used = Total(lru, entries)
  /\ used <= Capacity

\* The caches lose nothing they have room for, and hold no more.
CachesAreLru == []WeightedInBudget /\ TinyIsLru
=============================================================================
