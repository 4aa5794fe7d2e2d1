---------------------------- MODULE AbstractLru ----------------------------
(* What TinyLinkedLruCache promises: a sequence of entries, the least       *)
(* recently used one first, that never grows beyond its capacity.           *)
EXTENDS Naturals, SequencesExt

CONSTANTS LruKey, LruValue, Slots

VARIABLE order    \* entries [key, value], least recently used first

Has(k) == \E i \in DOMAIN order : order[i].key = k
PlaceOf(k) == CHOOSE i \in DOMAIN order : order[i].key = k
EntryOf(k) == order[PlaceOf(k)]
Without(k) == IF Has(k) THEN RemoveAt(order, PlaceOf(k)) ELSE order

LruInit == order = <<>>

LruGet(k) ==
  /\ Has(k)
  /\ order' = Append(Without(k), EntryOf(k))

LruPut(k, v) ==
  /\ Slots > 0
  /\ order' = Append(IF ~Has(k) /\ Len(order) = Slots THEN Tail(order) ELSE Without(k),
                     [key |-> k, value |-> v])

LruNext == \E k \in LruKey : LruGet(k) \/ \E v \in LruValue : LruPut(k, v)

LruSpec == LruInit /\ [][LruNext]_order
=============================================================================
