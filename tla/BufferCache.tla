----------------------------- MODULE BufferCache ------------------------------
(***************************************************************************)
(* BufferCache (mlx/backend/common/buffer_cache.h): the free buffers of an   *)
(* allocator, in a doubly linked list by time and in a multimap by length.   *)
(* The allocator calls it with its mutex held, so a call is one step; the    *)
(* loop of release_cached_buffers takes one step for each buffer it frees.   *)
(***************************************************************************)
EXTENDS FreeBuffers, FiniteSets

CONSTANTS
  Null,     \* nullptr
  MinBytes  \* the amounts clients ask release_cached_buffers for

ASSUME BufferCacheAssumption ==
  IsFiniteSet(Buffer) /\ Null \notin Buffer /\ MinBytes \subseteq Nat

VARIABLES
  head, tail,  \* of the list, or Null
  prev, next,  \* the links of the BufferHolder of each buffer
  index,       \* buffer_pool_: the buffers, shortest first, oldest first among equals
  poolSize,    \* pool_size_
  call,        \* the loop of release_cached_buffers, when "on"
  exists,      \* the buffers the driver has made and not released
  numResources \* the allocator's count of them (num_resources_)

cacheVars == <<head, tail, prev, next, index, poolSize, call, exists, numResources>>

Cached == ToSet(index)

NoCall == [on |-> FALSE, min |-> 0, total |-> 0, released |-> 0]

CacheTypeOK ==
  /\ {head, tail} \subseteq Buffer \cup {Null}
  /\ {prev, next} \subseteq [Buffer -> Buffer \cup {Null}]
  /\ index \in Seq(Buffer)
  /\ poolSize \in Nat
  /\ call \in [on : BOOLEAN, min : Nat, total : Nat, released : Nat]
  /\ exists \subseteq Buffer
  /\ numResources \in Nat

CacheInit ==
  /\ head = Null /\ tail = Null
  /\ prev = [b \in Buffer |-> Null]
  /\ next = [b \in Buffer |-> Null]
  /\ index = <<>>
  /\ poolSize = 0
  /\ call = NoCall
  /\ exists = {}
  /\ numResources = 0

-----------------------------------------------------------------------------
(* The list.  A holder that is deleted leaves links nobody may read again;   *)
(* they are cleared here.                                                    *)
AddAtHead(b) ==
  /\ head' = b
  /\ tail' = IF head = Null THEN b ELSE tail
  /\ prev' = IF head = Null THEN prev ELSE [prev EXCEPT ![head] = b]
  /\ next' = IF head = Null THEN next ELSE [next EXCEPT ![b] = head]

Middle(b) ==
  /\ prev[b] # Null /\ next[b] # Null
  /\ next' = [next EXCEPT ![prev[b]] = next[b], ![b] = Null]
  /\ prev' = [prev EXCEPT ![next[b]] = prev[b], ![b] = Null]
  /\ UNCHANGED <<head, tail>>

(* Wrong variants, each before the step it would replace, with which the     *)
(* properties are put to the test (the mutants of PROJECT.json).             *)
AtTailDangling(b) ==
  /\ prev[b] # Null /\ next[b] = Null /\ b = tail
  /\ tail' = prev[b]
  /\ prev' = [prev EXCEPT ![b] = Null]
  /\ UNCHANGED <<head, next>>

AtTail(b) ==
  /\ prev[b] # Null /\ next[b] = Null /\ b = tail
  /\ tail' = prev[b]
  /\ next' = [next EXCEPT ![prev[b]] = Null]
  /\ prev' = [prev EXCEPT ![b] = Null]
  /\ UNCHANGED head

AtHead(b) ==
  /\ prev[b] = Null /\ next[b] # Null /\ b = head
  /\ head' = next[b]
  /\ prev' = [prev EXCEPT ![next[b]] = Null]
  /\ next' = [next EXCEPT ![b] = Null]
  /\ UNCHANGED tail

OnlyOne(b) ==
  /\ prev[b] = Null /\ next[b] = Null /\ b = head /\ b = tail
  /\ head' = Null /\ tail' = Null
  /\ UNCHANGED <<prev, next>>

RemoveFromList(b) == Middle(b) \/ AtTail(b) \/ AtHead(b) \/ OnlyOne(b)

(* multimap::emplace puts an element behind the equal ones;                  *)
(* lower_bound finds the first that is not shorter than the size.            *)
EmplaceFirst(b) ==
  LET shorter == Cardinality({i \in DOMAIN index : Length[index[i]] < Length[b]})
  IN  index' = InsertAt(index, shorter + 1, b)

Emplace(b) ==
  LET notLonger == Cardinality({i \in DOMAIN index : Length[index[i]] <= Length[b]})
  IN  index' = InsertAt(index, notLonger + 1, b)

LowerBound(size, i) ==
  /\ i \in DOMAIN index
  /\ size <= Length[index[i]]
  /\ \A j \in 1..(i - 1) : Length[index[j]] < size

-----------------------------------------------------------------------------
(* The allocator makes a buffer when the cache has none that fits.           *)
NewBuffer(b) ==
  /\ ~call.on
  /\ b \notin exists
  /\ exists' = exists \cup {b}
  /\ numResources' = numResources + 1
  /\ UNCHANGED <<head, tail, prev, next, index, poolSize, call>>

RecycleToCache(b) ==
  /\ ~call.on
  /\ b \in exists \ Cached
  /\ AddAtHead(b)
  /\ Emplace(b)
  /\ poolSize' = poolSize + Length[b]
  /\ UNCHANGED <<call, exists, numResources>>

ReuseFromCache(size) ==
  /\ ~call.on
  /\ \E i \in DOMAIN index :
       /\ LowerBound(size, i)
       /\ Fits(Length[index[i]], size)
       /\ RemoveFromList(index[i])
       /\ index' = RemoveAt(index, i)
       /\ poolSize' = poolSize - Length[index[i]]
  /\ UNCHANGED <<call, exists, numResources>>

ClearAll ==
  /\ exists' = exists \ Cached
  /\ numResources' = numResources - Len(index)
  /\ head' = Null /\ tail' = Null
  /\ prev' = [b \in Buffer |-> Null]
  /\ next' = [b \in Buffer |-> Null]
  /\ index' = <<>>
  /\ poolSize' = 0

Clear ==
  /\ ~call.on
  /\ ClearAll
  /\ UNCHANGED call

ReleaseMost(min) ==
  /\ ~call.on
  /\ 10 * min >= 9 * poolSize
  /\ ClearAll
  /\ UNCHANGED call

ReleaseSome(min) ==
  /\ ~call.on
  /\ 10 * min < 9 * poolSize
  /\ call' = [on |-> TRUE, min |-> min, total |-> 0, released |-> 0]
  /\ UNCHANGED <<head, tail, prev, next, index, poolSize, exists, numResources>>

ReleaseTail ==
  /\ call.on
  /\ tail # Null
  /\ call.total < call.min
  /\ call' = [call EXCEPT !.total = @ + Length[tail], !.released = @ + 1]
  /\ exists' = exists \ {tail}
  /\ \E i \in DOMAIN index : index[i] = tail /\ index' = RemoveAt(index, i)
  /\ RemoveFromList(tail)
  /\ UNCHANGED <<poolSize, numResources>>

ReleaseReturn ==
  /\ call.on
  /\ tail = Null \/ call.total >= call.min
  /\ poolSize' = poolSize - call.total
  /\ numResources' = numResources - call.released
  /\ call' = NoCall
  /\ UNCHANGED <<head, tail, prev, next, index, exists>>

CacheNext ==
  \/ \E b \in Buffer : NewBuffer(b) \/ RecycleToCache(b)
  \/ \E size \in Request : ReuseFromCache(size)
  \/ Clear
  \/ \E min \in MinBytes : ReleaseMost(min) \/ ReleaseSome(min)
  \/ ReleaseTail
  \/ ReleaseReturn

CacheSpec == CacheInit /\ [][CacheNext]_cacheVars

-----------------------------------------------------------------------------
(* The buffers met from b on, following the links of one direction, as far   *)
(* as there are buffers.                                                     *)
Walk(b, link) ==
  LET step[n \in 0..Cardinality(Buffer)] ==
        [c \in Buffer \cup {Null} |->
           IF n = 0 \/ c = Null THEN <<>> ELSE <<c>> \o step[n - 1][link[c]]]
  IN  step[Cardinality(Buffer)][b]

(* The list read from the head, the list read backwards from the tail and    *)
(* the multimap hold the same buffers, each once: what release_cached_buffers *)
(* looks up in the multimap is there, and what reuse_from_cache unlinks is in *)
(* the list.                                                                 *)
ListMatchesIndex ==
  LET order == Walk(head, next)
  IN  /\ order = Reverse(Walk(tail, prev))
      /\ ToSet(order) = Cached
      /\ Len(order) = Len(index)
      /\ Cardinality(Cached) = Len(index)

(* pool_size_ and num_resources_ are exact between calls; during the loop    *)
(* of release_cached_buffers the difference is what the loop has freed.      *)
PoolAccounts ==
  /\ poolSize = Bytes(index) + call.total
  /\ numResources = Cardinality(exists) + call.released

(* A buffer in the cache has not been released to the driver.                *)
NoneReleased == Cached \subseteq exists

(* List, multimap, totals and the driver agree, in the middle of             *)
(* release_cached_buffers too.                                               *)
Coherent == CacheTypeOK /\ ListMatchesIndex /\ PoolAccounts /\ NoneReleased

(* The cache is a list from which requests take the best fit, oldest first   *)
(* among equals, and whose oldest buffers are released first.                *)
Ordered == INSTANCE FreeList WITH list <- Walk(head, next)
FreeListSpec == Ordered!Spec

=============================================================================
