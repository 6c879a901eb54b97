---------------------------- MODULE MetalAllocator ----------------------------
(***************************************************************************)
(* MetalAllocator and ResidencySet (mlx/backend/metal/allocator.cpp,         *)
(* resident.cpp).  Threads allocate and free buffers; mutex_ makes each      *)
(* critical section one step, but malloc lets go of it to ask the driver for *)
(* a buffer, and free hands a buffer to the driver after it has let go.  The *)
(* cache is the list of FreeBuffers that BufferCache implements; peak memory *)
(* and block_limit_, which no decision depends on, are left out.             *)
(***************************************************************************)
EXTENDS FreeBuffers, FiniteSets

CONSTANTS
  Thread,        \* the threads that allocate and free
  OnHeap,        \* the buffers that are part of heap_
  External,      \* the buffers made of client memory by make_buffer
  SmallSize,     \* small_size_
  Heap,          \* heap_, one allocation of the residency set
  HeapSize,      \* its size
  ResourceLimit, \* resource_limit_
  WorkingSet,    \* 95 % of the recommended working set: the most gc_limit_ can be
  CacheLimits, MemoryLimits, WiredLimits,  \* the limits that clients set
  SizeMod        \* size_t arithmetic is modulo this

ASSUME MetalAllocatorAssumption ==
  /\ IsFiniteSet(Thread) /\ Thread # {} /\ IsFiniteSet(Buffer)
  /\ OnHeap \subseteq Buffer
  /\ External \subseteq Buffer \ OnHeap
  /\ Heap \notin Buffer
  /\ HeapSize \in Nat /\ SmallSize \in Nat
  /\ ResourceLimit \in Nat /\ WorkingSet \in Nat /\ SizeMod \in Nat \ {0}
  /\ CacheLimits \subseteq Nat /\ MemoryLimits \subseteq Nat /\ WiredLimits \subseteq Nat

VARIABLES
  want,         \* for each thread, the size it is asking the driver for, or 0
  threw,        \* the threads whose malloc has thrown and not been caught
  doomed,       \* for each thread, the buffer it is handing to the driver, if any
  alive,        \* the buffers the driver has made and not taken back
  uses,         \* the requests each buffer serves, one for each client that holds it
  cached,       \* buffer_cache_
  active,       \* active_memory_
  resources,    \* num_resources_
  maxPool,      \* max_pool_size_
  gcLimit,      \* gc_limit_
  resident      \* residency_set_: wired_set_, unwired_set_ and capacity_

accounts == <<active, resources>>
limits == <<maxPool, gcLimit>>
vars == <<want, threw, doomed, alive, uses, cached, accounts, limits, resident>>

InUse == {b \in Buffer : uses[b] # <<>>}
Doomed == {b \in Buffer : \E t \in Thread : b \in doomed[t]}

TypeOK ==
  /\ want \in [Thread -> Nat]
  /\ threw \subseteq Thread
  /\ doomed \in [Thread -> SUBSET Buffer]
  /\ alive \subseteq Buffer
  /\ uses \in [Buffer -> Seq(Nat)]
  /\ cached \in Seq(Buffer)
  /\ active \in Nat /\ resources \in Nat
  /\ maxPool \in Nat /\ gcLimit \in Nat
  /\ resident \in [wired : SUBSET (Buffer \cup {Heap}),
                   unwired : SUBSET (Buffer \cup {Heap}), capacity : Nat]

Init ==
  /\ want = [t \in Thread |-> 0]
  /\ threw = {}
  /\ doomed = [t \in Thread |-> {}]
  /\ alive = {}
  /\ uses = [b \in Buffer |-> <<>>]
  /\ cached = <<>>
  /\ active = 0 /\ resources = 0
  /\ maxPool \in CacheLimits
  /\ gcLimit = WorkingSet
  /\ resident = [wired |-> {}, unwired |-> {Heap}, capacity |-> 0]

Free(t) == want[t] = 0 /\ doomed[t] = {} /\ t \notin threw

-----------------------------------------------------------------------------
(* ResidencySet.  Allocations beyond the capacity are remembered in          *)
(* unwired_set_; a set that grows takes up the ones that fit, in any order,  *)
(* and one that shrinks drops allocations, in any order, until it fits.      *)
Size(S) == MapThenSumSet(LAMBDA a : IF a = Heap THEN HeapSize ELSE Length[a], S)

Insert(r, b) ==
  IF Size(r.wired) + Length[b] <= r.capacity
  THEN [r EXCEPT !.wired = @ \cup {b}]
  ELSE [r EXCEPT !.unwired = @ \cup {b}]

Erase(r, S) == [r EXCEPT !.wired = @ \ (S \ r.unwired), !.unwired = @ \ S]

Grow(r, size) ==
  LET Fill(S) ==
        /\ Size(r.wired \cup S) <= size
        /\ \A a \in r.unwired \ S : Size(r.wired \cup S \cup {a}) > size
  IN  {[wired |-> r.wired \cup S, unwired |-> r.unwired \ S, capacity |-> size] :
         S \in {T \in SUBSET r.unwired : Fill(T)}}

Shrink(r, size) ==
  LET Drop(S) ==
        /\ Size(r.wired \ S) <= size
        /\ \E a \in S : Size((r.wired \ S) \cup {a}) > size
  IN  {[wired |-> r.wired \ S, unwired |-> r.unwired \cup S, capacity |-> size] :
         S \in {T \in SUBSET r.wired : Drop(T)}}

Resize(r, size) ==
  IF r.capacity = size \/ Size(r.wired) = size THEN {[r EXCEPT !.capacity = size]}
  ELSE IF Size(r.wired) < size THEN Grow(r, size)
  ELSE Shrink(r, size)

(* A buffer of the heap is resident with it.                                 *)
InsertBuffer(r, b) == IF b \in OnHeap THEN r ELSE Insert(r, b)
EraseBuffers(r, S) == Erase(r, S \ OnHeap)

-----------------------------------------------------------------------------
Align(size) ==
  IF size > PageSize THEN PageSize * ((size + PageSize - 1) \div PageSize) ELSE size

Minus(a, b) == (a - b) % SizeMod

(* What the buffers and one more request take together fits size_t.          *)
ASSUME SizesFit ==
  /\ Size(Buffer) < SizeMod
  /\ \A size \in Request : Size(Buffer) + Align(size) < SizeMod

(* The last part of malloc: the cache is trimmed to max_pool_size_.          *)
Trimmed(list) ==
  IF Bytes(list) > maxPool THEN Released(list, Minus(Bytes(list), maxPool)) ELSE list

(* The buffers a list has lost go back to the driver.                        *)
Lost(from, to) == ToSet(from) \ ToSet(to)

MallocCachedKept(t, size) ==
  /\ Free(t)
  /\ \E i \in DOMAIN cached :
       LET b == cached[i]
           rest == cached
           lost == Lost(rest, Trimmed(rest))
       IN  /\ BestFit(cached, Align(size), i)
           /\ uses' = [uses EXCEPT ![b] = Append(@, size)]
           /\ active' = active + Length[b]
           /\ cached' = Trimmed(rest)
           /\ resources' = resources - Cardinality(lost)
           /\ alive' = alive \ lost
           /\ resident' = EraseBuffers(resident, lost)
  /\ UNCHANGED <<want, threw, doomed, limits>>

(* malloc finds a buffer in the cache.                                       *)
MallocCached(t, size) ==
  /\ Free(t)
  /\ \E i \in DOMAIN cached :
       LET b == cached[i]
           rest == RemoveAt(cached, i)
           lost == Lost(rest, Trimmed(rest))
       IN  /\ BestFit(cached, Align(size), i)
           /\ uses' = [uses EXCEPT ![b] = Append(@, size)]
           /\ active' = active + Length[b]
           /\ cached' = Trimmed(rest)
           /\ resources' = resources - Cardinality(lost)
           /\ alive' = alive \ lost
           /\ resident' = EraseBuffers(resident, lost)
  /\ UNCHANGED <<want, threw, doomed, limits>>

RequiredActive(size) == active + Align(size)

(* Memory pressure: the cache gives up what exceeds gc_limit_, as a size_t.  *)
Required(size) == active + Bytes(cached) + Align(size)

Pressure(size) == Required(size) >= gcLimit \/ resources >= ResourceLimit

Reclaimed(size) ==
  IF Pressure(size) THEN Released(cached, Minus(Required(size), gcLimit)) ELSE cached

Reclaim(size) ==
  LET lost == Lost(cached, Reclaimed(size))
  IN  /\ cached' = Reclaimed(size)
      /\ resources' = resources - Cardinality(lost)
      /\ alive' = alive \ lost
      /\ resident' = EraseBuffers(resident, lost)

MallocMissUnlimited(t, size) ==
  /\ Free(t)
  /\ ~Hit(cached, Align(size))
  /\ Reclaim(size)
  /\ want' = [want EXCEPT ![t] = Align(size)]
  /\ UNCHANGED <<threw, doomed, uses, active, limits>>

(* malloc finds none, reclaims memory and lets go of the mutex to ask the    *)
(* driver, or throws because there are too many resources.                   *)
MallocMiss(t, size) ==
  /\ Free(t)
  /\ ~Hit(cached, Align(size))
  /\ Reclaim(size)
  /\ resources' < ResourceLimit
  /\ want' = [want EXCEPT ![t] = Align(size)]
  /\ UNCHANGED <<threw, doomed, uses, active, limits>>

MallocThrow(t, size) ==
  /\ Free(t)
  /\ ~Hit(cached, Align(size))
  /\ Reclaim(size)
  /\ resources' >= ResourceLimit
  /\ threw' = threw \cup {t}
  /\ UNCHANGED <<want, doomed, uses, active, limits>>

(* Only small buffers come from the heap, and only while it has room.        *)
Makes(b, size) == Length[b] = size /\ (b \in OnHeap => size < SmallSize)

(* The driver makes the buffer; malloc takes the mutex again and counts it.  *)
MallocNew(t) ==
  /\ want[t] # 0
  /\ \E b \in Buffer \ (alive \cup External) :
       LET lost == Lost(cached, Trimmed(cached))
       IN  /\ Makes(b, want[t])
           /\ uses' = [uses EXCEPT ![b] = Append(@, want[t])]
           /\ active' = active + Length[b]
           /\ cached' = Trimmed(cached)
           /\ resources' = resources + 1 - Cardinality(lost)
           /\ alive' = (alive \cup {b}) \ lost
           /\ resident' = EraseBuffers(InsertBuffer(resident, b), lost)
  /\ want' = [want EXCEPT ![t] = 0]
  /\ UNCHANGED <<threw, doomed, limits>>

(* The driver has no memory: malloc throws.                                  *)
MallocFail(t) ==
  /\ want[t] # 0
  /\ \A b \in Buffer \ (alive \cup External) : ~Makes(b, want[t])
  /\ threw' = threw \cup {t}
  /\ want' = [want EXCEPT ![t] = 0]
  /\ UNCHANGED <<doomed, alive, uses, cached, accounts, limits, resident>>

(* The exception reaches a caller that goes on.                              *)
Catch(t) ==
  /\ t \in threw
  /\ threw' = threw \ {t}
  /\ UNCHANGED <<want, doomed, alive, uses, cached, accounts, limits, resident>>

FreeToCache(t, b) ==
  /\ Free(t)
  /\ b \in InUse \ External
  /\ Bytes(cached) < maxPool
  /\ uses' = [uses EXCEPT ![b] = Tail(@)]
  /\ active' = active - Length[b]
  /\ cached' = <<b>> \o cached
  /\ UNCHANGED <<want, threw, doomed, alive, resources, limits, resident>>

DiscardStillResident(t, b) ==
  /\ Free(t)
  /\ uses' = [uses EXCEPT ![b] = Tail(@)]
  /\ active' = active - Length[b]
  /\ resources' = resources - 1
  /\ doomed' = [doomed EXCEPT ![t] = {b}]
  /\ UNCHANGED <<want, threw, alive, cached, limits, resident>>

(* The buffer is no longer counted and, after the mutex has been let go of,  *)
(* is handed to the driver.                                                  *)
Discard(t, b) ==
  /\ Free(t)
  /\ uses' = [uses EXCEPT ![b] = Tail(@)]
  /\ active' = active - Length[b]
  /\ resources' = resources - 1
  /\ resident' = EraseBuffers(resident, {b})
  /\ doomed' = [doomed EXCEPT ![t] = {b}]
  /\ UNCHANGED <<want, threw, alive, cached, limits>>

FreeToDriver(t, b) ==
  /\ b \in InUse \ External
  /\ Bytes(cached) >= maxPool
  /\ Discard(t, b)

Release(t, b) ==
  /\ b \in InUse \cap External
  /\ Discard(t, b)

DriverRelease(t) ==
  /\ doomed[t] # {}
  /\ alive' = alive \ doomed[t]
  /\ doomed' = [doomed EXCEPT ![t] = {}]
  /\ UNCHANGED <<want, threw, uses, cached, accounts, limits, resident>>

(* That the driver wraps the client's memory before the mutex is taken        *)
(* concerns nobody else.                                                     *)
MakeBuffer(t, b) ==
  /\ Free(t)
  /\ b \in External \ alive
  /\ uses' = [uses EXCEPT ![b] = Append(@, Length[b])]
  /\ active' = active + Length[b]
  /\ resources' = resources + 1
  /\ alive' = alive \cup {b}
  /\ resident' = Insert(resident, b)
  /\ UNCHANGED <<want, threw, doomed, cached, limits>>

ClearCacheUncounted ==
  /\ cached' = <<>>
  /\ alive' = alive \ ToSet(cached)
  /\ resident' = EraseBuffers(resident, ToSet(cached))
  /\ UNCHANGED <<want, threw, doomed, uses, accounts, limits>>

ClearCache ==
  /\ cached' = <<>>
  /\ resources' = resources - Len(cached)
  /\ alive' = alive \ ToSet(cached)
  /\ resident' = EraseBuffers(resident, ToSet(cached))
  /\ UNCHANGED <<want, threw, doomed, uses, active, limits>>

SetCacheLimit(limit) ==
  /\ maxPool' = limit
  /\ UNCHANGED <<want, threw, doomed, alive, uses, cached, accounts, gcLimit, resident>>

SetMemoryLimit(limit) ==
  /\ gcLimit' = Min({limit, WorkingSet})
  /\ UNCHANGED <<want, threw, doomed, alive, uses, cached, accounts, maxPool, resident>>

SetWiredLimit(limit) ==
  /\ resident' \in Resize(resident, limit)
  /\ UNCHANGED <<want, threw, doomed, alive, uses, cached, accounts, limits>>

Next ==
  \/ \E t \in Thread, size \in Request :
       MallocCached(t, size) \/ MallocMiss(t, size) \/ MallocThrow(t, size)
  \/ \E t \in Thread : MallocNew(t) \/ MallocFail(t) \/ Catch(t) \/ DriverRelease(t)
  \/ \E t \in Thread, b \in Buffer :
       FreeToCache(t, b) \/ FreeToDriver(t, b) \/ MakeBuffer(t, b) \/ Release(t, b)
  \/ ClearCache
  \/ \E limit \in CacheLimits : SetCacheLimit(limit)
  \/ \E limit \in MemoryLimits : SetMemoryLimit(limit)
  \/ \E limit \in WiredLimits : SetWiredLimit(limit)

Spec == Init /\ [][Next]_vars

-----------------------------------------------------------------------------
(* A buffer is in one place: with one client, in the cache, once, or on its  *)
(* way to the driver.  Nothing the driver has made is forgotten.             *)
OnePlace ==
  /\ \A b \in Buffer : Len(uses[b]) <= 1
  /\ IsInjective(cached)
  /\ InUse \cap ToSet(cached) = {}
  /\ \A t \in Thread : doomed[t] \cap (InUse \cup ToSet(cached)) = {}
  /\ \A t, u \in Thread : t # u => doomed[t] \cap doomed[u] = {}
  /\ alive = InUse \cup ToSet(cached) \cup Doomed

(* active_memory_ and num_resources_ are exact whenever the mutex is free.   *)
Accounts ==
  /\ active = Size(InUse)
  /\ resources = Cardinality(InUse) + Len(cached)

(* While malloc has let go of the mutex the count does not include the       *)
(* buffers on their way, so resource_limit_ can be passed, but by no more    *)
(* than one buffer for each other thread; buffers of client memory are made  *)
(* without a look at the limit.                                              *)
ResourceBound ==
  resources + Cardinality({t \in Thread : want[t] # 0})
    <= ResourceLimit + (Cardinality(Thread) - 1) + Cardinality(InUse \cap External)

(* The residency set holds the heap and the counted buffers outside it, each *)
(* once, and no buffer that has been given to the driver.                    *)
ResidencyExact ==
  /\ resident.wired \cup resident.unwired
       = {Heap} \cup ((InUse \cup ToSet(cached)) \ OnHeap)
  /\ resident.wired \cap resident.unwired = {}

(* What is wired keeps within the limit, however often it is changed.        *)
WiredWithin == Size(resident.wired) <= resident.capacity

(* An allocation that returns leaves the cache within the limit, however     *)
(* the limit was lowered before it (mlx/memory.h, set_cache_limit).          *)
TrimmedOnAllocation ==
  [][(\E b \in Buffer \ External : Len(uses'[b]) > Len(uses[b])) => Bytes(cached') <= maxPool]_vars

(* When malloc goes to the driver, what it is about to use fits gc_limit_,   *)
(* or there is nothing left to reclaim.                                      *)
ReclaimedEnough ==
  [][\A t \in Thread : want[t] = 0 /\ want'[t] # 0 =>
       cached' = <<>> \/ active + Bytes(cached') + want'[t] <= gcLimit]_vars

(* The limits are kept when memory is handed out, and before it is asked of   *)
(* the driver.                                                               *)
LimitsKept == TrimmedOnAllocation /\ ReclaimedEnough

(* The accounts are those of the buffers, the wired memory that of its limit. *)
Consistent == TypeOK /\ Accounts /\ WiredWithin

(* "If we have a lot of memory pressure try to reclaim memory from the       *)
(* cache" (allocator.cpp 123), be it for the memory or for the resources in  *)
(* use: a malloc that gives up at the resource limit has at least reclaimed  *)
(* something, if the cache had anything.                                     *)
TriesToReclaim ==
  [][\A t \in Thread :
       t \in threw' \ threw /\ want[t] = 0 /\ cached # <<>> => cached' # cached]_vars

(* A buffer is handed to one client at a time and is as long as it asked.    *)
Clients == INSTANCE Lender
LenderSpec == Clients!Spec

=============================================================================
