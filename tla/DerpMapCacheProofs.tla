------------------------- MODULE DerpMapCacheProofs -------------------------
(***************************************************************************)
(* Proofs about DerpMapCache, for every set of concurrent calls, either    *)
(* cache, any freshness window and any number of published maps.           *)
(***************************************************************************)
EXTENDS DerpMapCache, TLAPS

\* The calls that are storing what they have fetched or had validated.
Putting == {"put", "data", "writeData", "etag", "writeETag"}

\* What a call can hold in its locals.
Locals == [data : Contents, etag : Versions \union {Absent}, mtime : 0..MaxTime,
           body : Contents, betag : Contents,
           how : {"none", "fresh", "validated", "fetched", "stale", "error"}]

\* Version v has been the server's at tick t or later.
CurrentSince(v, t) ==
    v \in Versions /\ v <= origin /\ (v = origin \/ replacedAt[v] >= t)

\* No call takes anything but a map as a map.
Maps ==
    \A f \in Fetchers :
        /\ pc[f] = "fetch" => loc[f].data \in Versions \union {Absent}
        /\ pc[f] \in Putting => /\ loc[f].body \in Versions
                                /\ loc[f].betag \in Versions \union {Absent}
        /\ pc[f] = "return" /\ loc[f].how # "error" => loc[f].body \in Versions

\* The memory cache is read and written in one step.
Memory ==
    cache = "memory" =>
        /\ store.etag # Torn
        /\ \A f \in Fetchers : pc[f] \in {"idle", "decide", "fetch", "put", "return"}

\* Processes that use the disk cache one after the other.
Sole ==
    OnDisk /\ ~shared =>
        \A f, g \in Fetchers : pc[f] # "idle" /\ pc[g] # "idle" => f = g

\* No modification time is in the future.
Times == store.mtime <= now /\ \A f \in Fetchers : loc[f].mtime <= now

\* The map in the cache was the server's when it was stored or since, and the
\* ETag beside it is never of a later map. It may be of an earlier one: a
\* process may die after writing the data and before writing the ETag.
StoreSound ==
    ~shared =>
        /\ store.data \in Versions =>
              /\ CurrentSince(store.data, store.mtime)
              /\ store.etag \in Versions => store.etag <= store.data
        /\ store.etag \in Versions => store.etag <= origin

\* The same of what a call has read, and of what it is about to store.
LocalsSound ==
    ~shared => \A f \in Fetchers :
        /\ pc[f] = "readData" => loc[f].mtime = store.mtime
        /\ pc[f] = "readETag" /\ loc[f].data \in Versions =>
              /\ CurrentSince(loc[f].data, loc[f].mtime)
              /\ store.etag \in Versions => store.etag <= loc[f].data
        /\ pc[f] \in {"decide", "fetch"} /\ loc[f].data \in Versions =>
              /\ CurrentSince(loc[f].data, loc[f].mtime)
              /\ loc[f].etag \in Versions => loc[f].etag <= loc[f].data
        /\ pc[f] \in Putting => /\ CurrentSince(loc[f].body, now)
                                /\ loc[f].betag \in {Absent, loc[f].body}
        /\ pc[f] \in {"put", "data", "writeData"} /\ OnDisk /\ store.etag \in Versions
              => store.etag <= loc[f].body
        /\ pc[f] \in {"etag", "writeETag"} => store.data = loc[f].body

\* The inductive invariant from which the theorems follow.
IInv ==
    /\ TypeOK /\ Maps /\ Memory /\ Sole /\ Times
    /\ StoreSound /\ LocalsSound /\ BoundedUnlessShared

-----------------------------------------------------------------------------
(* The initial states, and each action, establish the invariant.           *)

\* Versions, and the values that stand for no version.
LEMMA VersionFacts ==
    /\ Versions \subseteq Nat /\ 1 \in Versions
    /\ Absent \in Int /\ Absent \notin Versions
    /\ Torn \in Int /\ Torn \notin Versions /\ Torn # Absent
BY CacheAssumption DEF Versions, Absent, Torn

\* What CurrentSince says of the order of the versions.
LEMMA CurrentSinceFacts ==
    ASSUME NEW v, NEW t, CurrentSince(v, t)
    PROVE  v \in Int /\ v <= origin
BY VersionFacts DEF CurrentSince

\* The locals of a call that has its answer from the server are typed.
LEMMA AnswerTyped ==
    ASSUME NEW r \in Locals, NEW d \in Contents, NEW t \in Contents,
           NEW h \in {"validated", "fetched"}
    PROVE  [r EXCEPT !.body = d, !.betag = t, !.how = h] \in Locals
BY DEF Locals

\* The cache is empty and the first map is published.
LEMMA InitIInv == Init => IInv
<1> SUFFICES ASSUME Init PROVE IInv
  OBVIOUS
<1> USE CacheAssumption, VersionFacts DEF Init
<1>1. TypeOK
  <2>1. 0 \in 0..MaxTime
    OBVIOUS
  <2>2. store \in [data : Contents, etag : Contents, mtime : 0..MaxTime]
    BY <2>1 DEF Contents
  <2>3. replacedAt \in [Versions -> 0..MaxTime]
    BY <2>1
  <2>4. NoLocals \in [data : Contents, etag : Versions \union {Absent},
                      mtime : 0..MaxTime, body : Contents, betag : Contents,
                      how : {"none", "fresh", "validated", "fetched", "stale",
                             "error"}]
    BY <2>1 DEF NoLocals, Contents
  <2> QED BY <2>1, <2>2, <2>3, <2>4 DEF TypeOK
<1>2. Maps /\ Memory /\ Sole
  BY DEF Maps, Memory, Sole, Putting
<1>3. Times
  BY DEF Times, NoLocals
<1>4. StoreSound /\ LocalsSound /\ BoundedUnlessShared
  BY DEF StoreSound, LocalsSound, Putting, BoundedUnlessShared, StalenessBounded
<1> QED BY <1>1, <1>2, <1>3, <1>4 DEF IInv

\* A call begins, reading nothing, or the whole entry in memory.
LEMMA GetStartIInv ==
    ASSUME IInv, NEW f \in Fetchers, GetStart(f)
    PROVE  IInv'
<1> USE CacheAssumption, VersionFacts DEF GetStart, Goto, NoLocals, Idle, OnDisk, IInv, world
<1>1. TypeOK'
  BY DEF TypeOK, Contents, Memory
<1>2. Maps'
  BY DEF Maps, Putting
<1>3. Memory'
  BY DEF Memory
<1>4. Sole'
  BY DEF TypeOK, Sole
<1>5. Times'
  BY DEF Times
<1>6. LocalsSound'
  BY DEF TypeOK, LocalsSound, Putting, CurrentSince, StoreSound
<1>7. BoundedUnlessShared'
  BY DEF TypeOK, BoundedUnlessShared, StalenessBounded
<1>8. StoreSound'
  BY DEF StoreSound, CurrentSince
<1> QED BY <1>1, <1>2, <1>3, <1>4, <1>5, <1>6, <1>7, <1>8

\* The data file is read.
LEMMA GetDataIInv ==
    ASSUME IInv, NEW f \in Fetchers, GetData(f)
    PROVE  IInv'
<1> USE CacheAssumption, VersionFacts DEF GetData, Goto, IInv, world
<1>1. TypeOK'
  BY DEF TypeOK
<1>2. Maps'
  BY DEF Maps, Putting
<1>3. Memory'
  BY DEF Memory
<1>4. Sole'
  BY DEF Sole, OnDisk
<1>5. Times'
  BY DEF Times
<1>6. LocalsSound'
  BY DEF TypeOK, LocalsSound, Putting, CurrentSince, OnDisk, StoreSound
<1>7. BoundedUnlessShared'
  BY DEF BoundedUnlessShared, StalenessBounded
<1>8. StoreSound'
  BY DEF StoreSound, CurrentSince
<1> QED BY <1>1, <1>2, <1>3, <1>4, <1>5, <1>6, <1>7, <1>8

\* The ETag file is read.
LEMMA GetETagIInv ==
    ASSUME IInv, NEW f \in Fetchers, GetETag(f)
    PROVE  IInv'
<1> USE CacheAssumption, VersionFacts DEF GetETag, Goto, IInv, world
<1>1. TypeOK'
  BY DEF TypeOK, Contents
<1>2. Maps'
  BY DEF Maps, Putting
<1>3. Memory'
  BY DEF Memory
<1>4. Sole'
  BY DEF Sole, OnDisk
<1>5. Times'
  BY DEF Times
<1>6. LocalsSound'
  BY DEF TypeOK, LocalsSound, Putting, CurrentSince, OnDisk
<1>7. BoundedUnlessShared'
  BY DEF BoundedUnlessShared, StalenessBounded
<1>8. StoreSound'
  BY DEF StoreSound, CurrentSince
<1> QED BY <1>1, <1>2, <1>3, <1>4, <1>5, <1>6, <1>7, <1>8

\* A fresh entry is returned, and what is no map is forgotten.
LEMMA DecideIInv ==
    ASSUME IInv, NEW f \in Fetchers, Decide(f)
    PROVE  IInv'
<1> USE CacheAssumption, VersionFacts DEF Decide, Goto, Return, Fresh, Decodes, NoLocals, IInv, world
<1>1. TypeOK'
  BY DEF TypeOK, Contents, Maps
<1>2. Maps'
  BY DEF TypeOK, Maps, Putting
<1>3. Memory'
  BY DEF TypeOK, Memory
<1>4. Sole'
  BY DEF TypeOK, Sole, OnDisk
<1>5. Times'
  BY DEF TypeOK, Times
<1>6. LocalsSound'
  BY DEF TypeOK, LocalsSound, Putting, CurrentSince, OnDisk
<1>7. BoundedUnlessShared'
  BY DEF TypeOK, BoundedUnlessShared, StalenessBounded, LocalsSound, CurrentSince
<1>8. StoreSound'
  BY DEF StoreSound, CurrentSince
<1> QED BY <1>1, <1>2, <1>3, <1>4, <1>5, <1>6, <1>7, <1>8

\* What the server confirms is the map it serves.
LEMMA NotModifiedIInv ==
    ASSUME IInv, NEW f \in Fetchers, NotModified(f)
    PROVE  IInv'
<1> USE CacheAssumption, VersionFacts DEF NotModified, Goto, IInv, world
<1>1. TypeOK'
  <2>1. pc[f] = "fetch" /\ origin \in Versions /\ loc[f].data \in Versions \union {Absent}
    BY DEF TypeOK, Maps
  <2>2. loc' \in [Fetchers -> Locals]
    <3>1. loc \in [Fetchers -> Locals]
      BY DEF TypeOK, Locals
    <3>2. loc[f].data \in Contents /\ loc[f].etag \in Contents /\ origin \in Contents
      BY <2>1, <3>1 DEF Contents
    <3> QED BY <3>1, <3>2, AnswerTyped
  <2>3. pc' \in [Fetchers -> {"idle", "readData", "readETag", "decide", "fetch",
                             "put", "data", "writeData", "etag", "writeETag",
                             "return"}]
    BY DEF TypeOK
  <2> QED BY <2>2, <2>3 DEF TypeOK, Locals
<1>2. Maps'
  BY DEF TypeOK, Maps
<1>3. Memory'
  BY DEF Memory
<1>4. Sole'
  BY DEF Sole, OnDisk
<1>5. Times'
  BY DEF TypeOK, Times
<1>6. LocalsSound'
  BY DEF TypeOK, LocalsSound, Putting, CurrentSince, Sole, OnDisk, Maps, Memory, StoreSound, Times
<1>7. BoundedUnlessShared'
  BY DEF TypeOK, BoundedUnlessShared, StalenessBounded
<1>8. StoreSound'
  BY DEF StoreSound, CurrentSince
<1> QED BY <1>1, <1>2, <1>3, <1>4, <1>5, <1>6, <1>7, <1>8

\* What the server sends is the map it serves.
LEMMA FetchedIInv ==
    ASSUME IInv, NEW f \in Fetchers, Fetched(f)
    PROVE  IInv'
<1> USE CacheAssumption, VersionFacts DEF Fetched, Goto, IInv, world
<1>1. TypeOK'
  <2>1. pc[f] = "fetch" /\ origin \in Versions /\ loc[f].data \in Versions \union {Absent}
    BY DEF TypeOK, Maps
  <2>2. loc' \in [Fetchers -> Locals]
    <3>1. loc \in [Fetchers -> Locals]
      BY DEF TypeOK, Locals
    <3>2. loc[f].data \in Contents /\ loc[f].etag \in Contents /\ origin \in Contents
      BY <2>1, <3>1 DEF Locals, Contents
    <3>3. Absent \in Contents
      BY DEF Contents
    <3>4. PICK e \in {origin, Absent} :
             loc' = [loc EXCEPT ![f].body = origin, ![f].betag = e, ![f].how = "fetched"]
      OBVIOUS
    <3>5. [loc[f] EXCEPT !.body = origin, !.betag = e, !.how = "fetched"] \in Locals
      BY <3>1, <3>2, <3>3, AnswerTyped
    <3> QED BY <3>1, <3>4, <3>5
  <2>3. pc' \in [Fetchers -> {"idle", "readData", "readETag", "decide", "fetch",
                             "put", "data", "writeData", "etag", "writeETag",
                             "return"}]
    BY DEF TypeOK
  <2> QED BY <2>2, <2>3 DEF TypeOK, Locals
<1>2. Maps'
  BY DEF TypeOK, Maps
<1>3. Memory'
  BY DEF Memory
<1>4. Sole'
  BY DEF Sole, OnDisk
<1>5. Times'
  BY DEF TypeOK, Times
<1>6. LocalsSound'
  BY DEF TypeOK, LocalsSound, CurrentSince, OnDisk, StoreSound
<1>7. BoundedUnlessShared'
  BY DEF TypeOK, BoundedUnlessShared, StalenessBounded
<1>8. StoreSound'
  BY DEF StoreSound, CurrentSince
<1> QED BY <1>1, <1>2, <1>3, <1>4, <1>5, <1>6, <1>7, <1>8

\* Without the network an old map is returned, or an error.
LEMMA FetchFailsIInv ==
    ASSUME IInv, NEW f \in Fetchers, FetchFails(f)
    PROVE  IInv'
<1> USE CacheAssumption, VersionFacts DEF FetchFails, Goto, Return, Decodes, IInv, world
<1>1. TypeOK'
  BY DEF TypeOK, Contents, Maps, Putting, Memory
<1>2. Maps'
  BY DEF TypeOK, Maps, Putting
<1>3. Memory'
  BY DEF TypeOK, Memory
<1>4. Sole'
  BY DEF TypeOK, Sole, OnDisk
<1>5. Times'
  BY DEF TypeOK, Times
<1>6. LocalsSound'
  BY DEF TypeOK, LocalsSound, Putting, CurrentSince, OnDisk
<1>7. BoundedUnlessShared'
  BY DEF TypeOK, BoundedUnlessShared, StalenessBounded
<1>8. StoreSound'
  BY DEF StoreSound, CurrentSince
<1> QED BY <1>1, <1>2, <1>3, <1>4, <1>5, <1>6, <1>7, <1>8

\* The memory cache takes the map and its ETag at once.
LEMMA PutMemoryIInv ==
    ASSUME IInv, NEW f \in Fetchers, PutMemory(f)
    PROVE  IInv'
<1> USE CacheAssumption, VersionFacts DEF PutMemory, Goto, OnDisk, IInv, world
<1>1. TypeOK'
  BY DEF TypeOK
<1>2. Maps'
  BY DEF Maps, Putting
<1>3. Memory'
  BY DEF Memory, Maps, Putting
<1>4. Sole'
  BY DEF Sole
<1>5. Times'
  BY DEF TypeOK, Times
<1>6. StoreSound'
  <2> SUFFICES ASSUME ~shared PROVE StoreSound'
    BY DEF StoreSound
  <2>1. CurrentSince(loc[f].body, now) /\ loc[f].betag \in {Absent, loc[f].body}
    BY DEF LocalsSound, Putting
  <2>2. store'.data = loc[f].body /\ store'.etag = loc[f].betag /\ store'.mtime = now
    OBVIOUS
  <2>3. loc[f].body \in Int /\ loc[f].body <= origin
    BY <2>1, CurrentSinceFacts
  <2> QED BY <2>1, <2>2, <2>3 DEF StoreSound, CurrentSince
<1>7. LocalsSound'
  BY DEF TypeOK, LocalsSound, Putting, CurrentSince, Memory
<1>8. BoundedUnlessShared'
  <2> SUFFICES ASSUME ~shared, NEW g \in Fetchers, pc'[g] = "return",
                      loc[g].how \in {"fresh", "validated", "fetched"}
               PROVE  loc[g].body = origin \/ now - replacedAt[loc[g].body] <= MaxAge
    BY DEF BoundedUnlessShared, StalenessBounded
  <2>1. CASE g = f
    <3>1. CurrentSince(loc[f].body, now)
      BY DEF LocalsSound, Putting
    <3>2. loc[f].body \in Versions => replacedAt[loc[f].body] \in Nat
      <4>1. replacedAt \in [Versions -> 0..MaxTime]
        BY DEF TypeOK
      <4>2. 0..MaxTime \subseteq Nat
        OBVIOUS
      <4> QED BY <4>1, <4>2
    <3>3. now \in Nat
      BY DEF TypeOK
    <3> QED BY <2>1, <3>1, <3>2, <3>3 DEF CurrentSince
  <2>2. CASE g # f
    BY <2>2 DEF BoundedUnlessShared, StalenessBounded
  <2> QED BY <2>1, <2>2
<1> QED BY <1>1, <1>2, <1>3, <1>4, <1>5, <1>6, <1>7, <1>8

\* The disk cache writes the data first.
LEMMA PutBeginIInv ==
    ASSUME IInv, NEW f \in Fetchers, PutBegin(f)
    PROVE  IInv'
<1> USE CacheAssumption, VersionFacts DEF PutBegin, Goto, OnDisk, PutSteps, IInv, world
<1>1. TypeOK'
  BY DEF TypeOK
<1>2. Maps'
  BY DEF Maps, Putting
<1>3. Memory'
  BY DEF Memory
<1>4. Sole'
  BY DEF Sole
<1>5. Times'
  BY DEF Times
<1>6. LocalsSound'
  BY DEF LocalsSound, Putting, CurrentSince
<1>7. BoundedUnlessShared'
  BY DEF BoundedUnlessShared, StalenessBounded
<1>8. StoreSound'
  BY DEF StoreSound, CurrentSince
<1> QED BY <1>1, <1>2, <1>3, <1>4, <1>5, <1>6, <1>7, <1>8

\* A data file cut short is no map.
LEMMA TruncateDataIInv ==
    ASSUME IInv, NEW f \in Fetchers, TruncateData(f)
    PROVE  IInv'
<1> USE CacheAssumption, VersionFacts DEF TruncateData, Goto, IInv, world
<1>1. TypeOK'
  BY DEF TypeOK, Contents
<1>2. Maps'
  BY DEF Maps, Putting
<1>3. Memory'
  BY DEF Memory
<1>4. Sole'
  BY DEF Sole, OnDisk
<1>5. Times'
  BY DEF TypeOK, Times
<1>6. StoreSound'
  BY DEF StoreSound
<1>7. LocalsSound'
  BY DEF TypeOK, LocalsSound, Putting, CurrentSince, Sole, OnDisk, Memory
<1>8. BoundedUnlessShared'
  BY DEF BoundedUnlessShared, StalenessBounded
<1> QED BY <1>1, <1>2, <1>3, <1>4, <1>5, <1>6, <1>7, <1>8

\* The data are written beside an ETag that is not of a later map.
LEMMA WriteDataIInv ==
    ASSUME IInv, NEW f \in Fetchers, WriteData(f)
    PROVE  IInv'
<1> USE CacheAssumption, VersionFacts DEF WriteData, Goto, PutSteps, IInv, world
<1>1. TypeOK'
  BY DEF TypeOK
<1>2. Maps'
  BY DEF Maps, Putting
<1>3. Memory'
  BY DEF Memory
<1>4. Sole'
  BY DEF Sole, OnDisk
<1>5. Times'
  BY DEF TypeOK, Times
<1>6. StoreSound'
  <2> SUFFICES ASSUME ~shared PROVE StoreSound'
    BY DEF StoreSound
  <2>1. OnDisk
    BY DEF TypeOK, Memory, OnDisk
  <2>2. CurrentSince(loc[f].body, now)
        /\ (store.etag \in Versions => store.etag <= loc[f].body)
    BY <2>1 DEF LocalsSound, Putting
  <2>3. store'.data = loc[f].body /\ store'.etag = store.etag /\ store'.mtime = now
    BY DEF TypeOK
  <2> QED BY <2>2, <2>3 DEF StoreSound, CurrentSince
<1>7. LocalsSound'
  BY DEF TypeOK, LocalsSound, Putting, CurrentSince, Sole, OnDisk, Memory
<1>8. BoundedUnlessShared'
  BY DEF BoundedUnlessShared, StalenessBounded
<1> QED BY <1>1, <1>2, <1>3, <1>4, <1>5, <1>6, <1>7, <1>8

\* Without its ETag the data may stand alone.
LEMMA TruncateETagIInv ==
    ASSUME IInv, NEW f \in Fetchers, TruncateETag(f)
    PROVE  IInv'
<1> USE CacheAssumption, VersionFacts DEF TruncateETag, Goto, PutSteps, IInv, world
<1>1. TypeOK'
  BY DEF TypeOK, Contents
<1>2. Maps'
  BY DEF Maps, Putting
<1>3. Memory'
  BY DEF Memory
<1>4. Sole'
  BY DEF Sole, OnDisk
<1>5. Times'
  BY DEF Times
<1>6. StoreSound'
  BY DEF StoreSound, CurrentSince
<1>7. LocalsSound'
  BY DEF LocalsSound, Putting, CurrentSince
<1>8. BoundedUnlessShared'
  BY DEF TypeOK, BoundedUnlessShared, StalenessBounded, LocalsSound, CurrentSince, Putting
<1> QED BY <1>1, <1>2, <1>3, <1>4, <1>5, <1>6, <1>7, <1>8

\* The ETag is written beside the data it belongs to.
LEMMA WriteETagIInv ==
    ASSUME IInv, NEW f \in Fetchers, WriteETag(f)
    PROVE  IInv'
<1> USE CacheAssumption, VersionFacts DEF WriteETag, Goto, PutSteps, IInv, world
<1>1. TypeOK'
  BY DEF TypeOK
<1>2. Maps'
  BY DEF Maps, Putting
<1>3. Memory'
  BY DEF Memory
<1>4. Sole'
  BY DEF Sole, OnDisk
<1>5. Times'
  BY DEF Times
<1>6. StoreSound'
  <2> SUFFICES ASSUME ~shared PROVE StoreSound'
    BY DEF StoreSound
  <2>1. CurrentSince(loc[f].body, now) /\ loc[f].betag \in {Absent, loc[f].body}
        /\ store.data = loc[f].body
    BY DEF LocalsSound, Putting
  <2>2. store'.data = store.data /\ store'.etag = loc[f].betag /\ store'.mtime = store.mtime
    BY DEF TypeOK
  <2>3. loc[f].body \in Int /\ loc[f].body <= origin
    BY <2>1, CurrentSinceFacts
  <2> QED BY <2>1, <2>2, <2>3 DEF StoreSound, CurrentSince
<1>7. LocalsSound'
  BY DEF TypeOK, LocalsSound, Putting, Sole, OnDisk, Memory
<1>8. BoundedUnlessShared'
  BY DEF TypeOK, BoundedUnlessShared, StalenessBounded, LocalsSound, CurrentSince, Putting
<1> QED BY <1>1, <1>2, <1>3, <1>4, <1>5, <1>6, <1>7, <1>8

\* The caller has its answer.
LEMMA DoneIInv ==
    ASSUME IInv, NEW f \in Fetchers, Done(f)
    PROVE  IInv'
<1> USE CacheAssumption, VersionFacts DEF Done, Goto, NoLocals, IInv, world
<1>1. TypeOK'
  BY DEF TypeOK, Contents
<1>2. Maps'
  BY DEF TypeOK, Maps, Putting
<1>3. Memory'
  BY DEF Memory
<1>4. Sole'
  BY DEF Sole, OnDisk
<1>5. Times'
  BY DEF TypeOK, Times
<1>6. LocalsSound'
  BY DEF LocalsSound, Putting, CurrentSince, OnDisk
<1>7. BoundedUnlessShared'
  BY DEF BoundedUnlessShared, StalenessBounded
<1>8. StoreSound'
  BY DEF StoreSound, CurrentSince
<1> QED BY <1>1, <1>2, <1>3, <1>4, <1>5, <1>6, <1>7, <1>8

\* What a killed process wrote remains.
LEMMA CrashIInv ==
    ASSUME IInv, NEW f \in Fetchers, Crash(f)
    PROVE  IInv'
<1> USE CacheAssumption, VersionFacts DEF Crash, Goto, NoLocals, OnDisk, IInv, world
<1>1. TypeOK'
  BY DEF TypeOK, Contents
<1>2. Maps'
  BY DEF TypeOK, Maps, Putting
<1>3. Memory'
  BY DEF Memory
<1>4. Sole'
  BY DEF Sole
<1>5. Times'
  BY DEF TypeOK, Times
<1>6. LocalsSound'
  BY DEF TypeOK, LocalsSound, Putting, Sole
<1>7. BoundedUnlessShared'
  BY DEF BoundedUnlessShared, StalenessBounded
<1>8. StoreSound'
  BY DEF StoreSound, CurrentSince
<1> QED BY <1>1, <1>2, <1>3, <1>4, <1>5, <1>6, <1>7, <1>8

\* The server publishes a map: the one before has been current until now.
LEMMA PublishIInv ==
    ASSUME IInv, Publish
    PROVE  IInv'
<1> USE CacheAssumption, VersionFacts DEF Publish, IInv
<1>1. /\ origin \in Nat /\ origin' \in Versions /\ now \in Nat
      /\ replacedAt \in [Versions -> 0..MaxTime]
  BY DEF TypeOK, Versions
<1>2. TypeOK'
  BY <1>1 DEF TypeOK
<1>3. Maps' /\ Memory' /\ Sole' /\ Times'
  BY DEF Maps, Memory, Sole, OnDisk, Times
<1>4. ASSUME NEW v, NEW t \in 0..now, CurrentSince(v, t)
      PROVE  CurrentSince(v, t)'
  BY <1>1, <1>4 DEF CurrentSince
<1>5. store.mtime \in 0..now /\ \A f \in Fetchers : loc[f].mtime \in 0..now
  BY <1>1 DEF TypeOK, Times
<1>6. StoreSound'
  <2> SUFFICES ASSUME ~shared PROVE StoreSound'
    BY DEF StoreSound
  <2>1. store.data \in Versions => CurrentSince(store.data, store.mtime)'
    BY <1>4, <1>5 DEF StoreSound
  <2>2. store.etag \in Versions => store.etag <= origin'
    <3>1. \A m, n \in Nat : m <= n => m <= n + 1
      OBVIOUS
    <3>2. store.etag \in Versions => store.etag <= origin
      BY DEF StoreSound
    <3> QED BY <1>1, <3>1, <3>2
  <2> QED BY <2>1, <2>2 DEF StoreSound
<1>7. LocalsSound'
  <2>1. now \in 0..now
    BY <1>1
  <2> QED BY <1>4, <1>5, <2>1 DEF LocalsSound, OnDisk
<1>8. BoundedUnlessShared'
  <2> SUFFICES ASSUME ~shared, NEW f \in Fetchers, pc[f] = "return",
                      loc[f].how \in {"fresh", "validated", "fetched"}
               PROVE  \/ loc[f].body = origin'
                      \/ now - replacedAt'[loc[f].body] <= MaxAge
    BY DEF BoundedUnlessShared, StalenessBounded
  <2>1. loc[f].body \in Versions
    BY DEF Maps
  <2>2. loc[f].body = origin \/ now - replacedAt[loc[f].body] <= MaxAge
    BY DEF BoundedUnlessShared, StalenessBounded
  <2>3. CASE loc[f].body = origin
    BY <1>1, <2>1, <2>3
  <2>4. CASE loc[f].body # origin
    BY <1>1, <2>1, <2>2, <2>4
  <2> QED BY <2>3, <2>4
<1> QED BY <1>2, <1>3, <1>6, <1>7, <1>8

\* Time passes between calls.
LEMMA TickIInv ==
    ASSUME IInv, Tick
    PROVE  IInv'
<1> USE CacheAssumption, VersionFacts DEF Tick, Idle, IInv
<1>1. now \in Nat /\ now' = now + 1 /\ now' \in 0..MaxTime
  BY DEF TypeOK
<1>2. TypeOK'
  BY <1>1 DEF TypeOK
<1>3. Maps' /\ Memory' /\ Sole'
  BY DEF Maps, Memory, Sole
<1>4. Times'
  BY <1>1 DEF Times, TypeOK
<1>5. StoreSound'
  BY DEF StoreSound, CurrentSince
<1>6. LocalsSound' /\ BoundedUnlessShared'
  BY DEF LocalsSound, Putting, BoundedUnlessShared, StalenessBounded
<1> QED BY <1>2, <1>3, <1>4, <1>5, <1>6

\* Every step preserves the invariant.
LEMMA NextIInv == IInv /\ [Next]_vars => IInv'
<1> SUFFICES ASSUME IInv, [Next]_vars PROVE IInv'
  OBVIOUS
<1>1. ASSUME NEW f \in Fetchers,
             \/ GetStart(f) \/ GetData(f) \/ GetETag(f)
             \/ Decide(f) \/ NotModified(f) \/ Fetched(f) \/ FetchFails(f)
      PROVE  IInv'
  BY <1>1, GetStartIInv, GetDataIInv, GetETagIInv, DecideIInv, NotModifiedIInv,
     FetchedIInv, FetchFailsIInv
<1>2. ASSUME NEW f \in Fetchers,
             \/ PutMemory(f) \/ PutBegin(f)
             \/ TruncateData(f) \/ WriteData(f) \/ TruncateETag(f) \/ WriteETag(f)
             \/ Done(f) \/ Crash(f)
      PROVE  IInv'
  BY <1>2, PutMemoryIInv, PutBeginIInv, TruncateDataIInv, WriteDataIInv,
     TruncateETagIInv, WriteETagIInv, DoneIInv, CrashIInv
<1>3. CASE UNCHANGED vars
  BY <1>3 DEF vars, world, IInv, TypeOK, Maps, Memory, Sole, Times, StoreSound,
     LocalsSound, CurrentSince, OnDisk, BoundedUnlessShared, StalenessBounded
<1> QED BY <1>1, <1>2, <1>3, PublishIInv, TickIInv DEF Next

-----------------------------------------------------------------------------
(* The theorems.                                                           *)

\* Every reachable state satisfies the invariant.
THEOREM Invariance == Spec => []IInv
BY InitIInv, NextIInv, PTL DEF Spec

\* Every variable keeps to its type.
THEOREM TypeCorrect == Spec => []TypeOK
<1>1. IInv => TypeOK
  BY DEF IInv
<1> QED BY Invariance, <1>1, PTL

\* A call of fetchDERPMap that succeeds returns a map the server published,
\* whatever other processes are doing to the two cache files and wherever
\* they were killed.
THEOREM ReturnsAMapInvariance == Spec => []ReturnsAMap
<1>1. IInv => ReturnsAMap
  BY DEF IInv, Maps, ReturnsAMap
<1> QED BY Invariance, <1>1, PTL

\* Unless two processes used the disk cache at once, a map that fetchDERPMap
\* returns without a network failure was the server's within derpMapCacheMaxAge.
THEOREM BoundedUnlessSharedInvariance == Spec => []BoundedUnlessShared
<1>1. IInv => BoundedUnlessShared
  BY DEF IInv
<1> QED BY Invariance, <1>1, PTL
=============================================================================
