---------------------------- MODULE DerpMapCache ----------------------------
(***************************************************************************)
(* fetchDERPMap and its two caches: the process-wide memory cache, whose   *)
(* Get and Put are critical sections, and the command line tool's disk     *)
(* cache, whose Get is three file operations and whose Put truncates and   *)
(* rewrites two files that other processes read at the same time.          *)
(*                                                                         *)
(* A tick is longer than a fetch: the HTTP exchange is cut off after ten   *)
(* seconds, the freshness window is an hour.                               *)
(***************************************************************************)
EXTENDS Integers, FiniteSets

CONSTANTS
    Fetchers,    \* concurrent calls of fetchDERPMap
    Caches,      \* the kinds of cache to look at: "memory", "disk"
    MaxAge,      \* derpMapCacheMaxAge, in ticks
    MaxVersion,  \* bound: versions the map server publishes
    MaxTime      \* bound: last tick of the clock

ASSUME CacheAssumption ==
    /\ Caches \subseteq {"memory", "disk"}
    /\ MaxAge \in Nat \ {0}
    /\ MaxVersion \in Nat \ {0}
    /\ MaxTime \in Nat

VARIABLES
    now,
    origin,      \* version (and ETag) the map server serves now
    replacedAt,  \* history: version -> tick at which it was replaced
    cache,       \* the kind of cache in use
    store,       \* the cache entry: [data, etag, mtime]
    shared,      \* history: two processes have used the disk cache at once
    pc, loc      \* per fetcher: control point and locals

world == <<now, origin, replacedAt, cache>>
vars == <<world, store, shared, pc, loc>>

Versions == 1..MaxVersion
Absent   == 0    \* no file, no ETag
Torn     == -1   \* empty or partial contents
Contents == Versions \union {Absent, Torn}

NoLocals == [data |-> Absent, etag |-> Absent, mtime |-> 0,
             body |-> Absent, betag |-> Absent, how |-> "none"]

\* Bug: whatever was read is taken for a map.
DecodeAnything(d) == d # Absent

\* decodeDERPMap returns a map.
Decodes(d) == d \in Versions

Init ==
    /\ now = 0
    /\ origin = 1
    /\ replacedAt = [v \in Versions |-> 0]
    /\ cache \in Caches
    /\ store = [data |-> Absent, etag |-> Absent, mtime |-> 0]
    /\ shared = FALSE
    /\ pc = [f \in Fetchers |-> "idle"]
    /\ loc = [f \in Fetchers |-> NoLocals]

Goto(f, l) == pc' = [pc EXCEPT ![f] = l]
Idle == \A f \in Fetchers : pc[f] = "idle"
OnDisk == cache = "disk"

-----------------------------------------------------------------------------
(* Get.                                                                    *)

\* memDERPMapCache.Get; on disk, os.Stat of the data file.
GetStart(f) ==
    /\ pc[f] = "idle"
    /\ loc' = [loc EXCEPT ![f] =
                 IF OnDisk THEN [NoLocals EXCEPT !.mtime = store.mtime]
                 ELSE [NoLocals EXCEPT !.mtime = store.mtime,
                                       !.data = store.data,
                                       !.etag = store.etag]]
    /\ Goto(f, CASE store.data = Absent -> "decide"
                 [] OnDisk /\ store.data # Absent -> "readData"
                 [] OTHER -> "decide")
    /\ shared' = (shared \/ (OnDisk /\ ~Idle))
    /\ UNCHANGED <<world, store>>

\* os.ReadFile of the data file: empty while another process rewrites it.
GetData(f) ==
    /\ pc[f] = "readData"
    /\ loc' = [loc EXCEPT ![f].data = store.data]
    /\ Goto(f, "readETag")
    /\ UNCHANGED <<world, store, shared>>

\* os.ReadFile of the ETag file, by then perhaps another Put's.
GetETag(f) ==
    /\ pc[f] = "readETag"
    /\ loc' = [loc EXCEPT ![f].etag = IF store.etag = Torn THEN Absent
                                                           ELSE store.etag]
    /\ Goto(f, "decide")
    /\ UNCHANGED <<world, store, shared>>

-----------------------------------------------------------------------------
(* fetchDERPMap.                                                           *)

Return(f, d, how) ==
    /\ Goto(f, "return")
    /\ loc' = [loc EXCEPT ![f].body = d, ![f].how = how]

\* time.Since(storedAt) < derpMapCacheMaxAge
Fresh(f) == now - loc[f].mtime < MaxAge

\* A fresh entry is returned without any network access; contents that do
\* not decode count as no entry at all.
Decide(f) ==
    /\ pc[f] = "decide"
    /\ \/ /\ Decodes(loc[f].data)
          /\ Fresh(f)
          /\ Return(f, loc[f].data, "fresh")
       \/ /\ Decodes(loc[f].data)
          /\ ~Fresh(f)
          /\ Goto(f, "fetch")
          /\ UNCHANGED loc
       \/ /\ ~Decodes(loc[f].data)
          /\ loc' = [loc EXCEPT ![f] = NoLocals]
          /\ Goto(f, "fetch")
    /\ UNCHANGED <<world, store, shared>>

\* 304 to If-None-Match: the entry read before is stored again.
NotModified(f) ==
    /\ pc[f] = "fetch"
    /\ loc[f].data # Absent
    /\ loc[f].etag = origin
    /\ loc' = [loc EXCEPT ![f].body = loc[f].data, ![f].betag = loc[f].etag,
                          ![f].how = "validated"]
    /\ Goto(f, "put")
    /\ UNCHANGED <<world, store, shared>>

\* 200 with a new body; the server may send no ETag.
Fetched(f) ==
    /\ pc[f] = "fetch"
    /\ \E e \in {origin, Absent} :
          loc' = [loc EXCEPT ![f].body = origin, ![f].betag = e,
                             ![f].how = "fetched"]
    /\ Goto(f, "put")
    /\ UNCHANGED <<world, store, shared>>

\* staleOr: network error, timeout, bad status or a body that is no map.
FetchFails(f) ==
    /\ pc[f] = "fetch"
    /\ IF Decodes(loc[f].data) THEN Return(f, loc[f].data, "stale")
                               ELSE Return(f, Absent, "error")
    /\ UNCHANGED <<world, store, shared>>

-----------------------------------------------------------------------------
(* Put.                                                                    *)

\* Bug: the ETag is written before the data it belongs to.
PutStepsETagFirst == [put |-> "etag", etag |-> "data", data |-> "return"]

\* Which file derpMapCache.Put rewrites first, and then.
PutSteps == [put |-> "data", data |-> "etag", etag |-> "return"]

\* memDERPMapCache.Put.
PutMemory(f) ==
    /\ pc[f] = "put"
    /\ ~OnDisk
    /\ store' = [data |-> loc[f].body, etag |-> loc[f].betag, mtime |-> now]
    /\ Goto(f, "return")
    /\ UNCHANGED <<world, shared, loc>>

PutBegin(f) ==
    /\ pc[f] = "put"
    /\ OnDisk
    /\ Goto(f, PutSteps.put)
    /\ UNCHANGED <<world, store, shared, loc>>

\* os.WriteFile opens with O_TRUNC, then writes; the two are separate, and
\* each sets the modification time. Without an ETag the file is removed.
TruncateData(f) ==
    /\ pc[f] = "data"
    /\ store' = [store EXCEPT !.data = Torn, !.mtime = now]
    /\ Goto(f, "writeData")
    /\ UNCHANGED <<world, shared, loc>>

WriteData(f) ==
    /\ pc[f] = "writeData"
    /\ store' = [store EXCEPT !.data = loc[f].body, !.mtime = now]
    /\ Goto(f, PutSteps.data)
    /\ UNCHANGED <<world, shared, loc>>

TruncateETag(f) ==
    /\ pc[f] = "etag"
    /\ store' = [store EXCEPT !.etag = IF loc[f].betag = Absent THEN Absent
                                                                ELSE Torn]
    /\ Goto(f, IF loc[f].betag = Absent THEN PutSteps.etag ELSE "writeETag")
    /\ UNCHANGED <<world, shared, loc>>

WriteETag(f) ==
    /\ pc[f] = "writeETag"
    /\ store' = [store EXCEPT !.etag = loc[f].betag]
    /\ Goto(f, PutSteps.etag)
    /\ UNCHANGED <<world, shared, loc>>

-----------------------------------------------------------------------------
\* The caller has its answer.
Done(f) ==
    /\ pc[f] = "return"
    /\ Goto(f, "idle")
    /\ loc' = [loc EXCEPT ![f] = NoLocals]
    /\ UNCHANGED <<world, store, shared>>

\* The process is killed in the middle of a call; what it wrote remains.
Crash(f) ==
    /\ OnDisk
    /\ pc[f] # "idle"
    /\ Goto(f, "idle")
    /\ loc' = [loc EXCEPT ![f] = NoLocals]
    /\ UNCHANGED <<world, store, shared>>

\* The map server publishes a new map.
Publish ==
    /\ origin < MaxVersion
    /\ origin' = origin + 1
    /\ replacedAt' = [replacedAt EXCEPT ![origin] = now]
    /\ UNCHANGED <<now, cache, store, shared, pc, loc>>

Tick ==
    /\ now < MaxTime
    /\ Idle
    /\ now' = now + 1
    /\ UNCHANGED <<origin, replacedAt, cache, store, shared, pc, loc>>

Next ==
    \/ \E f \in Fetchers :
          \/ GetStart(f) \/ GetData(f) \/ GetETag(f)
          \/ Decide(f) \/ NotModified(f) \/ Fetched(f) \/ FetchFails(f)
          \/ PutMemory(f) \/ PutBegin(f)
          \/ TruncateData(f) \/ WriteData(f) \/ TruncateETag(f) \/ WriteETag(f)
          \/ Done(f) \/ Crash(f)
    \/ Publish
    \/ Tick

Spec == Init /\ [][Next]_vars

-----------------------------------------------------------------------------
(* Properties.                                                             *)

\* The values every variable can hold.
TypeOK ==
    /\ now \in 0..MaxTime
    /\ origin \in Versions
    /\ replacedAt \in [Versions -> 0..MaxTime]
    /\ cache \in Caches
    /\ shared \in BOOLEAN
    /\ store \in [data : Contents, etag : Contents, mtime : 0..MaxTime]
    /\ pc \in [Fetchers -> {"idle", "readData", "readETag", "decide", "fetch",
                            "put", "data", "writeData", "etag", "writeETag",
                            "return"}]
    /\ loc \in [Fetchers -> [data : Contents,
                             etag : Versions \union {Absent},
                             mtime : 0..MaxTime, body : Contents,
                             betag : Contents,
                             how : {"none", "fresh", "validated", "fetched",
                                    "stale", "error"}]]

\* A call that reports success returns a map the server published, never
\* the remains of a half-written file.
ReturnsAMap ==
    \A f \in Fetchers :
        pc[f] = "return" /\ loc[f].how # "error" => loc[f].body \in Versions

\* "For now staleness is only bounded by the max age": unless the network
\* failed, the map returned was the server's at some time within MaxAge.
StalenessBounded ==
    \A f \in Fetchers :
        pc[f] = "return" /\ loc[f].how \in {"fresh", "validated", "fetched"}
          => \/ loc[f].body = origin
             \/ now - replacedAt[loc[f].body] <= MaxAge

\* The bound holds for concurrent calls through the memory cache, and on disk
\* as long as processes use the cache one after the other, even when they are
\* killed between any two of their file operations.
BoundedUnlessShared == ~shared => StalenessBounded
=============================================================================
