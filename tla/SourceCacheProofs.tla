-------------------------- MODULE SourceCacheProofs --------------------------
(***************************************************************************)
(* The caches implement the register of SnapshotRegister, for any number   *)
(* of processes and requests, any times to live and any failures: a cache  *)
(* is replaced under its lock by a version no older than the one it shows. *)
(* No answer is built from what left its source too long ago, and none     *)
(* says that there is nothing from memory alone.                           *)
(***************************************************************************)
EXTENDS SourceCache, TLAPS

Stamped == [version : Nat, stamp : Nat]
CallFields == {"step", "leg", "oldest", "since", "old", "due", "views"}

Typed ==
  /\ now \in Nat
  /\ offered \in [Sources -> Nat]
  /\ memory \in [Processes -> [Sources -> Stamped]]
  /\ file \in [Sources -> Stamped]
  /\ lock \in [Processes -> [Sources -> Requests \cup {Free}]]
  /\ use \in Uses
  /\ DOMAIN request = Requests
  /\ \A r \in Requests : DOMAIN request[r] = CallFields

(* Nobody shows or saves what its source did not have yet.                 *)
VersionInv ==
  \A s \in Sources : /\ file[s].version <= offered[s]
                     /\ \A p \in Processes : memory[p][s].version <= offered[s]

(* A fetch holds the lock of its cache, and looks for nothing older than   *)
(* what the cache shows meanwhile.                                         *)
FetchInv ==
  \A r \in Requests : Fetching(r) =>
    /\ lock[use[r].process][Source(r)] = r
    /\ request[r].oldest \in Nat
    /\ Cache(r).version <= request[r].oldest
    /\ request[r].oldest <= offered[Source(r)]

CacheInv == Typed /\ VersionInv /\ FetchInv
-----------------------------------------------------------------------------
LEMMA UseType ==
  ASSUME Typed, NEW r \in Requests
  PROVE  use[r].process \in Processes /\ Source(r) \in Sources
BY SourceAssumption DEF Typed, Source, Sources

LEMMA EndedCall ==
  ASSUME NEW q, DOMAIN q = CallFields, NEW w
  PROVE  DOMAIN Ended(q, w) = CallFields /\ Ended(q, w).step = "ended"
BY DEF Ended, CallFields

(* After a leg the request waits for the next one or has ended.            *)
Lands(r, calls) ==
  \E views : \/ request' = [calls EXCEPT ![r] = Onward(calls[r], views)]
             \/ request' = [calls EXCEPT ![r] = Ended(calls[r], views)]

LEMMA LandsCall ==
  ASSUME NEW r \in Requests, NEW calls, DOMAIN calls = Requests,
         \A q \in Requests : DOMAIN calls[q] = CallFields, Lands(r, calls)
  PROVE  /\ DOMAIN request' = Requests
         /\ \A q \in Requests : DOMAIN request'[q] = CallFields
         /\ request'[r].step # "fetch"
         /\ \A q \in Requests \ {r} : request'[q] = calls[q]
<1>1. PICK w : \/ request' = [calls EXCEPT ![r] = Onward(calls[r], w)]
               \/ request' = [calls EXCEPT ![r] = Ended(calls[r], w)]
  BY DEF Lands
<1> DEFINE q == calls[r]
<1>2. DOMAIN q = CallFields OBVIOUS
<1> HIDE DEF q
<1>3. DOMAIN Onward(q, w) = CallFields /\ Onward(q, w).step = "ask"
  BY <1>2 DEF CallFields, Onward
<1>4. DOMAIN Ended(q, w) = CallFields /\ Ended(q, w).step = "ended" BY <1>2, EndedCall
<1>5. PICK x : request' = [calls EXCEPT ![r] = x] /\ DOMAIN x = CallFields /\ x.step # "fetch"
  BY <1>1, <1>3, <1>4 DEF q
<1>6. DOMAIN request' = Requests /\ request'[r] = x
      /\ \A p \in Requests \ {r} : request'[p] = calls[p]
  BY <1>5
<1> QED BY <1>5, <1>6

LEMMA ProceedLands ==
  ASSUME NEW r, NEW ok, NEW mem, NEW calls, Proceed(r, ok, mem, calls)
  PROVE  Lands(r, calls)
<1> DEFINE w == calls[r].views \cup Views(r, calls[r], ok, mem)
<1>1. request' = [calls EXCEPT ![r] = IF GoesOn(r, ok, mem) THEN Onward(calls[r], w)
                                                            ELSE Ended(calls[r], w)]
  BY DEF Proceed
<1> HIDE DEF w
<1> QED BY <1>1 DEF Lands

LEMMA InitCache == Init => CacheInv
<1> SUFFICES ASSUME Init PROVE CacheInv OBVIOUS
<1> USE SourceAssumption
<1>1. file \in [Sources -> Stamped] /\ \A s \in Sources : file[s].version \in {0, 1}
  BY DEF Init, Snapshot, NoSnapshot, Stamped
<1>2. memory = [p \in Processes |-> file] /\ offered = [s \in Sources |-> 1] BY DEF Init
<1>3. \A r \in Requests : request[r] = Idle(r) /\ DOMAIN request = Requests BY DEF Init
<1>4. \A r \in Requests : DOMAIN request[r] = CallFields /\ request[r].step = "idle"
  <2>1. \A r : DOMAIN Idle(r) = CallFields /\ Idle(r).step = "idle" BY DEF Idle, CallFields
  <2> QED BY <1>3, <2>1
<1>5. Typed BY <1>1, <1>2, <1>3, <1>4 DEF Init, Typed
<1>6. VersionInv BY <1>1, <1>2 DEF VersionInv
<1>7. FetchInv BY <1>4 DEF FetchInv, Fetching
<1> QED BY <1>5, <1>6, <1>7 DEF CacheInv

(* What the steps of a request that replace no cache have in common.       *)
LEMMA QuietCall ==
  ASSUME CacheInv, NEW r \in Requests, UNCHANGED <<world, memory, file, crashes>>,
         DOMAIN request' = Requests,
         \A q \in Requests : DOMAIN request'[q] = CallFields,
         \A q \in Requests \ {r} : request'[q] = request[q],
         lock' \in [Processes -> [Sources -> Requests \cup {Free}]],
         \A q \in Requests \ {r} : Fetching(q) => lock'[use[q].process][Source(q)] = q,
         request'[r].step = "fetch" =>
           /\ lock'[use[r].process][Source(r)] = r /\ request'[r].leg = request[r].leg
           /\ request'[r].oldest = offered[Source(r)]
  PROVE  CacheInv'
<1> USE DEF CacheInv
<1>1. Typed' BY DEF Typed, world
<1>2. VersionInv' BY DEF VersionInv, world
<1>3. FetchInv'
  <2> SUFFICES ASSUME NEW q \in Requests, Fetching(q)'
               PROVE  (/\ lock[use[q].process][Source(q)] = q
                       /\ request[q].oldest \in Nat
                       /\ Cache(q).version <= request[q].oldest
                       /\ request[q].oldest <= offered[Source(q)])'
    BY DEF FetchInv
  <2>1. CASE q = r
    <3>1. Source(r)' = Source(r) /\ use' = use /\ memory' = memory /\ offered' = offered
      BY <2>1 DEF Fetching, Source, world
    <3>2. Cache(r).version <= offered[Source(r)] /\ offered[Source(r)] \in Nat
      BY UseType DEF VersionInv, Cache, Typed
    <3> QED BY <2>1, <3>1, <3>2 DEF Fetching, Cache
  <2>2. CASE q # r
    <3>1. request'[q] = request[q] /\ use' = use /\ memory' = memory /\ offered' = offered
      BY <2>2 DEF world
    <3> QED BY <2>2, <3>1 DEF FetchInv, Fetching, Source, Cache
  <2> QED BY <2>1, <2>2
<1> QED BY <1>1, <1>2, <1>3

(* The lock of a cache changes hands; the others' fetches keep theirs.     *)
LEMMA HoldEffect ==
  ASSUME CacheInv, NEW r \in Requests, NEW h \in Requests \cup {Free}, Hold(r, h),
         Unheld(r) \/ Fetching(r)
  PROVE  /\ lock' \in [Processes -> [Sources -> Requests \cup {Free}]]
         /\ lock'[use[r].process][Source(r)] = h
         /\ \A q \in Requests \ {r} : Fetching(q) =>
              /\ lock'[use[q].process][Source(q)] = q
              /\ ~(use[q].process = use[r].process /\ Source(q) = Source(r))
<1> USE DEF CacheInv
<1> DEFINE p == use[r].process
           s == Source(r)
<1>1. p \in Processes /\ s \in Sources BY UseType
<1>2. lock' = [lock EXCEPT ![p][s] = h] BY DEF Hold
<1>3. lock \in [Processes -> [Sources -> Requests \cup {Free}]] BY DEF Typed
<1>4. lock[p][s] \in {Free, r} BY DEF FetchInv, Unheld
<1>5. ASSUME NEW q \in Requests \ {r}, Fetching(q)
      PROVE  /\ lock[use[q].process][Source(q)] = q
             /\ use[q].process \in Processes /\ Source(q) \in Sources
             /\ ~(use[q].process = p /\ Source(q) = s)
  <2>1. lock[use[q].process][Source(q)] = q BY <1>5 DEF FetchInv
  <2> QED BY <2>1, <1>4, UseType, SourceAssumption
<1> HIDE DEF p, s
<1>6. lock' \in [Processes -> [Sources -> Requests \cup {Free}]] /\ lock'[p][s] = h
  BY <1>1, <1>2, <1>3
<1>7. \A x \in Processes, y \in Sources : ~(x = p /\ y = s) => lock'[x][y] = lock[x][y]
  BY <1>1, <1>2, <1>3
<1> QED BY <1>5, <1>6, <1>7 DEF p, s

LEMMA NextOfCalls ==
  ASSUME CacheInv, NEW r \in Requests,
         Open(r) \/ UseFresh(r) \/ StartFetch(r) \/ FailFetch(r)
  PROVE  CacheInv'
<1> USE DEF CacheInv
<1>1. DOMAIN request = Requests /\ \A q \in Requests : DOMAIN request[q] = CallFields
  BY DEF Typed
<1>2. lock \in [Processes -> [Sources -> Requests \cup {Free}]]
      /\ \A q \in Requests : Fetching(q) => lock[use[q].process][Source(q)] = q
  BY DEF Typed, FetchInv
<1>3. CASE Open(r)
  <2>1. /\ request' = [request EXCEPT ![r].step = "ask", ![r].old = Sources]
        /\ UNCHANGED <<world, memory, file, lock, crashes>>
    BY <1>3 DEF Open
  <2>2. /\ DOMAIN request' = Requests /\ DOMAIN request'[r] = CallFields
        /\ request'[r].step = "ask" /\ \A q \in Requests \ {r} : request'[q] = request[q]
    BY <2>1, <1>1 DEF CallFields
  <2> QED BY <1>1, <1>2, <2>1, <2>2, QuietCall
<1>4. CASE UseFresh(r)
  <2>1. UNCHANGED <<world, memory, file, lock, crashes>> /\ Lands(r, request)
    BY <1>4, ProceedLands DEF UseFresh
  <2>2. /\ DOMAIN request' = Requests /\ \A q \in Requests : DOMAIN request'[q] = CallFields
        /\ request'[r].step # "fetch" /\ \A q \in Requests \ {r} : request'[q] = request[q]
    BY <2>1, <1>1, LandsCall
  <2> QED BY <1>2, <2>1, <2>2, QuietCall
<1>5. CASE StartFetch(r)
  <2>1. /\ Unheld(r) /\ Hold(r, r) /\ UNCHANGED <<world, memory, file, crashes>>
        /\ request' = [request EXCEPT ![r].step = "fetch", ![r].since = now,
                                      ![r].oldest = offered[Source(r)]]
    BY <1>5 DEF StartFetch, Ask
  <2>2. /\ DOMAIN request' = Requests /\ DOMAIN request'[r] = CallFields
        /\ request'[r].step = "fetch" /\ request'[r].leg = request[r].leg
        /\ request'[r].oldest = offered[Source(r)]
        /\ \A q \in Requests \ {r} : request'[q] = request[q]
    BY <2>1, <1>1 DEF CallFields
  <2> QED BY <1>1, <2>1, <2>2, HoldEffect, QuietCall
<1>6. CASE FailFetch(r)
  <2>1. /\ Fetching(r) /\ Hold(r, Free) /\ UNCHANGED <<world, memory, file, crashes>>
        /\ Lands(r, request)
    BY <1>6, ProceedLands DEF FailFetch
  <2>2. /\ DOMAIN request' = Requests /\ \A q \in Requests : DOMAIN request'[q] = CallFields
        /\ request'[r].step # "fetch" /\ \A q \in Requests \ {r} : request'[q] = request[q]
    BY <2>1, <1>1, LandsCall
  <2> QED BY <2>1, <2>2, HoldEffect, QuietCall
<1> QED BY <1>3, <1>4, <1>5, <1>6

(* A fetch that ends well: what the caches, the file and the others see.   *)
LEMMA StoreEffect ==
  ASSUME CacheInv, NEW r \in Requests, StoreSnapshot(r)
  PROVE  \E v \in Nat :
           LET p == use[r].process
               s == Source(r) IN
           /\ memory[p][s].version <= v /\ v <= offered[s]
           /\ memory' = [memory EXCEPT ![p][s] = Snapshot(v, now)]
           /\ file' = file \/ file' = [file EXCEPT ![s] = Snapshot(v, now)]
           /\ DOMAIN request' = Requests
           /\ \A q \in Requests : DOMAIN request'[q] = CallFields
           /\ request'[r].step # "fetch"
           /\ \A q \in Requests \ {r} : /\ request'[q].step = request[q].step
                                        /\ request'[q].leg = request[q].leg
                                        /\ request'[q].oldest = request[q].oldest
<1> USE DEF CacheInv
<1> DEFINE p == use[r].process
           s == Source(r)
<1>1. p \in Processes /\ s \in Sources BY UseType
<1>2. /\ request[r].oldest \in Nat /\ memory[p][s].version <= request[r].oldest
      /\ request[r].oldest <= offered[s] /\ offered[s] \in Nat /\ memory[p][s].version \in Nat
  BY <1>1 DEF StoreSnapshot, FetchInv, Cache, Typed, Stamped
<1>3. PICK v \in request[r].oldest..offered[s] :
        /\ memory' = [memory EXCEPT ![p][s] = Snapshot(v, now)]
        /\ file' = [file EXCEPT ![s] = Snapshot(v, now)] \/ file' = file
        /\ Lands(r, Replaced(r))
  BY ProceedLands DEF StoreSnapshot
<1>4. /\ DOMAIN Replaced(r) = Requests
      /\ \A q \in Requests : /\ DOMAIN Replaced(r)[q] = CallFields
                             /\ Replaced(r)[q].step = request[q].step
                             /\ Replaced(r)[q].leg = request[q].leg
                             /\ Replaced(r)[q].oldest = request[q].oldest
  <2>1. DOMAIN Replaced(r) = Requests BY DEF Replaced
  <2>2. ASSUME NEW q \in Requests
        PROVE  /\ DOMAIN Replaced(r)[q] = CallFields
               /\ Replaced(r)[q].step = request[q].step
               /\ Replaced(r)[q].leg = request[q].leg
               /\ Replaced(r)[q].oldest = request[q].oldest
    <3>1. DOMAIN request[q] = CallFields BY DEF Typed
    <3>2. Replaced(r)[q] = IF use[q].process = use[r].process
                           THEN [request[q] EXCEPT !.old = @ \ {Source(r)}] ELSE request[q]
      BY DEF Replaced
    <3> QED BY <3>1, <3>2 DEF CallFields
  <2> QED BY <2>1, <2>2
<1>5. /\ DOMAIN request' = Requests /\ \A q \in Requests : DOMAIN request'[q] = CallFields
      /\ request'[r].step # "fetch" /\ \A q \in Requests \ {r} : request'[q] = Replaced(r)[q]
  BY <1>3, <1>4, LandsCall
<1>6. v \in Nat /\ memory[p][s].version <= v /\ v <= offered[s] BY <1>2
<1> HIDE DEF p, s
<1> QED BY <1>3, <1>4, <1>5, <1>6 DEF p, s

LEMMA NextOfStore ==
  ASSUME CacheInv, NEW r \in Requests, StoreSnapshot(r)
  PROVE  CacheInv'
<1> USE DEF CacheInv
<1> DEFINE p == use[r].process
           s == Source(r)
<1>1. p \in Processes /\ s \in Sources BY UseType
<1>2. UNCHANGED <<world, crashes>> /\ Fetching(r) /\ Hold(r, Free) BY DEF StoreSnapshot
<1>3. PICK v \in Nat :
           /\ memory[p][s].version <= v /\ v <= offered[s]
           /\ memory' = [memory EXCEPT ![p][s] = Snapshot(v, now)]
           /\ file' = file \/ file' = [file EXCEPT ![s] = Snapshot(v, now)]
           /\ DOMAIN request' = Requests
           /\ \A q \in Requests : DOMAIN request'[q] = CallFields
           /\ request'[r].step # "fetch"
           /\ \A q \in Requests \ {r} : /\ request'[q].step = request[q].step
                                        /\ request'[q].leg = request[q].leg
                                        /\ request'[q].oldest = request[q].oldest
  BY StoreEffect
<1>4. /\ lock' \in [Processes -> [Sources -> Requests \cup {Free}]]
      /\ \A q \in Requests \ {r} : Fetching(q) =>
           /\ lock'[use[q].process][Source(q)] = q
           /\ ~(use[q].process = p /\ Source(q) = s)
  BY <1>2, HoldEffect
<1>5. /\ memory \in [Processes -> [Sources -> Stamped]] /\ file \in [Sources -> Stamped]
      /\ now \in Nat
  BY DEF Typed
<1>6. Snapshot(v, now) \in Stamped /\ Snapshot(v, now).version = v
  BY <1>5 DEF Snapshot, Stamped
<1>7. /\ memory' \in [Processes -> [Sources -> Stamped]] /\ file' \in [Sources -> Stamped]
      /\ memory'[p][s] = Snapshot(v, now) /\ file'[s] \in {file[s], Snapshot(v, now)}
      /\ \A x \in Processes, y \in Sources : ~(x = p /\ y = s) => memory'[x][y] = memory[x][y]
      /\ \A y \in Sources \ {s} : file'[y] = file[y]
  <2> HIDE DEF p, s
  <2>1. /\ memory' \in [Processes -> [Sources -> Stamped]]
        /\ memory'[p][s] = Snapshot(v, now)
        /\ \A x \in Processes, y \in Sources : ~(x = p /\ y = s) => memory'[x][y] = memory[x][y]
    BY <1>1, <1>3, <1>5, <1>6
  <2>2. CASE file' = file BY <2>1, <2>2, <1>5
  <2>3. CASE file' = [file EXCEPT ![s] = Snapshot(v, now)]
    BY <2>1, <2>3, <1>1, <1>5, <1>6
  <2> QED BY <2>2, <2>3, <1>3
<1>8. Typed' BY <1>2, <1>3, <1>4, <1>7 DEF Typed, world
<1>9. VersionInv'
  <2>1. offered' = offered BY <1>2 DEF world
  <2>2. ASSUME NEW y \in Sources PROVE file'[y].version <= offered[y]
    <3>1. file[y].version <= offered[y] BY DEF VersionInv
    <3> QED BY <3>1, <1>3, <1>6, <1>7
  <2>3. ASSUME NEW y \in Sources, NEW x \in Processes
        PROVE  memory'[x][y].version <= offered[y]
    <3>1. memory[x][y].version <= offered[y] BY DEF VersionInv
    <3> QED BY <3>1, <1>3, <1>6, <1>7
  <2> HIDE DEF p, s, CacheInv
  <2> QED BY <2>1, <2>2, <2>3 DEF VersionInv
<1>10. FetchInv'
  <2> SUFFICES ASSUME NEW q \in Requests, Fetching(q)'
               PROVE  (/\ lock[use[q].process][Source(q)] = q
                       /\ request[q].oldest \in Nat
                       /\ Cache(q).version <= request[q].oldest
                       /\ request[q].oldest <= offered[Source(q)])'
    BY DEF FetchInv
  <2>1. q # r /\ Fetching(q) BY <1>3 DEF Fetching
  <2>2. Source(q)' = Source(q) /\ use' = use /\ offered' = offered
    BY <1>2, <1>3, <2>1 DEF Source, world
  <2>3. memory'[use[q].process][Source(q)] = memory[use[q].process][Source(q)]
    BY <1>4, <1>7, <2>1, UseType
  <2>4. request'[q].oldest = request[q].oldest BY <1>3, <2>1
  <2> QED BY <1>4, <2>1, <2>2, <2>3, <2>4 DEF FetchInv, Cache
<1> QED BY <1>8, <1>9, <1>10

(* A restarted process has no fetch left, and shows what was saved.        *)
LEMMA NextOfRestart ==
  ASSUME CacheInv, NEW p \in Processes, Restart(p)
  PROVE  CacheInv'
<1> USE DEF CacheInv
<1>1. /\ memory' = [memory EXCEPT ![p] = [s \in Sources |-> file[s]]]
      /\ lock' = [lock EXCEPT ![p] = [s \in Sources |-> Free]]
      /\ request' = [r \in Requests |->
           IF r \in Busy(p) THEN Ended(request[r], {}) ELSE request[r]]
      /\ UNCHANGED <<now, offered, gone, use, file>>
  BY DEF Restart, Load, world
<1>2. /\ memory \in [Processes -> [Sources -> Stamped]] /\ file \in [Sources -> Stamped]
      /\ lock \in [Processes -> [Sources -> Requests \cup {Free}]]
  BY DEF Typed
<1>3. /\ memory' \in [Processes -> [Sources -> Stamped]]
      /\ lock' \in [Processes -> [Sources -> Requests \cup {Free}]]
      /\ \A s \in Sources : memory'[p][s] = file[s]
      /\ \A q \in Processes \ {p} : memory'[q] = memory[q] /\ lock'[q] = lock[q]
  BY <1>1, <1>2
<1>4. ASSUME NEW r \in Requests
      PROVE  /\ DOMAIN request'[r] = CallFields
             /\ Fetching(r)' => Fetching(r) /\ request'[r] = request[r] /\ use[r].process # p
  <2>1. DOMAIN request[r] = CallFields BY DEF Typed
  <2>2. DOMAIN Ended(request[r], {}) = CallFields /\ Ended(request[r], {}).step = "ended"
    BY <2>1, EndedCall
  <2>3. CASE r \in Busy(p)
    <3>1. request'[r] = Ended(request[r], {}) BY <1>1, <2>3
    <3> QED BY <3>1, <2>2 DEF Fetching
  <2>4. CASE r \notin Busy(p)
    <3>1. request'[r] = request[r] BY <1>1, <2>4
    <3> QED BY <3>1, <2>1, <2>4 DEF Fetching, Busy
  <2> QED BY <2>3, <2>4
<1>5. Typed' BY <1>1, <1>2, <1>3, <1>4 DEF Typed
<1>6. VersionInv'
  <2>1. ASSUME NEW s \in Sources, NEW q \in Processes
        PROVE  memory'[q][s].version <= offered[s]
    <3>1. CASE q = p BY <1>3, <3>1 DEF VersionInv
    <3>2. CASE q # p BY <1>3, <3>2 DEF VersionInv
    <3> QED BY <3>1, <3>2
  <2>2. \A s \in Sources : file[s].version <= offered[s] BY DEF VersionInv
  <2> HIDE DEF CacheInv
  <2> QED BY <1>1, <2>1, <2>2 DEF VersionInv
<1>7. FetchInv'
  <2> SUFFICES ASSUME NEW r \in Requests, Fetching(r)'
               PROVE  (/\ lock[use[r].process][Source(r)] = r
                       /\ request[r].oldest \in Nat
                       /\ Cache(r).version <= request[r].oldest
                       /\ request[r].oldest <= offered[Source(r)])'
    BY DEF FetchInv
  <2>1. Fetching(r) /\ request'[r] = request[r] /\ use[r].process # p BY <1>4
  <2>2. Source(r)' = Source(r) /\ use' = use /\ offered' = offered
    BY <1>1, <2>1 DEF Source
  <2>3. use[r].process \in Processes \ {p} BY <2>1, UseType
  <2> QED BY <1>3, <2>1, <2>2, <2>3 DEF FetchInv, Cache
<1> QED BY <1>5, <1>6, <1>7

LEMMA NextOfWorld ==
  ASSUME CacheInv, Tick \/ (\E s \in Sources : Change(s)) \/ UNCHANGED vars
  PROVE  CacheInv'
<1> USE DEF CacheInv
<1>1. /\ now' \in Nat /\ UNCHANGED <<memory, file, lock, use, request>>
  BY DEF Tick, Change, vars, Typed
<1>2. offered' \in [Sources -> Nat] /\ \A s \in Sources : offered'[s] >= offered[s]
  <2>1. offered \in [Sources -> Nat] BY DEF Typed
  <2>2. CASE offered' = offered BY <2>1, <2>2
  <2>3. ASSUME NEW s \in Sources, offered' = [offered EXCEPT ![s] = @ + 1]
        PROVE  offered' \in [Sources -> Nat] /\ \A y \in Sources : offered'[y] >= offered[y]
    BY <2>1, <2>3
  <2> QED BY <2>2, <2>3 DEF Tick, Change, vars
<1>3. Typed' BY <1>1, <1>2 DEF Typed
<1>4. VersionInv'
  <2>1. \A s \in Sources : /\ offered[s] \in Nat /\ offered'[s] \in Nat /\ file[s].version \in Nat
                           /\ \A p \in Processes : memory[p][s].version \in Nat
    BY <1>2 DEF Typed, Stamped
  <2> QED BY <1>1, <1>2, <2>1 DEF VersionInv
<1>5. FetchInv'
  <2> SUFFICES ASSUME NEW r \in Requests, Fetching(r)
               PROVE  /\ lock[use[r].process][Source(r)] = r /\ request[r].oldest \in Nat
                      /\ Cache(r).version <= request[r].oldest
                      /\ request[r].oldest <= offered'[Source(r)]
    BY <1>1 DEF FetchInv, Fetching, Source, Cache
  <2>1. Source(r) \in Sources BY UseType
  <2>2. offered[Source(r)] \in Nat /\ offered'[Source(r)] \in Nat BY <1>2, <2>1 DEF Typed
  <2> QED BY <1>2, <2>1, <2>2 DEF FetchInv
<1> QED BY <1>3, <1>4, <1>5

(* CacheInv is inductive.                                                  *)
LEMMA AlwaysCacheInv == Spec => []CacheInv
<1>1. CacheInv /\ [Next]_vars => CacheInv'
  BY NextOfWorld, NextOfCalls, NextOfStore, NextOfRestart DEF Next, Proceeds
<1> QED BY <1>1, InitCache, PTL DEF Spec
-----------------------------------------------------------------------------
(* The refinement.                                                         *)
Forward(s) ==
  \/ /\ offered'[s] = offered[s] + 1
     /\ UNCHANGED <<Shown(s), file[s].version>>
  \/ \E p \in Processes :
       /\ offered'[s] = offered[s]
       /\ \/ \E v \in Shown(s)[p] .. offered[s] :
               /\ Shown(s)' = [Shown(s) EXCEPT ![p] = v]
               /\ file'[s].version \in {file[s].version, v}
          \/ /\ Shown(s)' = [Shown(s) EXCEPT ![p] = file[s].version]
             /\ file'[s].version = file[s].version
  \/ UNCHANGED <<offered[s], Shown(s), file[s].version>>

LEMMA EachForward ==
  ASSUME CacheInv, [Next]_vars, NEW s \in Sources
  PROVE  Forward(s)
<1> USE DEF CacheInv
<1>1. ASSUME UNCHANGED memory PROVE UNCHANGED Shown(s) BY <1>1 DEF Shown
<1>2. ASSUME UNCHANGED <<memory, file>>, offered'[s] \in {offered[s], offered[s] + 1}
      PROVE  Forward(s)
  BY <1>1, <1>2 DEF Forward
<1>3. CASE Tick \/ UNCHANGED vars BY <1>2, <1>3 DEF Tick, vars
<1>4. ASSUME NEW y \in Sources, Change(y) PROVE Forward(s)
  <2>1. offered' = [offered EXCEPT ![y] = @ + 1] /\ UNCHANGED <<memory, file>>
    BY <1>4 DEF Change
  <2>2. offered'[s] \in {offered[s], offered[s] + 1} BY <2>1 DEF Typed
  <2> QED BY <1>2, <2>1, <2>2
<1>5. ASSUME NEW r \in Requests, Open(r) \/ UseFresh(r) \/ StartFetch(r) \/ FailFetch(r)
      PROVE  Forward(s)
  BY <1>2, <1>5 DEF Open, UseFresh, StartFetch, FailFetch, world
<1>6. ASSUME NEW r \in Requests, StoreSnapshot(r) PROVE Forward(s)
  <2> DEFINE p == use[r].process
             y == Source(r)
  <2>1. p \in Processes /\ y \in Sources BY UseType
  <2>2. PICK v \in Nat :
          /\ memory[p][y].version <= v /\ v <= offered[y]
          /\ memory' = [memory EXCEPT ![p][y] = Snapshot(v, now)]
          /\ file' = file \/ file' = [file EXCEPT ![y] = Snapshot(v, now)]
    BY <1>6, StoreEffect
  <2>3. offered' = offered BY <1>6 DEF StoreSnapshot, world
  <2>4. /\ memory \in [Processes -> [Sources -> Stamped]] /\ file \in [Sources -> Stamped]
        /\ offered \in [Sources -> Nat]
    BY DEF Typed
  <2>5. Snapshot(v, now).version = v BY DEF Snapshot
  <2> HIDE DEF p, y
  <2>6. CASE s # y
    <3>1. \A x \in Processes : memory'[x][s] = memory[x][s] BY <2>1, <2>2, <2>4, <2>6
    <3>2. file'[s] = file[s] BY <2>1, <2>2, <2>4, <2>6
    <3>3. UNCHANGED Shown(s) BY <3>1 DEF Shown
    <3> QED BY <2>3, <3>2, <3>3 DEF Forward
  <2>7. CASE s = y
    <3>1. \A x \in Processes : memory'[x][s].version = IF x = p THEN v ELSE memory[x][s].version
      BY <2>1, <2>2, <2>4, <2>5, <2>7
    <3>2. file'[s].version \in {file[s].version, v} BY <2>1, <2>2, <2>4, <2>5, <2>7
    <3>3. Shown(s)' = [Shown(s) EXCEPT ![p] = v] BY <2>1, <3>1 DEF Shown
    <3>4. v \in Shown(s)[p] .. offered[s]
      <4>1. memory[p][s].version \in Nat /\ offered[s] \in Nat BY <2>1, <2>4 DEF Stamped
      <4> QED BY <4>1, <2>1, <2>2, <2>7 DEF Shown
    <3> QED BY <2>1, <2>3, <3>2, <3>3, <3>4 DEF Forward
  <2> QED BY <2>6, <2>7
<1>7. ASSUME NEW p \in Processes, Restart(p) PROVE Forward(s)
  <2>1. /\ memory' = [memory EXCEPT ![p] = [x \in Sources |-> file[x]]]
        /\ UNCHANGED <<offered, file>>
    BY <1>7 DEF Restart, Load, world
  <2>2. memory \in [Processes -> [Sources -> Stamped]] BY DEF Typed
  <2>3. \A x \in Processes :
          memory'[x][s].version = IF x = p THEN file[s].version ELSE memory[x][s].version
    BY <2>1, <2>2
  <2>4. Shown(s)' = [Shown(s) EXCEPT ![p] = file[s].version] BY <2>3 DEF Shown
  <2> QED BY <2>1, <2>4 DEF Forward
<1> QED BY <1>3, <1>4, <1>5, <1>6, <1>7 DEF Next, Proceeds

(* The caches implement one register for each source: a living process     *)
(* never falls back to an older stock or price sheet, and shows nothing    *)
(* its source did not have.                                                *)
THEOREM Refines == Spec => ImplementsRegister
<1>1. Init => Stock!Init /\ Sheet!Init
  <2> SUFFICES ASSUME Init PROVE Stock!Init /\ Sheet!Init OBVIOUS
  <2>1. \A s \in Sources : file[s].version \in 0..1 /\ offered[s] = 1
    BY DEF Init, Snapshot, NoSnapshot
  <2>2. \A s \in Sources : Shown(s) = [p \in Processes |-> file[s].version]
    BY DEF Init, Shown
  <2> QED BY <2>1, <2>2 DEF Stock!Init, Sheet!Init, Sources
<1>2. CacheInv /\ [Next]_vars => [Stock!Next]_(Stock!vars) /\ [Sheet!Next]_(Sheet!vars)
  <2> SUFFICES ASSUME CacheInv, [Next]_vars
               PROVE  [Stock!Next]_(Stock!vars) /\ [Sheet!Next]_(Sheet!vars)
    OBVIOUS
  <2>1. Forward("inventory") BY EachForward DEF Sources
  <2>2. Forward("sheet") BY EachForward DEF Sources
  <2>3. [Stock!Next]_(Stock!vars)
    BY <2>1 DEF Forward, Stock!Next, Stock!vars, Stock!Change, Stock!Refresh, Stock!Restart
  <2>4. [Sheet!Next]_(Sheet!vars)
    BY <2>2 DEF Forward, Sheet!Next, Sheet!vars, Sheet!Change, Sheet!Refresh, Sheet!Restart
  <2> QED BY <2>3, <2>4
<1> QED BY <1>1, <1>2, AlwaysCacheInv, PTL
        DEF Spec, ImplementsRegister, Stock!Spec, Sheet!Spec
-----------------------------------------------------------------------------
(* The age of what answers are built from.                                 *)

(* Version v was still at its source at time t.                            *)
Lasted(s, v, t) == v = 0 \/ gone[s][v] = 0 \/ gone[s][v] >= t

GoneInv ==
  /\ offered \in [Sources -> 1 .. MaxVersion]
  /\ gone \in [Sources -> [1 .. MaxVersion -> Nat]]
  /\ \A s \in Sources : \A v \in offered[s] .. MaxVersion : gone[s][v] = 0

(* A snapshot was true at most one fetch before its stamp, in memory and   *)
(* in the file another process wrote.                                      *)
Stamps(s, snap) ==
  snap.stamp <= now /\ Lasted(s, snap.version, snap.stamp - FetchTime)
StampInv ==
  \A s \in Sources : Stamps(s, file[s]) /\ \A p \in Processes : Stamps(s, memory[p][s])

(* What a fetch may bring was at its source when the fetch began.          *)
Spans(r) ==
  /\ request[r].since \in Nat /\ request[r].since <= now
  /\ now <= request[r].since + FetchTime
  /\ request[r].oldest >= 1
  /\ \A v \in request[r].oldest .. MaxVersion : Lasted(Source(r), v, request[r].since)
SpanInv == \A r \in Requests : Fetching(r) => Spans(r)

(* A snapshot recent enough to answer at time t.                           *)
Enough(s, snap, t) == Lasted(s, snap.version, t - TTL - FetchTime + 1)

(* The stock a list checked stays recent enough while it refreshes the     *)
(* price sheet: memory is replaced only by what was fetched meanwhile.     *)
Listing(r) ==
  use[r].kind = "list" /\ request[r].leg = "sheet" /\ request[r].step # "ended"
ListInv ==
  \A r \in Requests : Listing(r) =>
    /\ request[r].step \in {"ask", "fetch"}
    /\ request[r].due \in Nat /\ request[r].due <= now
    /\ Enough("inventory", memory[use[r].process]["inventory"], request[r].due)

AgeInv == GoneInv /\ StampInv /\ SpanInv /\ ListInv /\ AnswersAreCurrent

(* Versions of a source, none included.                                    *)
Known == 0 .. MaxVersion

LEMMA KnownVersions ==
  ASSUME CacheInv, AgeInv, NEW s \in Sources
  PROVE  /\ file[s].version \in Known /\ file[s].stamp \in Nat
         /\ \A p \in Processes : memory[p][s].version \in Known /\ memory[p][s].stamp \in Nat
<1>1. offered[s] \in 1 .. MaxVersion BY DEF AgeInv, GoneInv
<1>2. file[s] \in Stamped /\ file[s].version <= offered[s]
  BY DEF CacheInv, Typed, VersionInv
<1>3. ASSUME NEW p \in Processes
      PROVE  memory[p][s].version \in Known /\ memory[p][s].stamp \in Nat
  <2>1. memory[p][s] \in Stamped /\ memory[p][s].version <= offered[s]
    BY DEF CacheInv, Typed, VersionInv
  <2> QED BY <1>1, <2>1, SourceAssumption DEF Stamped, Known
<1> QED BY <1>1, <1>2, <1>3, SourceAssumption DEF Stamped, Known

(* A version that lasted longer lasted.                                    *)
LEMMA LastedEarlier ==
  ASSUME AgeInv, NEW s \in Sources, NEW v \in Known, NEW t \in Int, NEW u \in Int,
         Lasted(s, v, t), u <= t
  PROVE  Lasted(s, v, u)
<1>1. CASE v = 0 BY <1>1 DEF Lasted
<1>2. CASE v # 0
  <2>1. v \in 1 .. MaxVersion BY <1>2, SourceAssumption DEF Known
  <2>2. gone[s][v] \in Nat BY <2>1 DEF AgeInv, GoneInv
  <2> QED BY <1>2, <2>2 DEF Lasted
<1> QED BY <1>1, <1>2

(* Only the present version leaves its source, and it leaves now.          *)
LEMMA LastedStays ==
  ASSUME CacheInv, AgeInv, [Next]_vars, NEW s \in Sources, NEW v \in Known,
         NEW t \in Int, t <= now, Lasted(s, v, t)
  PROVE  Lasted(s, v, t)'
<1>1. CASE UNCHANGED gone BY <1>1 DEF Lasted
<1>2. ASSUME NEW y \in Sources, Change(y) PROVE Lasted(s, v, t)'
  <2>1. gone' = [gone EXCEPT ![y][offered[y]] = now] BY <1>2 DEF Change
  <2>2. gone \in [Sources -> [1 .. MaxVersion -> Nat]] /\ offered[y] \in 1 .. MaxVersion
    BY DEF AgeInv, GoneInv
  <2>3. CASE v = 0 BY <2>3 DEF Lasted
  <2>4. CASE v # 0
    <3>1. v \in 1 .. MaxVersion BY <2>4, SourceAssumption DEF Known
    <3>2. gone'[s][v] = IF s = y /\ v = offered[y] THEN now ELSE gone[s][v]
      BY <2>1, <2>2, <3>1
    <3> QED BY <3>2 DEF Lasted
  <2> QED BY <2>3, <2>4
<1>3. UNCHANGED gone \/ \E y \in Sources : Change(y)
  BY DEF Next, Proceeds, Tick, Open, UseFresh, StartFetch, StoreSnapshot, FailFetch,
         Restart, world, vars
<1> QED BY <1>1, <1>2, <1>3

LEMMA TimeGoesOn == ASSUME CacheInv, [Next]_vars PROVE now \in Nat /\ now' \in Nat /\ now <= now'
<1>1. now \in Nat BY DEF CacheInv, Typed
<1>2. now' \in {now, now + 1}
  BY DEF Next, Proceeds, Tick, Change, Open, UseFresh, StartFetch, StoreSnapshot, FailFetch,
         Restart, world, vars
<1> QED BY <1>1, <1>2

LEMMA StampsStay ==
  ASSUME CacheInv, AgeInv, [Next]_vars, NEW s \in Sources, NEW x \in Stamped,
         x.version \in Known, Stamps(s, x)
  PROVE  Stamps(s, x)'
<1>1. now \in Nat /\ now' \in Nat /\ now <= now' BY TimeGoesOn
<1>2. x.stamp \in Nat /\ x.stamp <= now /\ Lasted(s, x.version, x.stamp - FetchTime)
  BY DEF Stamps, Stamped
<1>3. x.stamp - FetchTime \in Int /\ x.stamp - FetchTime <= now
  BY <1>1, <1>2, SourceAssumption
<1>4. Lasted(s, x.version, x.stamp - FetchTime)' BY <1>2, <1>3, LastedStays
<1> QED BY <1>1, <1>2, <1>4 DEF Stamps

LEMMA EnoughStays ==
  ASSUME CacheInv, AgeInv, [Next]_vars, NEW s \in Sources, NEW x \in Stamped,
         x.version \in Known, NEW t \in Nat, t <= now, Enough(s, x, t)
  PROVE  Enough(s, x, t)'
<1>1. t - TTL - FetchTime + 1 \in Int /\ t - TTL - FetchTime + 1 <= now
  BY TimeGoesOn, SourceAssumption
<1> QED BY <1>1, LastedStays DEF Enough

(* What is younger than the time to live is recent enough, and so is what  *)
(* was fetched by now, for any moment up to now.                           *)
LEMMA YoungIsEnough ==
  ASSUME CacheInv, AgeInv, NEW s \in Sources, NEW x \in Stamped,
         x.version \in Known, Stamps(s, x), Young(x.stamp)
  PROVE  Enough(s, x, now)
<1>1. /\ now \in Nat /\ x.stamp \in Nat /\ now - x.stamp < TTL
      /\ Lasted(s, x.version, x.stamp - FetchTime)
  BY DEF CacheInv, Typed, Stamps, Stamped, Young
<1>2. /\ x.stamp - FetchTime \in Int /\ now - TTL - FetchTime + 1 \in Int
      /\ now - TTL - FetchTime + 1 <= x.stamp - FetchTime
  BY <1>1, SourceAssumption
<1> QED BY <1>1, <1>2, LastedEarlier DEF Enough

LEMMA FetchedIsEnough ==
  ASSUME CacheInv, AgeInv, NEW r \in Requests, Fetching(r),
         NEW v \in request[r].oldest .. offered[Source(r)]
  PROVE  /\ v \in Known /\ Snapshot(v, now) \in Stamped
         /\ Stamps(Source(r), Snapshot(v, now))
         /\ \A t \in Nat : t <= now => Enough(Source(r), Snapshot(v, now), t)
<1> DEFINE s == Source(r)
<1>1. s \in Sources BY UseType DEF CacheInv
<1>2. now \in Nat /\ request[r].oldest \in Nat BY DEF CacheInv, Typed, FetchInv
<1>3. offered[s] \in 1 .. MaxVersion BY <1>1 DEF AgeInv, GoneInv
<1>4. v \in Known /\ v \in request[r].oldest .. MaxVersion
  BY <1>2, <1>3, SourceAssumption DEF Known
<1>5. Snapshot(v, now) \in Stamped /\ Snapshot(v, now).version = v
      /\ Snapshot(v, now).stamp = now
  BY <1>2, <1>4 DEF Snapshot, Stamped, Known
<1>6. request[r].since \in Nat /\ now <= request[r].since + FetchTime
      /\ Lasted(s, v, request[r].since)
  BY <1>4 DEF AgeInv, SpanInv, Spans
<1> HIDE DEF s
<1>7. ASSUME NEW t \in Int, t <= now - FetchTime PROVE Lasted(s, v, t)
  <2>1. t <= request[r].since BY <1>2, <1>6, <1>7, SourceAssumption
  <2> QED BY <1>1, <1>4, <1>6, <2>1, LastedEarlier
<1>8. Stamps(s, Snapshot(v, now))
  BY <1>2, <1>5, <1>7, SourceAssumption DEF Stamps
<1>9. ASSUME NEW t \in Nat, t <= now PROVE Enough(s, Snapshot(v, now), t)
  <2>1. /\ t - TTL - FetchTime + 1 \in Int
        /\ t - TTL - FetchTime + 1 <= now - FetchTime
    BY <1>2, <1>9, SourceAssumption
  <2> QED BY <1>5, <1>7, <2>1 DEF Enough
<1> QED BY <1>4, <1>5, <1>8, <1>9 DEF s

(* An answer built from what is recent enough is current.                  *)
LEMMA ViewIsCurrent ==
  ASSUME AgeInv, NEW q, NEW s \in Sources, NEW x \in Stamped, x.version \in Known,
         NEW t \in Nat, Enough(s, x, t)
  PROVE  Current(View(q, s, x, t))
<1>1. View(q, s, x, t).ago =
        IF x.version = 0 \/ gone[s][x.version] \in {0} \cup (t..now) THEN 0
        ELSE t - gone[s][x.version]
  BY DEF View
<1>2. CASE x.version = 0 \/ gone[s][x.version] = 0
  BY <1>1, <1>2, SourceAssumption DEF Current
<1>3. CASE x.version # 0 /\ gone[s][x.version] # 0
  <2>1. x.version \in 1 .. MaxVersion BY <1>3, SourceAssumption DEF Known
  <2>2. gone[s][x.version] \in Nat BY <2>1 DEF AgeInv, GoneInv
  <2>3. gone[s][x.version] >= t - TTL - FetchTime + 1 BY <1>3 DEF Enough, Lasted
  <2>4. t - gone[s][x.version] < TTL + FetchTime BY <2>2, <2>3, SourceAssumption
  <2>5. View(q, s, x, t).ago \in {0, t - gone[s][x.version]} BY <1>1
  <2> QED BY <2>4, <2>5, SourceAssumption DEF Current
<1> QED BY <1>2, <1>3

LEMMA ViewsAreCurrent ==
  ASSUME CacheInv, AgeInv, NEW r \in Requests, NEW ok \in BOOLEAN, NEW mem,
         \A s \in Sources : mem[s] \in Stamped /\ mem[s].version \in Known, NEW q,
         ok => Enough(Source(r), mem[Source(r)], now),
         Listing(r) => /\ request[r].due \in Nat
                       /\ Enough("inventory", mem["inventory"], request[r].due),
         request[r].step # "ended"
  PROVE  \A w \in Views(r, q, ok, mem) : Current(w)
<1>1. Source(r) \in Sources /\ now \in Nat BY UseType DEF CacheInv, Typed
<1>2. ASSUME ok PROVE Current(View(q, Source(r), mem[Source(r)], now))
  BY <1>1, <1>2, ViewIsCurrent
<1>3. CASE use[r].kind = "search" /\ ok
  BY <1>2, <1>3 DEF Views
<1>4. CASE use[r].kind = "list" /\ request[r].leg = "sheet"
  <2>1. Current(View(q, "inventory", mem["inventory"], request[r].due))
    BY <1>4, ViewIsCurrent DEF Listing, Sources
  <2>2. Source(r) = "sheet" BY <1>4 DEF Source
  <2>3. Views(r, q, ok, mem) =
          {View(q, "inventory", mem["inventory"], request[r].due)}
            \cup {View(q, "sheet", mem["sheet"], now) : x \in {TRUE} \cap {ok}}
    BY <1>4 DEF Views
  <2> QED BY <1>2, <2>1, <2>2, <2>3
<1>5. CASE ~(use[r].kind = "search" /\ ok) /\ ~(use[r].kind = "list" /\ request[r].leg = "sheet")
  BY <1>5 DEF Views
<1> QED BY <1>3, <1>4, <1>5

(* A leg ends: the request goes on with the next one or has its answer.    *)
Alike(q, c) ==
  /\ DOMAIN c = CallFields /\ c.step = q.step /\ c.leg = q.leg /\ c.oldest = q.oldest
  /\ c.since = q.since /\ c.due = q.due /\ c.views = q.views

LEMMA Landing ==
  ASSUME NEW r \in Requests, NEW ok, NEW mem, NEW calls, DOMAIN calls = Requests,
         DOMAIN calls[r] = CallFields, Proceed(r, ok, mem, calls)
  PROVE  /\ DOMAIN request' = Requests
         /\ \A q \in Requests \ {r} : request'[q] = calls[q]
         /\ request'[r].views = calls[r].views \cup Views(r, calls[r], ok, mem)
         /\ request'[r].step # "fetch"
         /\ request'[r].step # "ended" =>
              /\ GoesOn(r, ok, mem) /\ request'[r].step = "ask" /\ request'[r].due = now
              /\ request'[r].leg = "sheet" <=> calls[r].leg = "inventory"
<1> DEFINE w == calls[r].views \cup Views(r, calls[r], ok, mem)
           c == calls[r]
<1>1. request' = [calls EXCEPT ![r] = IF GoesOn(r, ok, mem) THEN Onward(c, w) ELSE Ended(c, w)]
  BY DEF Proceed
<1>2. DOMAIN c = CallFields OBVIOUS
<1> HIDE DEF w, c
<1>3. /\ Onward(c, w).views = w /\ Onward(c, w).step = "ask" /\ Onward(c, w).due = now
      /\ Onward(c, w).leg = IF c.leg = "inventory" THEN "sheet" ELSE "enrich"
  BY <1>2 DEF Onward, CallFields
<1>4. Ended(c, w).views = w /\ Ended(c, w).step = "ended"
  BY <1>2 DEF Ended, CallFields
<1>5. /\ DOMAIN request' = Requests /\ \A q \in Requests \ {r} : request'[q] = calls[q]
      /\ request'[r] = IF GoesOn(r, ok, mem) THEN Onward(c, w) ELSE Ended(c, w)
  BY <1>1
<1>6. CASE GoesOn(r, ok, mem) BY <1>3, <1>5, <1>6 DEF w, c
<1>7. CASE ~GoesOn(r, ok, mem) BY <1>4, <1>5, <1>7 DEF w, c
<1> QED BY <1>6, <1>7

LEMMA StoreLands ==
  ASSUME CacheInv, NEW r \in Requests, StoreSnapshot(r)
  PROVE  \E v \in request[r].oldest .. offered[Source(r)], ok \in BOOLEAN :
           /\ memory' = [memory EXCEPT ![use[r].process][Source(r)] = Snapshot(v, now)]
           /\ file' \in {file, [file EXCEPT ![Source(r)] = Snapshot(v, now)]}
           /\ Proceed(r, ok, memory'[use[r].process], Replaced(r))
BY DEF StoreSnapshot

LEMMA ReplacedAlike ==
  ASSUME CacheInv, NEW r \in Requests
  PROVE  /\ DOMAIN Replaced(r) = Requests
         /\ \A q \in Requests : Alike(request[q], Replaced(r)[q])
         /\ Source(r) \notin Replaced(r)[r].old
<1>1. ASSUME NEW q \in Requests PROVE Alike(request[q], Replaced(r)[q])
  <2>1. DOMAIN request[q] = CallFields BY DEF CacheInv, Typed
  <2>2. Replaced(r)[q] = IF use[q].process = use[r].process
                         THEN [request[q] EXCEPT !.old = @ \ {Source(r)}] ELSE request[q]
    BY DEF Replaced
  <2> QED BY <2>1, <2>2 DEF CallFields, Alike
<1>2. Source(r) \notin Replaced(r)[r].old
  <2>1. DOMAIN request[r] = CallFields BY DEF CacheInv, Typed
  <2>2. Replaced(r)[r] = [request[r] EXCEPT !.old = @ \ {Source(r)}] BY DEF Replaced
  <2>3. Replaced(r)[r].old = request[r].old \ {Source(r)} BY <2>1, <2>2 DEF CallFields
  <2> QED BY <2>3
<1> QED BY <1>1, <1>2 DEF Replaced

LEMMA RequestAlike ==
  ASSUME CacheInv
  PROVE  DOMAIN request = Requests /\ \A q \in Requests : Alike(request[q], request[q])
BY DEF CacheInv, Typed, Alike

(* What a leg that ends leaves true of the fetches, lists and answers.     *)
LEMMA LegEnds ==
  ASSUME CacheInv, AgeInv, NEW r \in Requests, request[r].step \in {"ask", "fetch"},
         UNCHANGED world, NEW calls, DOMAIN calls = Requests,
         \A q \in Requests : Alike(request[q], calls[q]),
         NEW ok \in BOOLEAN, NEW mem, mem = memory'[use[r].process],
         Proceed(r, ok, mem, calls),
         \A s \in Sources : mem[s] \in Stamped /\ mem[s].version \in Known,
         ok => Enough(Source(r), mem[Source(r)], now),
         \A q \in Requests : Listing(q) =>
           Enough("inventory", memory'[use[q].process]["inventory"], request[q].due)
  PROVE  SpanInv' /\ ListInv' /\ AnswersAreCurrent'
<1>1. /\ \A q \in Requests \ {r} : request'[q] = calls[q]
      /\ request'[r].views = calls[r].views \cup Views(r, calls[r], ok, mem)
      /\ request'[r].step # "fetch"
      /\ request'[r].step # "ended" =>
              /\ GoesOn(r, ok, mem) /\ request'[r].step = "ask" /\ request'[r].due = now
              /\ request'[r].leg = "sheet" <=> calls[r].leg = "inventory"
  <2>1. DOMAIN calls[r] = CallFields BY DEF Alike
  <2> QED BY <2>1, Landing
<1>2. \A q \in Requests \ {r} : Alike(request[q], request'[q]) BY <1>1
<1>3. UNCHANGED <<now, offered, gone, use>> BY DEF world
<1>4. SpanInv'
  <2> SUFFICES ASSUME NEW q \in Requests, Fetching(q)' PROVE Spans(q)' BY DEF SpanInv
  <2>1. q # r BY <1>1 DEF Fetching
  <2>2. Alike(request[q], request'[q]) BY <1>2, <2>1
  <2>3. Spans(q) BY <2>2 DEF Fetching, Alike, AgeInv, SpanInv
  <2> QED BY <1>3, <2>2, <2>3 DEF Spans, Alike, Lasted, Source
<1>5. ListInv'
  <2> SUFFICES ASSUME NEW q \in Requests, Listing(q)'
               PROVE  (/\ request[q].step \in {"ask", "fetch"}
                       /\ request[q].due \in Nat /\ request[q].due <= now
                       /\ Enough("inventory", memory[use[q].process]["inventory"],
                                 request[q].due))'
    BY SMTT(30) DEF ListInv
  <2>1. CASE q # r
    <3>1. Alike(request[q], request'[q]) BY <1>2, <2>1
    <3>2. Listing(q) BY <1>3, <3>1 DEF Listing, Alike
    <3>3. /\ request[q].step \in {"ask", "fetch"}
          /\ request[q].due \in Nat /\ request[q].due <= now
      BY <3>2 DEF AgeInv, ListInv
    <3>4. Enough("inventory", memory'[use[q].process]["inventory"], request[q].due) BY <3>2
    <3> QED BY <1>3, <3>1, <3>3, <3>4 DEF Alike, Enough, Lasted
  <2>2. CASE q = r
    <3>1. /\ GoesOn(r, ok, mem) /\ request'[r].step = "ask" /\ request'[r].due = now
          /\ calls[r].leg = "inventory" /\ use[r].kind = "list"
      BY <1>1, <1>3, <2>2 DEF Listing
    <3>2. request[r].leg = "inventory" BY <3>1 DEF Alike
    <3>3. ok /\ Source(r) = "inventory" BY <3>1, <3>2 DEF GoesOn, Source
    <3>4. now \in Nat /\ now <= now BY DEF CacheInv, Typed
    <3>5. Enough("inventory", memory'[use[r].process]["inventory"], now) BY SMTT(30), <3>3
    <3>6. Enough("inventory", memory[use[r].process]["inventory"], request[r].due)'
      BY <1>3, <3>1, <3>5 DEF Enough, Lasted
    <3> QED BY <1>3, <2>2, <3>1, <3>4, <3>6
  <2> QED BY <2>1, <2>2
<1>6. AnswersAreCurrent'
  <2> SUFFICES ASSUME NEW q \in Requests, NEW w \in request'[q].views PROVE Current(w)
    BY DEF AnswersAreCurrent, Current
  <2>1. CASE w \in request[q].views BY <2>1 DEF AgeInv, AnswersAreCurrent
  <2>2. CASE w \notin request[q].views
    <3>1. q = r BY <1>2, <2>2 DEF Alike
    <3>2. w \in Views(r, calls[r], ok, mem) BY <1>1, <2>2, <3>1 DEF Alike
    <3>3. Listing(r) => /\ request[r].due \in Nat
                        /\ Enough("inventory", mem["inventory"], request[r].due)
      BY DEF AgeInv, ListInv
    <3> QED BY <3>2, <3>3, ViewsAreCurrent
  <2> QED BY <2>1, <2>2
<1> QED BY <1>4, <1>5, <1>6

LEMMA InitAge == Init => AgeInv
<1> SUFFICES ASSUME Init PROVE AgeInv OBVIOUS
<1> USE SourceAssumption
<1>1. GoneInv BY DEF Init, GoneInv
<1>2. \A t : \A s \in Sources, v \in {0, 1} : Lasted(s, v, t)
  <2>1. \A s \in Sources : gone[s][1] = 0 BY DEF Init
  <2> QED BY <2>1 DEF Lasted
<1>3. StampInv
  <2>1. \A s \in Sources : file[s] \in {Snapshot(1, 0), NoSnapshot} /\ now = 1 BY DEF Init
  <2>2. \A s \in Sources : file[s].version \in {0, 1} /\ file[s].stamp <= now
    BY <2>1 DEF Snapshot, NoSnapshot
  <2>3. \A s \in Sources : Stamps(s, file[s]) BY <1>2, <2>2 DEF Stamps
  <2>4. \A p \in Processes : memory[p] = file BY DEF Init
  <2> QED BY <2>3, <2>4 DEF StampInv
<1>4. \A r \in Requests : request[r] = Idle(r) BY DEF Init
<1>5. \A r : Idle(r).step = "idle" /\ Idle(r).views = {} /\ Idle(r).leg = FirstLeg(r)
  BY DEF Idle
<1>6. SpanInv BY <1>4, <1>5 DEF SpanInv, Fetching
<1>7. ListInv BY <1>4, <1>5 DEF ListInv, Listing, FirstLeg
<1>8. AnswersAreCurrent BY <1>4, <1>5 DEF AnswersAreCurrent
<1> QED BY <1>1, <1>3, <1>6, <1>7, <1>8 DEF AgeInv

LEMMA AgeOfLegs ==
  ASSUME CacheInv, AgeInv, NEW r \in Requests, UseFresh(r) \/ FailFetch(r)
  PROVE  AgeInv'
<1> DEFINE mem == memory'[use[r].process]
<1>1. UNCHANGED <<world, memory, file>> /\ request[r].step \in {"ask", "fetch"}
  BY DEF UseFresh, FailFetch, Fetching
<1>2. UNCHANGED <<now, offered, gone, use>> BY <1>1 DEF world
<1>3. use[r].process \in Processes /\ Source(r) \in Sources BY UseType DEF CacheInv
<1>4. \A s \in Sources : mem[s] \in Stamped /\ mem[s].version \in Known
  BY <1>1, <1>3, KnownVersions DEF CacheInv, Typed
<1>5. PICK ok \in BOOLEAN : /\ Proceed(r, ok, mem, request)
                            /\ ok => Enough(Source(r), mem[Source(r)], now)
  <2>1. CASE UseFresh(r)
    <3>1. Proceed(r, TRUE, mem, request) BY <1>1, <2>1 DEF UseFresh
    <3>2. Young(Cache(r).stamp) BY <2>1 DEF UseFresh, Served, Fresh
    <3>3. Cache(r) = mem[Source(r)] BY <1>1 DEF Cache
    <3>4. Stamps(Source(r), Cache(r)) BY <1>3 DEF AgeInv, StampInv, Cache
    <3>5. Enough(Source(r), mem[Source(r)], now)
      BY <1>3, <1>4, <3>2, <3>3, <3>4, YoungIsEnough
    <3> QED BY <3>1, <3>5
  <2>2. CASE FailFetch(r)
    <3>1. Proceed(r, FALSE, mem, request) BY <1>1, <2>2 DEF FailFetch
    <3> QED BY <3>1
  <2> QED BY <2>1, <2>2
<1>6. \A q \in Requests : Listing(q) =>
        Enough("inventory", memory'[use[q].process]["inventory"], request[q].due)
  BY <1>1 DEF AgeInv, ListInv
<1>7. SpanInv' /\ ListInv' /\ AnswersAreCurrent'
  <2> HIDE DEF mem
  <2> QED BY <1>1, <1>4, <1>5, <1>6, RequestAlike, LegEnds DEF mem
<1>8. GoneInv' /\ StampInv'
  BY <1>1, <1>2 DEF AgeInv, GoneInv, StampInv, Stamps, Lasted
<1> QED BY <1>7, <1>8 DEF AgeInv

LEMMA AgeOfStore ==
  ASSUME CacheInv, AgeInv, NEW r \in Requests, StoreSnapshot(r)
  PROVE  AgeInv'
<1> DEFINE p == use[r].process
           s == Source(r)
           mem == memory'[p]
<1>1. p \in Processes /\ s \in Sources BY UseType DEF CacheInv
<1>2. /\ Fetching(r) /\ UNCHANGED world /\ request[r].step \in {"ask", "fetch"}
      /\ UNCHANGED <<now, offered, gone, use>>
  BY DEF StoreSnapshot, world, Fetching
<1>3. PICK v \in request[r].oldest .. offered[s], ok \in BOOLEAN :
        /\ memory' = [memory EXCEPT ![p][s] = Snapshot(v, now)]
        /\ file' \in {file, [file EXCEPT ![s] = Snapshot(v, now)]}
        /\ Proceed(r, ok, mem, Replaced(r))
  BY StoreLands
<1> DEFINE x == Snapshot(v, now)
<1>4. /\ x.version \in Known /\ x \in Stamped /\ Stamps(s, x)
      /\ \A t \in Nat : t <= now => Enough(s, x, t)
  <2>1. x.version = v BY DEF Snapshot
  <2> QED BY <1>2, <2>1, FetchedIsEnough
<1>5. memory \in [Processes -> [Sources -> Stamped]] /\ file \in [Sources -> Stamped]
  BY DEF CacheInv, Typed
<1> HIDE DEF p, s, x
<1>6. \A q \in Processes, y \in Sources :
        memory'[q][y] = IF q = p /\ y = s THEN x ELSE memory[q][y]
  BY <1>1, <1>3, <1>5 DEF x
<1>7. \A y \in Sources : file'[y] \in {file[y], IF y = s THEN x ELSE file[y]}
  BY <1>1, <1>3, <1>5 DEF x
<1>8. \A y \in Sources : mem[y] \in Stamped /\ mem[y].version \in Known
  <2> TAKE y \in Sources
  <2>1. mem[y] \in {memory[p][y], x} BY <1>1, <1>6
  <2> QED BY <1>1, <1>4, <1>5, <2>1, KnownVersions
<1>9. Enough(s, mem[s], now)
  <2>1. now \in Nat /\ now <= now BY DEF CacheInv, Typed
  <2> QED BY <1>1, <1>4, <1>6, <2>1
<1>10. ASSUME NEW q \in Requests, Listing(q)
       PROVE  Enough("inventory", memory'[use[q].process]["inventory"], request[q].due)
  <2>1. /\ request[q].due \in Nat /\ request[q].due <= now
        /\ Enough("inventory", memory[use[q].process]["inventory"], request[q].due)
    BY <1>10 DEF AgeInv, ListInv
  <2>2. use[q].process \in Processes BY UseType DEF CacheInv
  <2>3. CASE use[q].process = p /\ "inventory" = s
    BY <1>1, <1>4, <1>6, <2>1, <2>3
  <2>4. CASE ~(use[q].process = p /\ "inventory" = s)
    BY <1>6, <2>1, <2>2, <2>4 DEF Sources
  <2> QED BY <2>3, <2>4
<1>11. SpanInv' /\ ListInv' /\ AnswersAreCurrent'
  <2>1. DOMAIN Replaced(r) = Requests /\ \A q \in Requests : Alike(request[q], Replaced(r)[q])
    BY ReplacedAlike
  <2> HIDE DEF mem
  <2>2. mem = memory'[use[r].process] BY DEF mem, p
  <2> QED BY <1>2, <1>3, <1>8, <1>9, <1>10, <2>1, <2>2, LegEnds DEF s
<1>12. StampInv'
  <2>1. \A y \in Sources : /\ Stamps(y, file[y])
                           /\ \A q \in Processes : Stamps(y, memory[q][y])
    BY DEF AgeInv, StampInv
  <2>2. \A y \in Sources : /\ Stamps(y, file'[y])
                           /\ \A q \in Processes : Stamps(y, memory'[q][y])
    BY <1>4, <1>6, <1>7, <2>1
  <2> QED BY <1>2, <2>2 DEF StampInv, Stamps, Lasted
<1>13. GoneInv' BY <1>2 DEF AgeInv, GoneInv
<1> QED BY <1>11, <1>12, <1>13 DEF AgeInv

LEMMA AgeOfCalls ==
  ASSUME CacheInv, AgeInv, NEW r \in Requests, Open(r) \/ StartFetch(r)
  PROVE  AgeInv'
<1>1. UNCHANGED <<memory, file, now, offered, gone, use>>
  BY DEF Open, StartFetch, world
<1>2. DOMAIN request = Requests /\ \A q \in Requests : DOMAIN request[q] = CallFields
  BY DEF CacheInv, Typed
<1>3. /\ \A q \in Requests \ {r} : request'[q] = request[q]
      /\ request'[r].views = request[r].views /\ request'[r].leg = request[r].leg
      /\ request'[r].due = request[r].due
      /\ request'[r].step \in {"ask", "fetch"}
      /\ request[r].step \in {"idle", "ask"}
      /\ request'[r].step = "fetch" =>
           request'[r].since = now /\ request'[r].oldest = offered[Source(r)]
  <2>1. CASE Open(r)
    <3>1. request' = [request EXCEPT ![r].step = "ask", ![r].old = Sources]
          /\ request[r].step = "idle"
      BY <2>1 DEF Open
    <3> QED BY <1>2, <3>1 DEF CallFields
  <2>2. CASE StartFetch(r)
    <3>1. /\ request' = [request EXCEPT ![r].step = "fetch", ![r].since = now,
                                        ![r].oldest = offered[Source(r)]]
          /\ request[r].step = "ask"
      BY <2>2 DEF StartFetch, Ask
    <3> QED BY <1>2, <3>1 DEF CallFields
  <2> QED BY <2>1, <2>2
<1>4. SpanInv'
  <2> SUFFICES ASSUME NEW q \in Requests, Fetching(q)' PROVE Spans(q)' BY DEF SpanInv
  <2>1. CASE q # r
    <3>1. request'[q] = request[q] BY <1>3, <2>1
    <3>2. Spans(q) BY <3>1 DEF Fetching, AgeInv, SpanInv
    <3> QED BY <1>1, <3>1, <3>2 DEF Spans, Lasted, Source
  <2>2. CASE q = r
    <3>1. request'[r].since = now /\ request'[r].oldest = offered[Source(r)]
          /\ Source(r)' = Source(r)
      BY <1>3, <2>2 DEF Fetching, Source
    <3>2. Source(r) \in Sources /\ now \in Nat BY UseType DEF CacheInv, Typed
    <3>3. offered[Source(r)] \in 1 .. MaxVersion
          /\ \A v \in offered[Source(r)] .. MaxVersion : gone[Source(r)][v] = 0
      BY <3>2 DEF AgeInv, GoneInv
    <3>4. now <= now + FetchTime /\ now <= now /\ offered[Source(r)] >= 1
      BY <3>2, <3>3, SourceAssumption
    <3> QED BY <1>1, <2>2, <3>1, <3>2, <3>3, <3>4 DEF Spans, Lasted
  <2> QED BY <2>1, <2>2
<1>5. ListInv'
  <2> SUFFICES ASSUME NEW q \in Requests, Listing(q)'
               PROVE  (/\ request[q].step \in {"ask", "fetch"}
                       /\ request[q].due \in Nat /\ request[q].due <= now
                       /\ Enough("inventory", memory[use[q].process]["inventory"],
                                 request[q].due))'
    BY DEF ListInv
  <2>1. Listing(q) /\ request'[q].due = request[q].due
        /\ request'[q].step \in {request[q].step, "ask", "fetch"}
    BY <1>1, <1>3 DEF Listing
  <2>2. /\ request[q].step \in {"ask", "fetch"} /\ request[q].due \in Nat
        /\ request[q].due <= now
        /\ Enough("inventory", memory[use[q].process]["inventory"], request[q].due)
    BY <2>1 DEF AgeInv, ListInv
  <2> QED BY <1>1, <2>1, <2>2 DEF Enough, Lasted
<1>6. AnswersAreCurrent'
  <2>1. \A q \in Requests : request'[q].views = request[q].views BY <1>3
  <2> QED BY <2>1 DEF AgeInv, AnswersAreCurrent, Current
<1>7. GoneInv' /\ StampInv' BY <1>1 DEF AgeInv, GoneInv, StampInv, Stamps, Lasted
<1> QED BY <1>4, <1>5, <1>6, <1>7 DEF AgeInv

LEMMA AgeOfRestart ==
  ASSUME CacheInv, AgeInv, NEW p \in Processes, Restart(p)
  PROVE  AgeInv'
<1>1. /\ memory' = [memory EXCEPT ![p] = [s \in Sources |-> file[s]]]
      /\ request' = [r \in Requests |->
           IF r \in Busy(p) THEN Ended(request[r], {}) ELSE request[r]]
      /\ UNCHANGED <<now, offered, gone, use, file>>
  BY DEF Restart, Load, world
<1>2. memory \in [Processes -> [Sources -> Stamped]] BY DEF CacheInv, Typed
<1>3. \A q \in Processes, s \in Sources :
        memory'[q][s] = IF q = p THEN file[s] ELSE memory[q][s]
  BY <1>1, <1>2
<1>4. ASSUME NEW q \in Requests
      PROVE  \/ request'[q].step = "ended" /\ request'[q].views = {}
             \/ request'[q] = request[q] /\ q \notin Busy(p)
  <2>1. DOMAIN request[q] = CallFields BY DEF CacheInv, Typed
  <2>2. Ended(request[q], {}).step = "ended" /\ Ended(request[q], {}).views = {}
    BY <2>1 DEF Ended, CallFields
  <2> QED BY <1>1, <2>2
<1>5. StampInv'
  <2>1. \A s \in Sources : Stamps(s, file[s]) /\ \A q \in Processes : Stamps(s, memory'[q][s])
    BY <1>3 DEF AgeInv, StampInv
  <2> QED BY <1>1, <2>1 DEF StampInv, Stamps, Lasted
<1>6. SpanInv'
  <2> SUFFICES ASSUME NEW q \in Requests, Fetching(q)' PROVE Spans(q)' BY DEF SpanInv
  <2>1. request'[q] = request[q] BY <1>4 DEF Fetching
  <2>2. Spans(q) BY <2>1 DEF Fetching, AgeInv, SpanInv
  <2> QED BY <1>1, <2>1, <2>2 DEF Spans, Lasted, Source
<1>7. ListInv'
  <2> SUFFICES ASSUME NEW q \in Requests, Listing(q)'
               PROVE  (/\ request[q].step \in {"ask", "fetch"}
                       /\ request[q].due \in Nat /\ request[q].due <= now
                       /\ Enough("inventory", memory[use[q].process]["inventory"],
                                 request[q].due))'
    BY DEF ListInv
  <2>1. request'[q] = request[q] /\ q \notin Busy(p) BY <1>4 DEF Listing
  <2>2. Listing(q) BY <1>1, <2>1 DEF Listing
  <2>3. /\ request[q].step \in {"ask", "fetch"} /\ request[q].due \in Nat
        /\ request[q].due <= now
        /\ Enough("inventory", memory[use[q].process]["inventory"], request[q].due)
    BY <2>2 DEF AgeInv, ListInv
  <2>4. use[q].process \in Processes \ {p} BY <2>1, <2>3, UseType DEF Busy, CacheInv
  <2>5. memory'[use[q].process]["inventory"] = memory[use[q].process]["inventory"]
    BY <1>3, <2>4 DEF Sources
  <2> QED BY <1>1, <2>1, <2>3, <2>5 DEF Enough, Lasted
<1>8. AnswersAreCurrent'
  <2>1. \A q \in Requests : request'[q].views \in {{}, request[q].views} BY <1>4
  <2> QED BY <2>1 DEF AgeInv, AnswersAreCurrent, Current
<1>9. GoneInv' BY <1>1 DEF AgeInv, GoneInv
<1> QED BY <1>5, <1>6, <1>7, <1>8, <1>9 DEF AgeInv

(* The clock may not pass a fetch's limit, and what a source drops now was *)
(* there until now.                                                        *)
LEMMA AgeOfWorld ==
  ASSUME CacheInv, AgeInv, Tick \/ (\E s \in Sources : Change(s)) \/ UNCHANGED vars
  PROVE  AgeInv'
<1>1. [Next]_vars BY DEF Next
<1>2. now \in Nat /\ now' \in Nat /\ now <= now' BY <1>1, TimeGoesOn
<1>3. UNCHANGED <<memory, file, use, request>> BY DEF Tick, Change, vars
<1>4. GoneInv'
  <2>1. CASE UNCHANGED <<offered, gone>> BY <2>1 DEF AgeInv, GoneInv
  <2>2. ASSUME NEW s \in Sources, Change(s) PROVE GoneInv'
    <3>1. /\ offered[s] < MaxVersion /\ offered' = [offered EXCEPT ![s] = @ + 1]
          /\ gone' = [gone EXCEPT ![s][offered[s]] = now]
      BY <2>2 DEF Change
    <3>2. /\ offered \in [Sources -> 1 .. MaxVersion]
          /\ gone \in [Sources -> [1 .. MaxVersion -> Nat]]
          /\ \A y \in Sources : \A v \in offered[y] .. MaxVersion : gone[y][v] = 0
      BY DEF AgeInv, GoneInv
    <3>3. offered' \in [Sources -> 1 .. MaxVersion] BY <3>1, <3>2, SourceAssumption
    <3>4. gone' \in [Sources -> [1 .. MaxVersion -> Nat]] BY <1>2, <3>1, <3>2
    <3>5. ASSUME NEW y \in Sources, NEW v \in offered'[y] .. MaxVersion PROVE gone'[y][v] = 0
      <4>1. CASE y = s
        <5>1. offered'[s] = offered[s] + 1 BY <3>1, <3>2
        <5>2. v \in offered[s] .. MaxVersion /\ v # offered[s] BY <3>2, <3>5, <4>1, <5>1
        <5>3. v \in 1 .. MaxVersion /\ gone[s][v] = 0 BY <3>2, <5>2
        <5> QED BY <3>1, <3>2, <4>1, <5>2, <5>3
      <4>2. CASE y # s BY <3>1, <3>2, <4>2
      <4> QED BY <4>1, <4>2
    <3> QED BY <3>3, <3>4, <3>5 DEF GoneInv
  <2> QED BY <2>1, <2>2 DEF Tick, vars
<1>5. StampInv'
  <2>1. ASSUME NEW s \in Sources
        PROVE  Stamps(s, file[s])' /\ \A p \in Processes : Stamps(s, memory[p][s])'
    <3>1. PICK x : x = file[s] OBVIOUS
    <3>2. x \in Stamped /\ x.version \in Known /\ Stamps(s, x)
      BY <3>1, KnownVersions DEF CacheInv, Typed, AgeInv, StampInv
    <3>3. Stamps(s, x)' BY <1>1, <3>2, StampsStay
    <3>4. Stamps(s, file[s])' BY <1>3, <3>1, <3>3 DEF Stamps, Lasted
    <3>5. ASSUME NEW p \in Processes PROVE Stamps(s, memory[p][s])'
      <4>1. PICK y : y = memory[p][s] OBVIOUS
      <4>2. y \in Stamped /\ y.version \in Known /\ Stamps(s, y)
        BY <4>1, KnownVersions DEF CacheInv, Typed, AgeInv, StampInv
      <4>3. Stamps(s, y)' BY <1>1, <4>2, StampsStay
      <4> QED BY <1>3, <4>1, <4>3 DEF Stamps, Lasted
    <3> QED BY <3>4, <3>5
  <2> QED BY <2>1 DEF StampInv
<1>6. SpanInv'
  <2> SUFFICES ASSUME NEW q \in Requests, Fetching(q)' PROVE Spans(q)' BY DEF SpanInv
  <2>1. Fetching(q) /\ Spans(q) BY <1>3 DEF Fetching, AgeInv, SpanInv
  <2>2. /\ request[q].since \in Nat /\ request[q].since <= now
        /\ now <= request[q].since + FetchTime /\ request[q].oldest >= 1
        /\ request[q].oldest \in Nat /\ Source(q) \in Sources
    BY <2>1, UseType DEF Spans, CacheInv, FetchInv
  <2>3. now' <= request[q].since + FetchTime
    <3>1. CASE Tick
      <4>1. now' = now + 1 /\ now - request[q].since < FetchTime BY <2>1, <3>1 DEF Tick
      <4> QED BY <1>2, <2>2, <4>1, SourceAssumption
    <3>2. CASE ~Tick BY <2>2, <3>2 DEF Change, vars
    <3> QED BY <3>1, <3>2
  <2>4. request[q].since <= now' BY <1>2, <2>2
  <2>5. PICK s \in Sources : s = Source(q) BY <2>2
  <2>6. PICK t \in Nat : t = request[q].since BY <2>2
  <2>7. ASSUME NEW v \in request[q].oldest .. MaxVersion PROVE Lasted(s, v, t)'
    <3>1. v \in Known BY <2>2 DEF Known
    <3>2. Lasted(s, v, t) BY <2>1, <2>5, <2>6 DEF Spans
    <3> QED BY <1>1, <2>2, <2>6, <3>1, <3>2, LastedStays
  <2>8. \A v \in request[q].oldest .. MaxVersion : Lasted(Source(q), v, request[q].since)'
    BY <1>3, <2>5, <2>6, <2>7 DEF Lasted, Source
  <2> QED BY <1>3, <2>2, <2>3, <2>4, <2>8 DEF Spans
<1>7. ListInv'
  <2> SUFFICES ASSUME NEW q \in Requests, Listing(q)'
               PROVE  (/\ request[q].step \in {"ask", "fetch"}
                       /\ request[q].due \in Nat /\ request[q].due <= now
                       /\ Enough("inventory", memory[use[q].process]["inventory"],
                                 request[q].due))'
    BY DEF ListInv
  <2>1. Listing(q) BY <1>3 DEF Listing
  <2>2. /\ request[q].step \in {"ask", "fetch"} /\ request[q].due \in Nat
        /\ request[q].due <= now
        /\ Enough("inventory", memory[use[q].process]["inventory"], request[q].due)
    BY <2>1 DEF AgeInv, ListInv
  <2>3. PICK t \in Nat : t = request[q].due BY <2>2
  <2>4. PICK x : x = memory[use[q].process]["inventory"] OBVIOUS
  <2>5. "inventory" \in Sources /\ use[q].process \in Processes BY UseType DEF CacheInv, Sources
  <2>6. x \in Stamped /\ x.version \in Known
    BY <2>4, <2>5, KnownVersions DEF CacheInv, Typed
  <2>7. Enough("inventory", x, t)' BY <1>1, <2>2, <2>3, <2>4, <2>5, <2>6, EnoughStays
  <2>8. Enough("inventory", memory[use[q].process]["inventory"], request[q].due)'
    BY <1>3, <2>3, <2>4, <2>7 DEF Enough, Lasted
  <2> QED BY <1>2, <1>3, <2>2, <2>8
<1>8. AnswersAreCurrent' BY <1>3 DEF AgeInv, AnswersAreCurrent, Current
<1> QED BY <1>4, <1>5, <1>6, <1>7, <1>8 DEF AgeInv

(* A product that left its source longer ago than the time to live and one *)
(* fetch is in no answer whose age was checked: what a cache holds lasted  *)
(* until one fetch before its stamp, and the stamp travels with the file.  *)
THEOREM NoStaleAnswers == Spec => []AnswersAreCurrent
<1>1. CacheInv /\ AgeInv /\ [Next]_vars => AgeInv'
  BY AgeOfWorld, AgeOfCalls, AgeOfLegs, AgeOfStore, AgeOfRestart DEF Next, Proceeds
<1>2. AgeInv => AnswersAreCurrent BY DEF AgeInv
<1> QED BY <1>1, <1>2, InitAge, AlwaysCacheInv, PTL DEF Spec

(* "We have nothing" is said of a stock that was read after the question:  *)
(* a refresh in the process takes the source off the list of what is old,  *)
(* and a stock without products is never taken for fresh.                  *)
THEOREM EmptyWasRead == Spec => []EmptyIsVerified
<1>1. Init => EmptyIsVerified
  <2>1. \A r : Idle(r).views = {} BY DEF Idle
  <2>2. Init => \A r \in Requests : request[r] = Idle(r) BY DEF Init
  <2> QED BY <2>1, <2>2 DEF EmptyIsVerified
<1>2. ASSUME CacheInv, EmptyIsVerified, [Next]_vars PROVE EmptyIsVerified'
  <2>1. UNCHANGED use
    BY <1>2 DEF Next, Proceeds, Tick, Change, Open, UseFresh, StartFetch, StoreSnapshot,
                FailFetch, Restart, world, vars
  <2> SUFFICES ASSUME NEW q \in Requests, use[q].kind = "search",
                      NEW w \in request'[q].views, w.source = "inventory"
               PROVE  ~w.recalled
    BY <2>1 DEF EmptyIsVerified
  <2>2. w \in request[q].views => ~w.recalled BY <1>2 DEF EmptyIsVerified
  <2>3. /\ DOMAIN request = Requests /\ \A r \in Requests : DOMAIN request[r] = CallFields
    BY <1>2 DEF CacheInv, Typed
  <2>4. CASE UNCHANGED request BY <2>2, <2>4
  <2>5. ASSUME NEW r \in Requests, Open(r) \/ StartFetch(r) PROVE ~w.recalled
    <3>1. request'[q].views = request[q].views BY <2>3, <2>5 DEF Open, StartFetch, Ask, CallFields
    <3> QED BY <2>2, <3>1
  <2>6. ASSUME NEW p \in Processes, Restart(p) PROVE ~w.recalled
    <3>1. request'[q] \in {request[q], Ended(request[q], {})} BY <2>6 DEF Restart
    <3>2. Ended(request[q], {}).views = {} BY <2>3 DEF Ended, CallFields
    <3> QED BY <2>2, <3>1, <3>2
  <2>7. ASSUME NEW r \in Requests, NEW ok \in BOOLEAN, NEW mem, NEW calls,
               DOMAIN calls = Requests, \A c \in Requests : Alike(request[c], calls[c]),
               Proceed(r, ok, mem, calls),
               ok /\ Source(r) = "inventory" /\ use[r].kind = "search" =>
                 ~(mem["inventory"].version \in EmptyOnes /\ "inventory" \in calls[r].old)
        PROVE  ~w.recalled
    <3>1. /\ \A c \in Requests \ {r} : request'[c] = calls[c]
          /\ request'[r].views = calls[r].views \cup Views(r, calls[r], ok, mem)
      BY <2>7, Landing DEF Alike
    <3>2. CASE w \in request[q].views BY <2>2, <3>2
    <3>3. CASE w \notin request[q].views
      <4>1. q = r /\ w \in Views(r, calls[r], ok, mem) BY <2>7, <3>1, <3>3 DEF Alike
      <4>2. ok /\ w = View(calls[r], Source(r), mem[Source(r)], now) BY <4>1 DEF Views
      <4>3. Source(r) = "inventory" BY <4>2 DEF View
      <4>4. w.recalled = (mem["inventory"].version \in EmptyOnes /\ "inventory" \in calls[r].old)
        BY <4>2, <4>3 DEF View
      <4> QED BY <2>7, <4>1, <4>2, <4>3, <4>4
    <3> QED BY <3>2, <3>3
  <2>8. ASSUME NEW r \in Requests, UseFresh(r) PROVE ~w.recalled
    <3>1. Proceed(r, TRUE, memory[use[r].process], request) BY <2>8 DEF UseFresh
    <3>2. Source(r) = "inventory" => memory[use[r].process]["inventory"].version \notin EmptyOnes
      BY <2>8 DEF UseFresh, Served, Fresh, Products, Cache
    <3> QED BY <1>2, <2>7, <3>1, <3>2, RequestAlike
  <2>9. ASSUME NEW r \in Requests, FailFetch(r) PROVE ~w.recalled
    <3>1. Proceed(r, FALSE, memory[use[r].process], request) BY <2>9 DEF FailFetch
    <3> QED BY <1>2, <2>7, <3>1, RequestAlike
  <2>10. ASSUME NEW r \in Requests, StoreSnapshot(r) PROVE ~w.recalled
    <3>1. PICK ok \in BOOLEAN : Proceed(r, ok, memory'[use[r].process], Replaced(r))
      BY <1>2, <2>10, StoreLands
    <3>2. /\ DOMAIN Replaced(r) = Requests
          /\ \A c \in Requests : Alike(request[c], Replaced(r)[c])
          /\ Source(r) \notin Replaced(r)[r].old
      BY <1>2, ReplacedAlike
    <3> QED BY <2>7, <3>1, <3>2
  <2>11. \/ UNCHANGED request \/ (\E p \in Processes : Restart(p))
         \/ \E r \in Requests : \/ Open(r) \/ StartFetch(r)
                                \/ UseFresh(r) \/ FailFetch(r) \/ StoreSnapshot(r)
    BY <1>2 DEF Next, Proceeds, Tick, Change, vars
  <2> QED BY <2>4, <2>5, <2>6, <2>8, <2>9, <2>10, <2>11
<1> QED BY <1>1, <1>2, AlwaysCacheInv, PTL DEF Spec
=============================================================================
