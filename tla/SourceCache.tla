----------------------------- MODULE SourceCache -----------------------------
(***************************************************************************)
(* The caches of the two sources of products: the stock of Mercado Phone   *)
(* ("inventory") and the price sheet of sealed devices ("sheet"), in the   *)
(* web and the worker process (src/app/adapters).  A query refreshes what  *)
(* is older than its time to live, under an asyncio lock per cache; a      *)
(* refresh replaces memory, stamp and the file that both processes load    *)
(* when they start.                                                        *)
(*                                                                         *)
(* A step is the code between two awaits.  Contents are version numbers.   *)
(***************************************************************************)
EXTENDS Integers, FiniteSets

CONSTANTS
  Processes,    \* web and worker
  Requests,     \* uses of the caches
  Uses,         \* which process a request is in and what it asks for
  TTL,          \* *_cache_ttl_seconds, in ticks
  FetchTime,    \* what timeouts and retries let a fetch last, in ticks
  EmptyOnes,    \* versions without a product
  KeptFiles,    \* which files an earlier version of the program may have left
  Free,         \* a lock nobody holds
  MaxTime,      \* bound of the clock
  MaxVersion,   \* bound of the versions of a source
  MaxCrashes    \* bound of the restarts

Sources == {"inventory", "sheet"}
Refreshes == {"refresh inventory", "refresh sheet"}

ASSUME SourceAssumption ==
  /\ Free \notin Requests
  /\ Uses \subseteq [Requests -> [process : Processes, kind : Refreshes \cup {"search", "list"}]]
  /\ TTL \in Nat \ {0} /\ FetchTime \in Nat \ {0}
  /\ EmptyOnes \subseteq Nat /\ KeptFiles \subseteq SUBSET Sources
  /\ MaxTime \in Nat /\ MaxVersion \in Nat \ {0} /\ MaxCrashes \in Nat

VARIABLES
  now,       \* time.time(), in ticks from 1; a stamp of 0 is never
  offered,   \* the version a source would answer with
  gone,      \* history: when a version was replaced at its source
  memory,    \* items and last_refresh of a cache
  file,      \* the snapshot file of a source
  lock,      \* the asyncio lock of a cache
  use,       \* the process and the kind of each request
  request,   \* the calls in progress
  crashes    \* restarts so far

vars == <<now, offered, gone, memory, file, lock, use, request, crashes>>
world == <<now, offered, gone, use>>
-----------------------------------------------------------------------------
Snapshot(version, stamp) == [version |-> version, stamp |-> stamp]
NoSnapshot == Snapshot(0, 0)
Products(snap) == snap.version \notin EmptyOnes \cup {0}
Young(stamp) == stamp > 0 /\ now - stamp < TTL

(* The inventory asks for items and age, the sheet for its stamp only.     *)
BadFresh(s, snap) == Young(snap.stamp)
Fresh(s, snap) == Young(snap.stamp) /\ (s = "inventory" => Products(snap))

FirstLeg(r) == IF use[r].kind = "refresh sheet" THEN "sheet" ELSE "inventory"
Idle(r) == [step |-> "idle", leg |-> FirstLeg(r), oldest |-> 0, since |-> 0,
            old |-> {}, due |-> 0, views |-> {}]
Ended(q, views) == [q EXCEPT !.step = "ended", !.oldest = 0, !.since = 0,
                             !.old = {}, !.due = 0, !.views = views]

Init ==
  /\ now = 1
  /\ offered = [s \in Sources |-> 1]
  /\ gone = [s \in Sources |-> [v \in 1..MaxVersion |-> 0]]
  /\ \E kept \in KeptFiles :
       file = [s \in Sources |-> IF s \in kept THEN Snapshot(1, 0) ELSE NoSnapshot]
  /\ memory = [p \in Processes |-> file]
  /\ lock = [p \in Processes |-> [s \in Sources |-> Free]]
  /\ use \in Uses
  /\ request = [r \in Requests |-> Idle(r)]
  /\ crashes = 0
-----------------------------------------------------------------------------
(* The sources and the clock.                                              *)
Fetching(r) == request[r].step = "fetch"

Change(s) ==
  /\ offered[s] < MaxVersion
  /\ offered' = [offered EXCEPT ![s] = @ + 1]
  /\ gone' = [gone EXCEPT ![s][offered[s]] = now]
  /\ UNCHANGED <<now, memory, file, lock, use, request, crashes>>

Tick ==
  /\ now < MaxTime
  /\ \A r \in Requests : Fetching(r) => now - request[r].since < FetchTime
  /\ now' = now + 1
  /\ UNCHANGED <<offered, gone, memory, file, lock, use, request, crashes>>
-----------------------------------------------------------------------------
(* One request: a search reads the inventory, then the sheet, then the     *)
(* inventory again for the stock of sealed devices; a list reads both when *)
(* both were refreshed; a panel or worker refresh forces one source.       *)
Source(r) == IF request[r].leg = "sheet" THEN "sheet" ELSE "inventory"
Cache(r) == memory[use[r].process][Source(r)]
Forced(r) == use[r].kind \in Refreshes
Served(r) == ~Forced(r) /\ Fresh(Source(r), Cache(r))
HasSeen(r, s) == \E v \in request[r].views : v.source = s

(* Whether request r goes on after a leg that ended well or not.           *)
GoesOn(r, ok, mem) ==
  \/ request[r].leg = "inventory" /\ use[r].kind = "search"
  \/ request[r].leg = "inventory" /\ use[r].kind = "list" /\ ok
  \/ /\ request[r].leg = "sheet" /\ use[r].kind = "search" /\ ok
     /\ HasSeen(r, "inventory") /\ Products(mem["sheet"])

(* What an answer was built from: whether it is an empty version that was  *)
(* in memory before the question (old: the sources not fetched since), and *)
(* how long the version had been gone when its age was checked.            *)
View(q, s, snap, checked) ==
  [source |-> s,
   recalled |-> snap.version \in EmptyOnes /\ s \in q.old,
   ago |-> IF snap.version = 0 \/ gone[s][snap.version] \in {0} \cup (checked..now) THEN 0
           ELSE checked - gone[s][snap.version]]

(* What a leg adds to the answer.  A list reads both caches at its end, and *)
(* a sheet that could not be refreshed only "to be confirmed".            *)
Views(r, q, ok, mem) ==
  CASE use[r].kind = "search" /\ ok -> {View(q, Source(r), mem[Source(r)], now)}
    [] use[r].kind = "list" /\ request[r].leg = "sheet" ->
         {View(q, "inventory", mem["inventory"], request[r].due)}
           \cup {View(q, "sheet", mem["sheet"], now) : x \in {TRUE} \cap {ok}}
    [] OTHER -> {}

Onward(q, views) ==
  [q EXCEPT !.step = "ask", !.due = now, !.views = views,
            !.leg = IF q.leg = "inventory" THEN "sheet" ELSE "enrich"]
Proceed(r, ok, mem, calls) ==
  LET views == calls[r].views \cup Views(r, calls[r], ok, mem) IN
  request' = [calls EXCEPT ![r] =
    IF GoesOn(r, ok, mem) THEN Onward(calls[r], views) ELSE Ended(calls[r], views)]

Hold(r, q) == lock' = [lock EXCEPT ![use[r].process][Source(r)] = q]
Unheld(r) == lock[use[r].process][Source(r)] = Free

Open(r) ==
  /\ request[r].step = "idle"
  /\ request' = [request EXCEPT ![r].step = "ask", ![r].old = Sources]
  /\ UNCHANGED <<world, memory, file, lock, crashes>>

(* refresh: nothing to do, or one fetch under the lock.  A request waiting *)
(* for the lock looks at the age again when it has it: both reads are this *)
(* one.                                                                    *)
UseFresh(r) ==
  /\ request[r].step = "ask" /\ Served(r)
  /\ Proceed(r, TRUE, memory[use[r].process], request)
  /\ UNCHANGED <<world, memory, file, lock, crashes>>

Ask(r) ==
  /\ request[r].step = "ask" /\ ~Served(r)
  /\ request' = [request EXCEPT ![r].step = "fetch", ![r].since = now,
                                ![r].oldest = offered[Source(r)]]
BadStartFetch(r) ==
  Ask(r) /\ UNCHANGED <<world, memory, file, lock, crashes>>
StartFetch(r) ==
  /\ Unheld(r)
  /\ Ask(r) /\ Hold(r, r)
  /\ UNCHANGED <<world, memory, file, crashes>>

(* The source answered with what it offered at some moment of the fetch.   *)
(* Memory, stamp and file in one go; writing the file may fail after       *)
(* memory was replaced.  An empty sheet is refused, an empty stock is not. *)
Accepted(s, v) == s = "sheet" => v \notin EmptyOnes
Replaced(r) ==
  [q \in Requests |-> IF use[q].process = use[r].process
                      THEN [request[q] EXCEPT !.old = @ \ {Source(r)}] ELSE request[q]]
StoreSnapshot(r) ==
  /\ Fetching(r)
  /\ \E v \in request[r].oldest..offered[Source(r)] :
       /\ Accepted(Source(r), v)
       /\ memory' = [memory EXCEPT ![use[r].process][Source(r)] = Snapshot(v, now)]
       /\ \/ file' = [file EXCEPT ![Source(r)] = Snapshot(v, now)]
             /\ Proceed(r, TRUE, memory'[use[r].process], Replaced(r))
          \/ UNCHANGED file /\ Proceed(r, FALSE, memory'[use[r].process], Replaced(r))
  /\ Hold(r, Free)
  /\ UNCHANGED <<world, crashes>>

(* A transport error, a refusal, an answer that is not understood.         *)
BadFailFetch(r) ==
  /\ Fetching(r)
  /\ Proceed(r, FALSE, memory[use[r].process], request)
  /\ UNCHANGED <<world, memory, file, lock, crashes>>
FailFetch(r) ==
  /\ Fetching(r)
  /\ Proceed(r, FALSE, memory[use[r].process], request)
  /\ Hold(r, Free)
  /\ UNCHANGED <<world, memory, file, crashes>>
-----------------------------------------------------------------------------
(* A process dies with its requests and loads both files when it is back.  *)
Busy(p) == {r \in Requests : use[r].process = p /\ request[r].step \in {"ask", "fetch"}}

BadLoad(snap) == Snapshot(snap.version, IF snap.version = 0 THEN 0 ELSE now)
Load(snap) == snap

Restart(p) ==
  /\ crashes < MaxCrashes
  /\ crashes' = crashes + 1
  /\ memory' = [memory EXCEPT ![p] = [s \in Sources |-> Load(file[s])]]
  /\ lock' = [lock EXCEPT ![p] = [s \in Sources |-> Free]]
  /\ request' = [r \in Requests |->
       IF r \in Busy(p) THEN Ended(request[r], {}) ELSE request[r]]
  /\ UNCHANGED <<world, file>>
-----------------------------------------------------------------------------
Proceeds(r) ==
  UseFresh(r) \/ StartFetch(r) \/ StoreSnapshot(r) \/ FailFetch(r)

Next ==
  \/ Tick
  \/ \E s \in Sources : Change(s)
  \/ \E r \in Requests : Open(r) \/ Proceeds(r)
  \/ \E p \in Processes : Restart(p)

Spec == Init /\ [][Next]_vars

(* Calls to the sources have timeouts and a lock is granted in turn, so an *)
(* open request goes on; nothing is asked of the clock and the sources.    *)
FairSpec == Spec /\ \A r \in Requests : WF_vars(Proceeds(r))
-----------------------------------------------------------------------------
(* A product that left its source longer ago than the time to live and one *)
(* fetch is in no answer whose age was checked, whatever was restarted,    *)
(* loaded from the other process's file or failed in between.              *)
Current(v) == v.ago < TTL + FetchTime
AnswersAreCurrent ==
  \A r \in Requests : \A v \in request[r].views : Current(v)

(* "We have nothing" is said only of a stock that was read after the       *)
(* question, never from memory.                                            *)
EmptyIsVerified ==
  \A r \in Requests : use[r].kind = "search" =>
    \A v \in request[r].views : v.source = "inventory" => ~v.recalled

(* Locks are given back on every path: a request that was opened ends.     *)
RequestsEnd ==
  \A r \in Requests : request[r].step # "idle" ~> request[r].step = "ended"

(* Each source is a register of whole versions that moves forward in each  *)
(* living process, however slow answers, failures and restarts interleave. *)
Shown(s) == [p \in Processes |-> memory[p][s].version]
Stock == INSTANCE SnapshotRegister WITH
  offered <- offered["inventory"], shown <- Shown("inventory"),
  saved <- file["inventory"].version
Sheet == INSTANCE SnapshotRegister WITH
  offered <- offered["sheet"], shown <- Shown("sheet"), saved <- file["sheet"].version
ImplementsRegister == Stock!Spec /\ Sheet!Spec
=============================================================================
