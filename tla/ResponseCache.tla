--------------------------- MODULE ResponseCache ---------------------------
(***************************************************************************)
(* The two-level response cache of one worker process: cache/ (Lru,        *)
(* MemoryCache, Cache) and Cache/Redis.h (RedisCache).                     *)
(*                                                                         *)
(* MemoryCache is copy on write: readCache takes a reference to the        *)
(* current Lru under mx and calls get on it after unlocking; writeCache    *)
(* holds mx throughout, and copies the Lru first when a reader still has   *)
(* it.  But get is not a read: it splices the list or erases the entry, so *)
(* two readers of one Lru race, and so do a reader and the copy.           *)
(*                                                                         *)
(* Readers are the pool threads running solveOnMessage, Writers the loops  *)
(* running onClientMessage.  Redis is shared with the other workers.       *)
(*                                                                         *)
(* RedisCache pastes the url and the page into the format of redisCommand, *)
(* so both are sequences of characters here: Redis gets what printf makes  *)
(* of them.                                                                *)
(***************************************************************************)
EXTENDS Integers, Sequences, FiniteSets, SequencesExt

CONSTANTS
  Readers, Writers,
  Urls,         \* sequences of characters
  Pages,        \* Pages[u]: the responses the backend gives for u, likewise
  Junk,         \* what a conversion prints for an argument that was not passed
  Capacity,     \* maxSize_, DEFAULT_CACHE_CAPACITY
  Objects,      \* addresses for Lru objects
  MaxClock,     \* bound: values of time(nullptr)
  ExpiredTime,  \* expiredTime_, INT_MAX
  Wrap          \* 2^w for the w bits of the unsigned subtraction of times

Nobody == "nobody"
NoObject == "null"

ASSUME CacheAssumption ==
  /\ Readers \cap Writers = {} /\ Nobody \notin Writers /\ NoObject \notin Objects
  /\ Urls \subseteq Seq(STRING)
  /\ \A u \in Urls : Pages[u] \subseteq Seq(STRING) /\ <<>> \notin Pages[u]
  /\ Capacity \in Nat \ {0}
  /\ IsFiniteSet(Readers) /\ Cardinality(Objects) > Cardinality(Readers)
  /\ MaxClock \in Nat /\ ExpiredTime \in Nat /\ Wrap \in Nat
  /\ MaxClock <= ExpiredTime /\ ExpiredTime + MaxClock < Wrap

VARIABLES
  cur,     \* MemoryCache::lru_cache
  lru,     \* the Lru objects
  mx,      \* who holds MemoryCache::mx
  pc,
  url,     \* argument of the call in progress
  page,    \* writers: the response to store; readers: the string to return
  temp,    \* lru_cache_temp of each reader
  redis,   \* the value stored at each key
  clock,   \* time(nullptr)
  fault,   \* why the worker process died, or "none"
  latest,  \* history: the last page put for each url
  seen     \* history: latest when the reader took its reference

callVars == <<pc, url, page, temp, seen>>
vars == <<cur, lru, mx, callVars, redis, clock, fault, latest>>

Threads == Readers \cup Writers
NoUrl == <<"none">>
Empty == <<>>                  \* std::string()
NoNode == [page |-> Empty, time |-> 0]

\* Lru: map_ with the page its position leads to, and list_ as the order of its urls.
EmptyLru == [map |-> [u \in Urls |-> NoNode], list |-> <<>>]
Has(l, u) == l.map[u] # NoNode

AllPages == UNION {Pages[u] : u \in Urls}
\* What the server answers when it refuses a command.
ErrorText == <<"E", "R", "R">>
Nul == "nul"                   \* the character 0

ReaderPcs == {"idle", "find", "splice", "erase", "release", "redis", "done"}
WriterPcs == {"idle", "check", "copy", "put", "evict", "redis"}

-----------------------------------------------------------------------------
(* Lru *)

Elapsed(now, then) == (now - then) % Wrap
IsExpired(node) == Elapsed(clock, node.time) > ExpiredTime

\* One node moves: splice and erase take a position, and a url has one node.
ToBack(list, u) == Append(RemoveFirst(list, u), u)

\* Broken variant: put of a url already there keeps the old page.
StoredOnce(l, u, p) ==
  [map |-> [l.map EXCEPT ![u] = IF Has(l, u) THEN @ ELSE [page |-> p, time |-> clock]],
   list |-> ToBack(l.list, u)]

\* put of a url already there, and of a new one while there is room.
Stored(l, u, p) ==
  [map |-> [l.map EXCEPT ![u] = [page |-> p, time |-> clock]], list |-> ToBack(l.list, u)]

\* sizeNow is not updated, so the loop that should drop the oldest entry drops them all
\* and then erases list_.end().
Overflows(l, u) == ~Has(l, u) /\ Len(l.list) + 1 > Capacity

Spliced(l, u) == [l EXCEPT !.list = ToBack(@, u)]
Erased(l, u) == [map |-> [l.map EXCEPT ![u] = NoNode], list |-> RemoveFirst(l.list, u)]

\* Broken variant: entries carry the time they expire at.
CopyOfDated(l) ==
  [map |-> [u \in Urls |->
              IF u \in Range(l.list)
              THEN [l.map[u] EXCEPT !.time = clock + ExpiredTime] ELSE NoNode],
   list |-> l.list]

\* The copy constructor: map_ is rebuilt from list_, every entry as new.
CopyOf(l) ==
  [map |-> [u \in Urls |->
              IF u \in Range(l.list) THEN [l.map[u] EXCEPT !.time = clock] ELSE NoNode],
   list |-> l.list]

\* What unsynchronised list operations may leave: some of the nodes, in any order.
Scrambled(l) == {[l EXCEPT !.list = q] : q \in SetToAllKPermutations(Range(l.list))}

-----------------------------------------------------------------------------
(* RedisCache *)

QuoteMark == "quot"    \* the character " itself
Quote(p) == <<QuoteMark>> \o p \o <<QuoteMark>>

\* Broken variant: res.end() instead of res.end() - 1.
UnquoteOpening(v) == SubSeq(v, 2, Len(v))

Unquote(v) == SubSeq(v, 2, Len(v) - 1)

\* s.c_str(), and std::string(s) of a char*: the text ends at the first NUL.
CStr(s) ==
  IF Nul \in Range(s) THEN SubSeq(s, 1, SelectInSeq(s, LAMBDA c : c = Nul) - 1) ELSE s

\* The texts redisCommand can make of the part s of its format: "%%" is one "%", a "%"
\* that ends the format is itself, and any other "%" is a conversion of some of the
\* characters after it, whose argument was not passed; one cut off by the blank after s is
\* no valid format, and nothing is sent.
Printf(s, isLast) ==
  LET n == Len(s)
      from[i \in 1..(n + 1)] ==
        CASE i > n -> {Empty}
          [] i <= n /\ (s[i] # "%" \/ (i = n /\ isLast)) -> {<<s[i]>> \o t : t \in from[i + 1]}
          [] i = n /\ s[i] = "%" /\ ~isLast -> {}
          [] i < n /\ s[i] = "%" /\ s[i + 1] = "%" -> {<<"%">> \o t : t \in from[i + 2]}
          [] i < n /\ s[i] = "%" /\ s[i + 1] # "%" ->
               {j \o t : j \in Junk, t \in UNION {from[k] : k \in (i + 2)..(n + 1)}}
  IN IF "%" \in Range(s) THEN from[1] ELSE {s}

\* The one argument of a command that s is meant to be: blanks separate arguments, so a
\* page with a blank, or an empty url, makes the command malformed.
Argument(s, isLast) == IF s = Empty \/ " " \in Range(s) THEN {} ELSE Printf(s, isLast)

\* The format has a %s or a %b, which follow a pointer that was not passed.
FollowsWild(s) ==
  \E i \in 1..(Len(s) - 1), j \in 1..Len(s) :
    /\ j <= i /\ (i - j) % 2 = 0 /\ (j > 1 => s[j - 1] # "%")
    /\ \A k \in j..i : s[k] = "%"
    /\ s[i + 1] \in {"s", "b"}

\* The keys that "get " + url can ask for.
Asked == [u \in Urls |-> Argument(CStr(u), TRUE)]

\* What "setnx " + url + " \"" + response + "\"" can store, as <<key, value>>.
StoresFor(u, p) ==
  IF Nul \in Range(u) THEN {} ELSE Argument(u, FALSE) \X Argument(CStr(Quote(p)), TRUE)
Stores == [u \in Urls |-> [p \in Pages[u] |-> StoresFor(u, p)]]

AllStores == UNION {UNION {Stores[u][p] : p \in Pages[u]} : u \in Urls}
Keys == (UNION {Asked[u] : u \in Urls}) \cup {s[1] : s \in AllStores}
Values == {s[2] : s \in AllStores}

\* What becomes of Redis: multi, setnx, expire and exec succeed or not, and setnx keeps a
\* value that is already there.
AtomicUpdate(u, p) ==
  {redis} \cup {[redis EXCEPT ![s[1]] = s[2]] : s \in {t \in Stores[u][p] : redis[t[1]] = Empty}}

\* std::string(reply->str) without its first and last character
Returned(v) == Unquote(CStr(v))

-----------------------------------------------------------------------------
Lrus == [map : [Urls -> [page : AllPages \cup {Empty}, time : 0..MaxClock]], list : Seq(Urls)]

TypeOK ==
  /\ cur \in Objects
  /\ lru \in [Objects -> Lrus]
  /\ mx \in Writers \cup {Nobody}
  /\ pc \in [Threads -> ReaderPcs \cup WriterPcs]
  /\ \A r \in Readers : pc[r] \in ReaderPcs
  /\ \A w \in Writers : pc[w] \in WriterPcs
  /\ url \in [Threads -> Urls \cup {NoUrl}]
  /\ page \in [Threads -> AllPages \cup {Empty, Unquote(ErrorText)}
                               \cup {Returned(v) : v \in Values}]
  /\ temp \in [Readers -> Objects \cup {NoObject}]
  /\ redis \in [Keys -> Values \cup {Empty}]
  /\ clock \in 0..MaxClock
  /\ fault \in {"none", "nilReply", "shortReply", "varargs", "race", "endErased"}
  /\ latest \in [Urls -> AllPages \cup {Empty}]
  /\ seen \in [Readers -> AllPages \cup {Empty}]

Init ==
  /\ cur \in Objects
  /\ lru = [o \in Objects |-> EmptyLru]
  /\ mx = Nobody
  /\ pc = [t \in Threads |-> "idle"]
  /\ url = [t \in Threads |-> NoUrl]
  /\ page = [t \in Threads |-> Empty]
  /\ temp = [r \in Readers |-> NoObject]
  /\ redis = [k \in Keys |-> Empty]
  /\ clock = 0
  /\ fault = "none"
  /\ latest = [u \in Urls |-> Empty]
  /\ seen = [r \in Readers |-> Empty]

Running == fault = "none"
Goto(t, label) == pc' = [pc EXCEPT ![t] = label]

Unique == \A r \in Readers : temp[r] # cur
\* Threads at work on the Lru o: looking a url up, changing the list, copying it.
Finding(o) == {r \in Readers : temp[r] = o /\ pc[r] = "find"}
Changing(o) == {r \in Readers : temp[r] = o /\ pc[r] \in {"splice", "erase"}}
Copying(o) == {w \in Writers : o = cur /\ pc[w] = "copy"}

\* The process dies: an exception nobody catches, or a fault in a corrupted list.
Die(cause) ==
  /\ fault' = cause
  /\ UNCHANGED <<cur, lru, mx, callVars, redis, clock, latest>>

-----------------------------------------------------------------------------
(* readCache *)

\* Broken variant: the reference is taken without mx.
ReadCacheUnlocked(r, u) ==
  /\ Running /\ pc[r] = "idle"
  /\ url' = [url EXCEPT ![r] = u]
  /\ temp' = [temp EXCEPT ![r] = cur]
  /\ seen' = [seen EXCEPT ![r] = latest[u]]
  /\ Goto(r, "find")
  /\ UNCHANGED <<cur, lru, mx, page, redis, clock, fault, latest>>

\* The critical section of MemoryCache::readCache.
ReadCache(r, u) ==
  /\ Running /\ pc[r] = "idle" /\ mx = Nobody
  /\ url' = [url EXCEPT ![r] = u]
  /\ temp' = [temp EXCEPT ![r] = cur]
  /\ seen' = [seen EXCEPT ![r] = latest[u]]
  /\ Goto(r, "find")
  /\ UNCHANGED <<cur, lru, mx, page, redis, clock, fault, latest>>

\* Lru::get up to its first change of the list.
Find(r) ==
  LET l == lru[temp[r]]
      u == url[r]
  IN /\ Running /\ pc[r] = "find"
     /\ \/ ~Has(l, u) /\ Goto(r, "release")
        \/ Has(l, u) /\ IsExpired(l.map[u]) /\ Goto(r, "erase")
        \/ Has(l, u) /\ ~IsExpired(l.map[u]) /\ Goto(r, "splice")
     /\ page' = [page EXCEPT ![r] = Empty]
     /\ UNCHANGED <<cur, lru, mx, url, temp, seen, redis, clock, fault, latest>>

\* Another reader may have erased the entry since: map_[url] then has no position.
Splice(r) ==
  LET o == temp[r]
      l == lru[o]
      contended == Changing(o) \cup Copying(o) # {r}
  IN /\ Running /\ pc[r] = "splice"
     /\ \/ /\ Has(l, url[r])
           /\ \E m \in {Spliced(l, url[r])} \cup (IF contended THEN Scrambled(l) ELSE {}) :
                lru' = [lru EXCEPT ![o] = m]
           /\ page' = [page EXCEPT ![r] = l.map[url[r]].page]
           /\ Goto(r, "release")
           /\ UNCHANGED <<cur, mx, url, temp, seen, redis, clock, fault, latest>>
        \/ (contended \/ ~Has(l, url[r])) /\ Die("race")

EraseExpired(r) ==
  LET o == temp[r]
      e == Erased(lru[o], url[r])
      contended == Finding(o) \cup Changing(o) \cup Copying(o) # {r}
  IN /\ Running /\ pc[r] = "erase"
     /\ \/ /\ \E m \in {e} \cup (IF contended THEN Scrambled(e) ELSE {}) :
                lru' = [lru EXCEPT ![o] = m]
           /\ Goto(r, "release")
           /\ UNCHANGED <<cur, mx, url, page, temp, seen, redis, clock, fault, latest>>
        \/ contended /\ Die("race")

\* lru_cache_temp is destroyed, and with the last reference the Lru.
Release(r) ==
  LET o == temp[r]
  IN /\ Running /\ pc[r] = "release"
     /\ temp' = [temp EXCEPT ![r] = NoObject]
     /\ lru' = IF o = cur \/ \E q \in Readers \ {r} : temp[q] = o
               THEN lru ELSE [lru EXCEPT ![o] = EmptyLru]
     /\ seen' = [seen EXCEPT ![r] = Empty]
     /\ Goto(r, IF page[r] = Empty THEN "redis" ELSE "done")
     /\ UNCHANGED <<cur, mx, url, page, redis, clock, fault, latest>>

\* What ends the worker in readRedisCache: a nil reply and a value of one character throw,
\* and a %s in the url follows a pointer that was not passed.
ReadFaults(u) ==
  {cause \in {"nilReply", "shortReply", "varargs"} :
     \/ cause = "nilReply" /\ \E k \in Asked[u] : redis[k] = Empty
     \/ cause = "shortReply" /\ \E k \in Asked[u] : Len(CStr(redis[k])) = 1
     \/ cause = "varargs" /\ FollowsWild(CStr(u))}

\* readRedisCache: no connection, no reply or no valid format gives the empty string, and
\* an error reply is taken for the page.
ReadRedis(r) ==
  /\ Running /\ pc[r] = "redis"
  /\ \/ /\ \E a \in {Empty, Unquote(ErrorText)} \cup
                    {Returned(redis[k]) : k \in {x \in Asked[url[r]] : Len(CStr(redis[x])) > 1}} :
             page' = [page EXCEPT ![r] = a]
        /\ Goto(r, "done")
        /\ UNCHANGED <<cur, lru, mx, url, temp, seen, redis, clock, fault, latest>>
     \/ \E cause \in ReadFaults(url[r]) : Die(cause)

ReadReturns(r) ==
  /\ Running /\ pc[r] = "done"
  /\ Goto(r, "idle")
  /\ page' = [page EXCEPT ![r] = Empty]
  /\ url' = [url EXCEPT ![r] = NoUrl]
  /\ UNCHANGED <<cur, lru, mx, temp, seen, redis, clock, fault, latest>>

-----------------------------------------------------------------------------
(* writeCache *)

WriteCache(w, u, p) ==
  /\ Running /\ pc[w] = "idle" /\ mx = Nobody
  /\ mx' = w
  /\ url' = [url EXCEPT ![w] = u]
  /\ page' = [page EXCEPT ![w] = p]
  /\ Goto(w, "check")
  /\ UNCHANGED <<cur, lru, temp, seen, redis, clock, fault, latest>>

\* Broken variant: put goes into the shared object.
CheckUniqueNever(w) ==
  /\ Running /\ pc[w] = "check"
  /\ Goto(w, "put")
  /\ UNCHANGED <<cur, lru, mx, url, page, temp, seen, redis, clock, fault, latest>>

CheckUnique(w) ==
  /\ Running /\ pc[w] = "check"
  /\ Goto(w, IF Unique THEN "put" ELSE "copy")
  /\ UNCHANGED <<cur, lru, mx, url, page, temp, seen, redis, clock, fault, latest>>

\* reset(new Lru(*lru_cache)): the old object goes if its readers have gone meanwhile.
Copy(w) ==
  LET l == CopyOf(lru[cur])
      contended == Changing(cur) # {}
  IN /\ Running /\ pc[w] = "copy"
     /\ \/ /\ \E o \in Objects \ ({cur} \cup Range(temp)),
                 m \in {l} \cup (IF contended THEN {CopyOf(s) : s \in Scrambled(l)} ELSE {}) :
                /\ cur' = o
                /\ lru' = [lru EXCEPT ![o] = m, ![cur] = IF Unique THEN EmptyLru ELSE @]
           /\ Goto(w, "put")
           /\ UNCHANGED <<mx, url, page, temp, seen, redis, clock, fault, latest>>
        \/ contended /\ Die("race")

Put(w) ==
  LET u == url[w]
  IN /\ Running /\ pc[w] = "put"
     /\ IF Overflows(lru[cur], u)
        THEN /\ lru' = [lru EXCEPT ![cur] = EmptyLru]
             /\ Goto(w, "evict")
             /\ UNCHANGED <<mx, latest>>
        ELSE /\ lru' = [lru EXCEPT ![cur] = Stored(@, u, page[w])]
             /\ latest' = [latest EXCEPT ![u] = page[w]]
             /\ mx' = Nobody
             /\ Goto(w, "redis")
     /\ UNCHANGED <<cur, url, page, temp, seen, redis, clock, fault>>

\* The loop goes on past the end of the list: it faults, or it never ends.
EraseEnd(w) ==
  /\ Running /\ pc[w] = "evict"
  /\ Die("endErased")

\* The result of updateRedisCache is ignored.
UpdateRedis(w) ==
  /\ Running /\ pc[w] = "redis"
  /\ \/ /\ redis' \in AtomicUpdate(url[w], page[w])
        /\ Goto(w, "idle")
        /\ page' = [page EXCEPT ![w] = Empty]
        /\ url' = [url EXCEPT ![w] = NoUrl]
        /\ UNCHANGED <<cur, lru, mx, temp, seen, clock, fault, latest>>
     \/ FollowsWild(CStr(url[w] \o <<" ">> \o Quote(page[w]))) /\ Die("varargs")

-----------------------------------------------------------------------------
(* The environment: other workers use the same keys, keys time out after           *)
(* DEFAULT_EXPIRED_TIME, and the wall clock may be set.                            *)

OtherWorkerUpdates(u, p) ==
  /\ Running
  /\ redis' \in AtomicUpdate(u, p) \ {redis}
  /\ UNCHANGED <<cur, lru, mx, callVars, clock, fault, latest>>

KeyTimesOut(k) ==
  /\ Running /\ redis[k] # Empty
  /\ redis' = [redis EXCEPT ![k] = Empty]
  /\ UNCHANGED <<cur, lru, mx, callVars, clock, fault, latest>>

SetClock ==
  /\ Running
  /\ clock' \in (0..MaxClock) \ {clock}
  /\ UNCHANGED <<cur, lru, mx, callVars, redis, fault, latest>>

Reader(r) ==
  \/ \E u \in Urls : ReadCache(r, u)
  \/ Find(r) \/ Splice(r) \/ EraseExpired(r) \/ Release(r)
  \/ ReadRedis(r) \/ ReadReturns(r)

Writer(w) ==
  \/ \E u \in Urls : \E p \in Pages[u] : WriteCache(w, u, p)
  \/ CheckUnique(w) \/ Copy(w) \/ Put(w) \/ EraseEnd(w) \/ UpdateRedis(w)

Environment ==
  \/ \E k \in Keys : KeyTimesOut(k)
  \/ \E u \in Urls : \E p \in Pages[u] : OtherWorkerUpdates(u, p)
  \/ SetClock

Next ==
  \/ \E r \in Readers : Reader(r)
  \/ \E w \in Writers : Writer(w)
  \/ Environment

Spec == Init /\ [][Next]_vars

-----------------------------------------------------------------------------
(* Properties *)

\* assert(lru_cache.unique()), memoryCache.h:44, and the reason it is there: from that
\* test to the end of put no reader has the object that put changes.
PutsAlone == \A w \in Writers : pc[w] = "put" => mx = w /\ Unique

\* A reader that finds its url in the object it took sees the page that was the latest
\* when it took the reference, however many puts and copies have happened since: what
\* MemoryCache::readCache returns was current at its critical section.
SnapshotReads ==
  \A r \in Readers :
    temp[r] # NoObject =>
      LET l == lru[temp[r]]
      IN Has(l, url[r]) => l.map[url[r]].page = seen[r]

\* The current Lru never goes back: whatever entries races, copies and expiry lose, an
\* entry it does have is the page of the last put for that url.
MemoryIsLatest == \A u \in Urls : Has(lru[cur], u) => lru[cur].map[u].page = latest[u]

\* The urls Redis keeps apart: whatever any worker stores under a key this url may ask for
\* is a page of this url, as it is.
Untouched ==
  {u \in Urls :
     \A v \in Urls : \A p \in Pages[v] : \A s \in Stores[v][p] :
       s[1] \in Asked[u] => v = u /\ s[2] = Quote(p) /\ Nul \notin Range(p)}

\* readCache of a url that Redis keeps apart returns the empty string or a page of that
\* very url, whatever other urls and workers write, and whichever of the two levels
\* answers; only when Redis refuses the command does it return something else (see
\* MissFallsThrough).
AnswersMatchUrl ==
  \A r \in Readers :
    pc[r] = "done" /\ url[r] \in Untouched =>
      page[r] \in Pages[url[r]] \cup {Empty, Unquote(ErrorText)}

\* doc/Cache_DevDesign.md: the local cache is strictly limited and uses LRU.  A put makes
\* its url the most recent, and into a full cache drops the least recent one only.
PutIsLru ==
  [][\A w \in Writers :
       Running /\ pc[w] = "put" /\ pc'[w] # "put" =>
         LET l == lru[cur]
         IN lru'[cur].list = IF Overflows(l, url[w])
                             THEN Append(Tail(l.list), url[w]) ELSE ToBack(l.list, url[w])]_vars

\* doc/Cache_DevDesign.md: what is in neither level is fetched from the web server, so a
\* miss in Redis does not end the worker, and what Redis says when it refuses is no answer.
MissFallsThrough ==
  /\ fault # "nilReply"
  /\ \A r \in Readers : pc[r] = "done" => page[r] # Unquote(ErrorText)
=============================================================================
