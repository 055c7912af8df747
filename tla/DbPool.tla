------------------------------- MODULE DbPool -------------------------------
(***************************************************************************)
(* The connection pool of db.py: get_conn borrows from a                   *)
(* ThreadedConnectionPool, closing the cursor gives back, __del__ gives    *)
(* back what an error left behind, and db_retry throws the whole pool away *)
(* while others hold its connections.                                      *)
(*                                                                         *)
(* Three threads call db.py: the loop of the bot, the loop of the mini app *)
(* and the 24-hour reset.  A call holds its thread from Begin to its end.  *)
(* On the bot's loop a coroutine that borrows by itself may then wait with *)
(* a connection still in a local variable, which gives it back when the    *)
(* coroutine is over.  Five shapes stand for all calls:                    *)
(*   guarded  one borrow, inside try/except (kv_get and sixty others)      *)
(*   inline   the same in the body of a coroutine (run_full_scrape and     *)
(*            fifteen handlers of the menu): after an error cur stays      *)
(*   nested   upsert_scanned_chat, which calls get_scanned_chat while it   *)
(*            holds a connection                                           *)
(*   bulk     bulk_save_users, which borrows outside its try: the only one *)
(*            whose errors reach db_retry while the bot runs               *)
(*   backup   _cb_backup_all, two borrows, the first never used or closed  *)
(*                                                                         *)
(* Left out: what the statements do (one fails only with its connection),  *)
(* the pause of db_retry, init_tables (it runs before the other threads    *)
(* exist).                                                                 *)
(***************************************************************************)
EXTENDS Integers, FiniteSets

CONSTANTS
  Loop,        \* the thread of the bot's loop
  Others,      \* the other threads that call db.py
  MaxConns,    \* bound: connection objects told apart
  MinConn,     \* 2 in _init_pool
  MaxConn,     \* max(4, DB_POOL_SIZE)
  MaxRetries,  \* of db_retry
  MaxKept      \* bound: while coroutines keep so many connections, none
               \* begins that might keep one more

ASSUME PoolAssumption ==
  /\ MinConn \in Nat /\ MaxConn \in Nat /\ MaxConns \in Nat
  /\ MinConn <= MaxConn /\ MaxRetries \in Nat \ {0}
ASSUME ThreadAssumption == Loop \notin Others
(* Three threads and max(4, DB_POOL_SIZE): one connection for each call that *)
(* can be under way, and one for the second borrow of the bot's loop.        *)
ASSUME RoomAssumption == IsFiniteSet(Others) /\ Cardinality(Others) + 1 < MaxConn

Threads == {Loop} \cup Others
Conns   == 1..MaxConns
NoConn  == 0
Kinds(t) == IF t = Loop THEN {"guarded", "inline", "nested", "bulk", "backup"} ELSE {"guarded"}

VARIABLES
  live,    \* _pool is not None
  idle,    \* _pool._pool
  used,    \* _pool._used
  open,    \* connections this process has not closed
  dead,    \* those of them that the server has dropped, which nobody noticed
  net,     \* a new connection can be made
  pc, kind, tries,
  level,   \* 1: the first borrow of a call is under way, 2: the second
  ref,     \* the two connections a call holds
  stale,   \* the pool that the call found is gone before it asked for a connection
  fault,   \* why the call will not do what it was asked to: no room, or no
           \* connection that works
  parked   \* in local variables of coroutines that wait for something else

pool  == <<live, idle, used>>
conns == <<open, dead>>
calls == <<pc, kind, tries, level>>
vars  == <<pool, conns, net, calls, ref, stale, fault, parked>>

Held     == {ref[t][i] : t \in Threads, i \in 1..2} \ {NoConn}
Borrowed == Held \cup parked
Free     == Conns \ (idle \cup Borrowed)

(* The next k connection objects: names are given in order.                *)
New(k) == {c \in Free : Cardinality({d \in Free : d <= c}) <= k}

TypeOK ==
  /\ live \in BOOLEAN /\ net \in BOOLEAN
  /\ idle \subseteq Conns /\ used \subseteq Conns /\ parked \subseteq Conns
  /\ dead \subseteq open /\ open \subseteq Conns
  /\ Cardinality(idle) <= MinConn /\ Cardinality(used) <= MaxConn
  /\ pc \in [Threads -> {"idle", "init", "take", "setup", "body", "close", "raised"}]
  /\ kind \in [Threads -> {"guarded", "inline", "nested", "bulk", "backup"}]
  /\ tries \in [Threads -> 1..MaxRetries]
  /\ level \in [Threads -> 1..2]
  /\ ref \in [Threads -> [1..2 -> Conns \cup {NoConn}]]
  /\ stale \in [Threads -> BOOLEAN]
  /\ fault \in [Threads -> {"none", "full", "lost"}]

Init ==
  /\ live = FALSE /\ idle = {} /\ used = {} /\ open = {} /\ dead = {}
  /\ net = TRUE /\ parked = {}
  /\ pc = [t \in Threads |-> "idle"] /\ kind = [t \in Threads |-> "guarded"]
  /\ tries = [t \in Threads |-> 1] /\ level = [t \in Threads |-> 1]
  /\ ref = [t \in Threads |-> [i \in 1..2 |-> NoConn]]
  /\ stale = [t \in Threads |-> FALSE] /\ fault = [t \in Threads |-> "none"]

-----------------------------------------------------------------------------
(* Steps of a call. *)

At(t, s) == pc[t] = s
Go(t, s) == pc' = [pc EXCEPT ![t] = s] /\ UNCHANGED <<kind, tries, level>>
Top(t)   == ref[t][level[t]]

(* An exception leaves the innermost function. *)
Raise(t, why) == Go(t, "raised") /\ fault' = [fault EXCEPT ![t] = why]

(* The call gives way to the next one on its thread. *)
Leave(t) ==
  /\ pc' = [pc EXCEPT ![t] = "idle"] /\ level' = [level EXCEPT ![t] = 1]
  /\ tries' = [tries EXCEPT ![t] = 1] /\ fault' = [fault EXCEPT ![t] = "none"]
  /\ kind' = [kind EXCEPT ![t] = "guarded"]

(* The second borrow of the same call. *)
Borrow2(t) ==
  /\ pc' = [pc EXCEPT ![t] = "init"] /\ level' = [level EXCEPT ![t] = 2]
  /\ UNCHANGED <<kind, tries>>

(* What the pool does with a connection that comes back. *)
ReusableBroken(c) == c \in used /\ Cardinality(idle) < MinConn
Reusable(c) == c \in used \cap open /\ Cardinality(idle) < MinConn
SlotKept(c) == IF c \in open THEN used \ {c} ELSE used
SlotFreed(c) == used \ {c}
Remembered(t) == ref
Forgotten(t) == [ref EXCEPT ![t][level[t]] = NoConn]

(* release(): the pool keeps it, closes it, or does not know it and it is  *)
(* closed here; the proxy forgets it before, so __del__ finds nothing.     *)
Release(c) ==
  /\ used' = SlotFreed(c)
  /\ idle' = IF Reusable(c) THEN idle \cup {c} ELSE idle
  /\ open' = IF Reusable(c) THEN open ELSE open \ {c}
  /\ dead' = dead \cap open'
  /\ UNCHANGED live
ReleaseTop(t) ==
  IF Top(t) = NoConn THEN UNCHANGED <<pool, conns, ref>>
  ELSE Release(Top(t)) /\ ref' = Forgotten(t)

Begin(t) ==
  /\ At(t, "idle")
  /\ \E k \in Kinds(t) :
       /\ k \in {"inline", "backup"} => Cardinality(parked) < MaxKept
       /\ kind' = [kind EXCEPT ![t] = k]
  /\ pc' = [pc EXCEPT ![t] = "init"]
  /\ UNCHANGED <<pool, conns, net, tries, level, ref, stale, fault, parked>>

(* _init_pool under its lock: MinConn connections at once, or none.        *)
PoolThere(t) ==
  /\ At(t, "init") /\ live
  /\ Go(t, "take")
  /\ UNCHANGED <<pool, conns, net, ref, stale, fault, parked>>
PoolMade(t) ==
  /\ At(t, "init") /\ ~live /\ net
  /\ live' = TRUE /\ idle' = New(MinConn) /\ used' = {} /\ open' = open \cup New(MinConn)
  /\ Go(t, "take")
  /\ UNCHANGED <<dead, net, ref, stale, fault, parked>>
PoolNotMade(t) ==
  /\ At(t, "init") /\ ~live /\ ~net
  /\ Raise(t, "lost")
  /\ UNCHANGED <<pool, conns, net, ref, stale, parked>>

(* A reset since _init_pool: _pool is None, or was read before and is      *)
(* closed.  When another thread has made a new pool it may be that one.    *)
Asked(t) == stale' = [stale EXCEPT ![t] = FALSE]
TakeLost(t) ==
  /\ At(t, "take") /\ stale[t]
  /\ Raise(t, "lost") /\ Asked(t)
  /\ UNCHANGED <<pool, conns, net, ref, parked>>

Takes(t, c) ==
  /\ used' = used \cup {c}
  /\ ref' = [ref EXCEPT ![t][level[t]] = c]
  /\ Go(t, "setup") /\ Asked(t)
  /\ UNCHANGED <<live, net, fault, parked>>
TakeIdle(t) ==
  /\ At(t, "take") /\ live
  /\ \E c \in idle : Takes(t, c) /\ idle' = idle \ {c}
  /\ UNCHANGED conns
RoomAlways == TRUE
Room == Cardinality(used) # MaxConn
TakeNew(t) ==
  /\ At(t, "take") /\ live /\ idle = {} /\ Room /\ net
  /\ \E c \in New(1) : Takes(t, c) /\ open' = open \cup {c}
  /\ UNCHANGED <<idle, dead>>
TakeNotMade(t) ==
  /\ At(t, "take") /\ live /\ idle = {} /\ Room /\ ~net
  /\ Raise(t, "lost") /\ Asked(t)
  /\ UNCHANGED <<pool, conns, net, ref, parked>>
TakeFull(t) ==
  /\ At(t, "take") /\ live /\ idle = {} /\ ~Room
  /\ Raise(t, "full") /\ Asked(t)
  /\ UNCHANGED <<pool, conns, net, ref, parked>>

(* autocommit and cursor().  On a connection that a reset has closed both  *)
(* raise, and the connection is dropped without a putconn.                 *)
SetUp(t) ==
  /\ At(t, "setup") /\ Top(t) \in open
  /\ IF kind[t] \in {"nested", "backup"} /\ level[t] = 1 THEN Borrow2(t) ELSE Go(t, "body")
  /\ UNCHANGED <<pool, conns, net, ref, stale, fault, parked>>
SetUpFails(t) ==
  /\ At(t, "setup") /\ Top(t) \notin open
  /\ Raise(t, "lost") /\ ref' = Forgotten(t)
  /\ UNCHANGED <<pool, conns, net, stale, parked>>

(* The statements of the call.  A failure marks the connection closed;     *)
(* bulk_save_users goes on to its cur.close().                             *)
Executes(t) ==
  /\ At(t, "body") /\ Top(t) \in open \ dead
  /\ Go(t, "close")
  /\ UNCHANGED <<pool, conns, net, ref, stale, fault, parked>>
ExecuteFails(t) ==
  /\ At(t, "body") /\ Top(t) \notin open \ dead
  /\ open' = open \ {Top(t)} /\ dead' = dead \ {Top(t)}
  /\ Go(t, IF kind[t] = "bulk" THEN "close" ELSE "raised")
  /\ fault' = [fault EXCEPT ![t] = "lost"]
  /\ UNCHANGED <<pool, net, ref, stale, parked>>

-----------------------------------------------------------------------------
(* Ways out. *)

(* cur.close(), or the error handler of a guarded function.                *)
Outermost(t) == kind[t] \in {"guarded", "inline", "bulk"} \/ (kind[t] = "nested" /\ level[t] = 1)
Ends(t) ==
  /\ At(t, "close") \/ (At(t, "raised") /\ kind[t] \notin {"inline", "bulk"})
  /\ Outermost(t)
  /\ ReleaseTop(t) /\ Leave(t)
  /\ UNCHANGED <<net, stale, parked>>

(* get_scanned_chat returns to upsert_scanned_chat, with None on an error. *)
InnerEnds(t) ==
  /\ At(t, "close") \/ At(t, "raised")
  /\ kind[t] = "nested" /\ level[t] = 2
  /\ ReleaseTop(t)
  /\ pc' = [pc EXCEPT ![t] = "body"] /\ level' = [level EXCEPT ![t] = 1]
  /\ UNCHANGED <<kind, tries, net, stale, fault, parked>>

(* The first borrow of the backup failed: "except: cur = None".            *)
BackupGoesOn(t) ==
  /\ At(t, "raised") /\ kind[t] = "backup" /\ level[t] = 1
  /\ Borrow2(t)
  /\ UNCHANGED <<pool, conns, net, ref, stale, fault, parked>>

(* "except: pass" in the body of a coroutine, which goes on: cur is still   *)
(* bound, and a connection that failed keeps its slot.                     *)
InlineGoesOn(t) ==
  /\ At(t, "raised") /\ kind[t] = "inline"
  /\ parked' = parked \cup ({Top(t)} \ {NoConn}) /\ ref' = Forgotten(t)
  /\ Leave(t)
  /\ UNCHANGED <<pool, conns, net, stale>>

(* The backup has its data and awaits the upload: the second connection    *)
(* goes back, the first stays in a local variable.                         *)
BackupUploads(t) ==
  /\ At(t, "close") /\ kind[t] = "backup"
  /\ Release(Top(t))
  /\ ref' = [ref EXCEPT ![t] = [i \in 1..2 |-> NoConn]]
  /\ parked' = parked \cup ({ref[t][1]} \ {NoConn})
  /\ Leave(t)
  /\ UNCHANGED <<net, stale>>

(* The backup has an error and awaits its report: both stay.               *)
BackupFails(t) ==
  /\ At(t, "raised") /\ kind[t] = "backup" /\ level[t] = 2
  /\ ref' = [ref EXCEPT ![t] = [i \in 1..2 |-> NoConn]]
  /\ parked' = parked \cup ({ref[t][1], ref[t][2]} \ {NoConn})
  /\ Leave(t)
  /\ UNCHANGED <<pool, conns, net, stale>>

(* A coroutine that waited is over, and its variables with it.             *)
CoroutineEnds ==
  /\ At(Loop, "idle")
  /\ \E c \in parked : Release(c) /\ parked' = parked \ {c}
  /\ UNCHANGED <<net, calls, ref, stale, fault>>

(* db_retry: closeall, also of what others hold, and no pool any more.     *)
LeftOpenByReset == open
ClosedByReset == open \ (idle \cup used)
BulkResets(t) ==
  /\ At(t, "raised") /\ kind[t] = "bulk"
  /\ live' = FALSE /\ idle' = {} /\ used' = {}
  /\ open' = ClosedByReset /\ dead' = dead \cap ClosedByReset
  /\ stale' = [u \in Threads |-> At(u, "take")]
  /\ IF tries[t] < MaxRetries
       THEN /\ pc' = [pc EXCEPT ![t] = "init"]
            /\ tries' = [tries EXCEPT ![t] = @ + 1]
            /\ UNCHANGED <<kind, level, fault>>
       ELSE Leave(t)
  /\ UNCHANGED <<net, ref, parked>>

(* The database suspends or restarts: it drops one connection or all.      *)
NetDown ==
  /\ net /\ net' = FALSE
  /\ \E lost \in {open} \cup {{c} : c \in open} : dead' = dead \cup lost
  /\ UNCHANGED <<pool, open, calls, ref, stale, fault, parked>>
NetUp ==
  /\ ~net /\ net' = TRUE
  /\ UNCHANGED <<pool, conns, calls, ref, stale, fault, parked>>

Step(t) ==
  \/ PoolThere(t) \/ PoolMade(t) \/ PoolNotMade(t)
  \/ TakeLost(t) \/ TakeIdle(t) \/ TakeNew(t) \/ TakeNotMade(t) \/ TakeFull(t)
  \/ SetUp(t) \/ SetUpFails(t) \/ Executes(t) \/ ExecuteFails(t)
  \/ Ends(t) \/ InnerEnds(t) \/ InlineGoesOn(t)
  \/ BackupGoesOn(t) \/ BackupUploads(t) \/ BackupFails(t) \/ BulkResets(t)

Next ==
  \/ \E t \in Threads : Begin(t) \/ Step(t)
  \/ CoroutineEnds \/ NetDown \/ NetUp

Spec == Init /\ [][Next]_vars

(* A call that has begun goes on: it waits for nobody, and a statement     *)
(* ends (connect_timeout=15).                                              *)
FairSpec == Spec /\ \A t \in Threads : WF_vars(Step(t))

-----------------------------------------------------------------------------
(* Properties. *)

(* A connection is with one borrower, or idle, never both: two calls would *)
(* share a cursor's transaction.  It rests on a proxy giving back once,    *)
(* although close(), an error and __del__ all do it (db.py 67-101).        *)
OneHolder ==
  /\ \A t, u \in Threads, i, j \in 1..2 :
       ref[t][i] = ref[u][j] /\ ref[t][i] # NoConn => t = u /\ i = j
  /\ idle \cap Borrowed = {} /\ Held \cap parked = {}

(* Nothing leaks: every slot of the pool belongs to a call that will give  *)
(* it back, and every open connection is in the pool or in such hands, so  *)
(* a pool that db_retry throws away takes its connections with it          *)
(* (db.py 49-57, 80-101).                                                  *)
NothingLeaks ==
  /\ used \subseteq Borrowed
  /\ idle \subseteq open
  /\ open \subseteq idle \cup Borrowed

(* Even the smallest pool has room for every thread: a call finds it full  *)
(* only while a coroutine keeps a connection over something it waits for:  *)
(* a backup its upload (bot.py 3866), another the rest of its work after   *)
(* an error, which for an extraction is hours (attacker.py 1196-1202,      *)
(* bot.py 3845-3855).  Calls alone, the nested one too, never fill it      *)
(* (db.py 46, 988-989).                                                    *)
RoomForAll ==
  [][\A t \in Threads : fault'[t] = "full" /\ fault[t] # "full" => parked # {}]_vars

(* The pool recovers by itself: once the server stays up and no coroutine  *)
(* keeps a connection, every call gets a working one after finitely many   *)
(* failures (db.py 6: "Auto-Reconnect").                                   *)
Heals == <>[](net /\ parked = {}) => <>[](\A t \in Threads : fault[t] = "none")
=============================================================================
