------------------------------- MODULE MenuAdd -------------------------------
(***************************************************************************)
(* The three add loops that the menu runs beside the add engine of AddRun: *)
(* the live scan and add of one account (bot._execute_direct_add), the     *)
(* parallel add from the member table (_execute_parallel_direct_add, one   *)
(* task per account) and the quick add (_do_quick_add); and the tables     *)
(* they share with extraction, with members that leave, with the purges    *)
(* and with the reset of the counters.                                     *)
(*                                                                         *)
(* All of it runs on the bot's loop, so an action reaches from one await   *)
(* to the next; the 24-hour reset is a thread, and is taken as one step.   *)
(* A task runs once.  Left out: names, progress texts, delays, errors of   *)
(* the database, and how much room each account of a parallel run has left *)
(* (its list is dealt out in any way).                                     *)
(***************************************************************************)
EXTENDS Integers, FiniteSets

CONSTANTS
  Members,
  Phones,
  Tasks,       \* loops started from the menu; a worker of a parallel run is one
  Max,         \* MAX_ADD_PER_ACCOUNT
  PriorCount,  \* count of an account that has a row at the start
  NoPhone,
  NoMember,
  NoTask

ASSUME CountAssumption == Max \in Nat /\ PriorCount \in Nat
ASSUME NoneAssumption ==
  /\ NoPhone \notin Phones /\ NoMember \notin Members /\ NoTask \notin Tasks

(* No set in the cache. *)
NoCache == {NoMember}

VARIABLES
  scraped,   \* scraped_users
  history,   \* added_history_tbl
  dna,       \* do_not_add_tbl
  limit,     \* adder_limits_tbl.added
  cache,     \* _BLOCKED_IDS_CACHE["ids"]
  plist,     \* atk_state["par_add_uid_list"]
  stop,      \* atk_state["_stop_requested"]
  pc, kind, who, todo, cur, base, made, blocked,  \* of a task: its locals
  lead,      \* the task whose snapshot of the limits a worker shares
  snap,      \* that snapshot: limits in _execute_parallel_direct_add
  shares,    \* a task's blocked set is the object the cache holds now
  pmissed,   \* history: on record when plist was made, and not filtered out
  missed,    \* history: on record when the task's list was made, not filtered
  foreign    \* history: someone outside its run changed the task's count

tables == <<scraped, history, dna>>
dialog == <<plist, pmissed>>
locals == <<kind, who, base, lead, missed>>
work   == <<pc, todo, cur, made>>
object == <<blocked, shares>>
vars   == <<tables, limit, cache, dialog, stop, locals, work, object, snap, foreign>>

TableType ==
  /\ scraped \subseteq Members /\ history \subseteq Members /\ dna \subseteq Members
  /\ limit \in [Phones -> Nat]
CacheType ==
  /\ cache \in (SUBSET Members) \cup {NoCache}
  /\ blocked \in [Tasks -> SUBSET Members] /\ shares \in [Tasks -> BOOLEAN]
  /\ \A t \in Tasks : shares[t] => blocked[t] = cache
DialogType == stop \in BOOLEAN /\ plist \subseteq Members /\ pmissed \subseteq Members
TaskType ==
  /\ pc \in [Tasks -> {"idle", "resolving", "scan", "add", "inviting", "over"}]
  /\ kind \in [Tasks -> {"none", "live", "db", "quick"}]
  /\ who \in [Tasks -> Phones \cup {NoPhone}]
  /\ todo \in [Tasks -> SUBSET Members]
  /\ cur \in [Tasks -> Members \cup {NoMember}]
  /\ base \in [Tasks -> Nat] /\ made \in [Tasks -> Nat]
  /\ lead \in [Tasks -> Tasks \cup {NoTask}]
  /\ snap \in [Tasks -> [Phones -> Nat]]
  /\ missed \in [Tasks -> SUBSET Members] /\ foreign \in [Tasks -> BOOLEAN]

(* Every variable keeps its type; and a loop's blocked set that is shared  *)
(* with the cache has the members of the cache, whoever writes to it.      *)
TypeOK == TableType /\ CacheType /\ DialogType /\ TaskType

Init ==
  /\ scraped = {} /\ history = {} /\ dna = {}
  /\ limit = [p \in Phones |-> PriorCount]
  /\ cache = NoCache
  /\ plist = {} /\ pmissed = {}
  /\ stop = FALSE
  /\ pc = [t \in Tasks |-> "idle"] /\ kind = [t \in Tasks |-> "none"]
  /\ who = [t \in Tasks |-> NoPhone]
  /\ todo = [t \in Tasks |-> {}] /\ cur = [t \in Tasks |-> NoMember]
  /\ base = [t \in Tasks |-> 0] /\ made = [t \in Tasks |-> 0]
  /\ blocked = [t \in Tasks |-> {}] /\ shares = [t \in Tasks |-> FALSE]
  /\ lead = [t \in Tasks |-> NoTask]
  /\ snap = [t \in Tasks |-> [p \in Phones |-> 0]]
  /\ missed = [t \in Tasks |-> {}] /\ foreign = [t \in Tasks |-> FALSE]

At(t, where) == pc[t] = where
Go(t, where) == pc' = [pc EXCEPT ![t] = where]
Running(t) == pc[t] \notin {"idle", "over"}
OnRecord == history \cup dna

-----------------------------------------------------------------------------
(* The blocked set.  The cache hands out the set object itself, so a loop  *)
(* that holds it sees what mark_added_local adds, until it is replaced; an *)
(* empty set it hands out as a new one.                                    *)
Cached == IF cache = NoCache THEN OnRecord ELSE cache
Replaced == shares' = [t \in Tasks |-> FALSE] /\ UNCHANGED blocked

(* mark_user_as_added; every 300th also purges the members on record. *)
MarkAddedToCopy(m) ==
  /\ history' = history \cup {m}
  /\ cache' = IF cache = NoCache THEN NoCache ELSE cache \cup {m}
  /\ UNCHANGED <<scraped, dna, object>>
MarkAdded(m) ==
  /\ history' = history \cup {m}
  /\ scraped' \in {scraped, scraped \ history'}
  /\ cache' = IF cache = NoCache THEN NoCache ELSE cache \cup {m}
  /\ blocked' = [t \in Tasks |-> IF shares[t] THEN blocked[t] \cup {m} ELSE blocked[t]]
  /\ UNCHANGED <<dna, shares>>

InvalidatedNever == UNCHANGED <<cache, object>>
Invalidated == cache' = NoCache /\ Replaced
NeverAddAgainKept(m) == dna' = dna \cup {m} /\ UNCHANGED scraped
NeverAddAgain(m) == dna' = dna \cup {m} /\ scraped' = scraped \ {m}

(* The add engine and the prefilter give a member up for good. *)
Refuse(m) ==
  /\ NeverAddAgain(m) /\ Invalidated
  /\ UNCHANGED <<history, limit, dialog, stop, locals, work, snap, foreign>>

(* A member leaves the group: only those on record are refused for good.   *)
MemberLeft(m) ==
  /\ IF m \in Cached
       THEN NeverAddAgain(m) /\ Invalidated
       ELSE cache' = Cached /\ UNCHANGED <<scraped, dna, object>>
  /\ UNCHANGED <<history, limit, dialog, stop, locals, work, snap, foreign>>

(* Two minutes later the next reader loads a new set. *)
CacheExpires ==
  /\ cache # NoCache /\ cache' = NoCache /\ Replaced
  /\ UNCHANGED <<tables, limit, dialog, stop, locals, work, snap, foreign>>

(* bulk_save_users filters by both tables again. *)
StorableAll(ms) == ms
Storable(ms) == ms \ OnRecord

(* save_scraped of the menu's extractions, filtered by the cache before;   *)
(* the background scan calls bulk_save_users itself.                       *)
SaveScraped(ms) ==
  /\ cache' = Cached
  /\ scraped' = scraped \cup Storable(ms \ Cached)
  /\ UNCHANGED <<history, dna, limit, dialog, stop, locals, work, object, snap, foreign>>
BulkSave(ms) ==
  /\ scraped' = scraped \cup Storable(ms)
  /\ UNCHANGED <<history, dna, limit, cache, dialog, stop, locals, work, object, snap, foreign>>

Purge(gone) ==
  /\ scraped' = scraped \ gone
  /\ UNCHANGED <<history, dna, limit, cache, dialog, stop, locals, work, object, snap, foreign>>
PurgeAdded == Purge(history)
PurgeDoNotAdd == Purge(dna)

MemberStep ==
  \/ \E m \in Members : Refuse(m) \/ MemberLeft(m)
  \/ \E ms \in SUBSET Members : SaveScraped(ms) \/ BulkSave(ms)
  \/ CacheExpires \/ PurgeAdded \/ PurgeDoNotAdd

-----------------------------------------------------------------------------
(* The counters. *)
Noted(own) ==
  foreign' = [t \in Tasks |->
    \/ foreign[t]
    \/ Running(t) /\ lead[t] # own /\ limit'[who[t]] # limit[who[t]]]

(* The 24-hour thread, and the reset button. *)
Reset ==
  /\ limit' = [p \in Phones |-> 0]
  /\ Noted(NoTask)
  /\ UNCHANGED <<tables, cache, dialog, stop, locals, work, object, snap>>

(* Which limits dictionary a task writes back, and what it writes there:   *)
(* live: already + added; a worker: the same into the dictionary its run   *)
(* shares, all of which is written; quick: one more than the row says.     *)
LimitsOfTask(t) == t
LimitsOf(t) == lead[t]
NewCount(t) == IF kind[t] = "quick" THEN limit[who[t]] + 1 ELSE base[t] + made[t] + 1

Counted(t) ==
  /\ IF kind[t] = "db"
       THEN snap' = [snap EXCEPT ![LimitsOf(t)][who[t]] = NewCount(t)]
       ELSE UNCHANGED snap
  /\ limit' = IF kind[t] = "db"
       THEN snap'[LimitsOf(t)]
       ELSE [limit EXCEPT ![who[t]] = NewCount(t)]
  /\ Noted(lead[t])

-----------------------------------------------------------------------------
(* The dialog, of which the stop flag and the list are kept.  Choosing an  *)
(* account, Stop and Home clear it, with a stop that was asked for.  (Home *)
(* does not while an add is in progress.)                                  *)
Clear ==
  /\ plist' = {} /\ pmissed' = {} /\ stop' = FALSE
  /\ UNCHANGED <<tables, limit, cache, locals, work, object, snap, foreign>>

(* request_stop_all and /api/add/stop. *)
RequestStop ==
  /\ stop' = TRUE
  /\ UNCHANGED <<tables, limit, cache, dialog, locals, work, object, snap, foreign>>

(* _start_parallel_direct_add, when some account has room: at most as many *)
(* rows as there is room, then those not blocked.  The list stays until    *)
(* another replaces it.                                                    *)
HasRoom(p) == limit[p] < Max
PrepareList(ms) ==
  /\ \E p \in Phones : HasRoom(p)
  /\ plist' = ms \ Cached /\ pmissed' = plist' \cap OnRecord
  /\ cache' = Cached
  /\ UNCHANGED <<tables, limit, stop, locals, work, object,
                 snap, foreign>>

(* _start_direct_add only shows how many are left to add: it fills the     *)
(* cache.                                                                  *)
Preview ==
  /\ cache' = Cached
  /\ UNCHANGED <<tables, limit, dialog, stop, locals, work, object, snap, foreign>>

DialogStep ==
  \/ \E ms \in SUBSET scraped : PrepareList(ms)
  \/ Preview \/ Clear \/ RequestStop

-----------------------------------------------------------------------------
(* Starting and ending a loop. *)
Begin(t, k, p, b, ms, where) ==
  /\ At(t, "idle") /\ Go(t, where)
  /\ kind' = [kind EXCEPT ![t] = k] /\ who' = [who EXCEPT ![t] = p]
  /\ base' = [base EXCEPT ![t] = b] /\ lead' = [lead EXCEPT ![t] = t]
  /\ todo' = [todo EXCEPT ![t] = ms]
  /\ UNCHANGED <<cur, made, missed>>

(* A live run has an account and the count that the account had when it    *)
(* was chosen, which may be long ago; no count at all counts as 0.         *)
StartLive(t, p, b) ==
  /\ b < Max
  /\ Begin(t, "live", p, b, {}, "resolving")
  /\ UNCHANGED <<tables, limit, cache, dialog, stop, object, snap, foreign>>

(* The list is read from the table, or from a file the user sends. *)
QuickList(ms) == ms # {}
StartQuick(t, p, ms) ==
  /\ QuickList(ms)
  /\ Begin(t, "quick", p, 0, ms, "add")
  /\ UNCHANGED <<tables, limit, cache, dialog, stop, object, snap, foreign>>

(* The run deals the list out to its accounts; f names the account of a    *)
(* member, w the task of an account.                                       *)
StartDb(f, w) ==
  LET Batch(p) == {m \in plist : f[m] = p}
      used == {p \in Phones : Batch(p) # {}}
      mine == {w[p] : p \in used}
      Of(t) == CHOOSE p \in used : w[p] = t
  IN /\ used # {}
     /\ \A p \in used : At(w[p], "idle")
     /\ Cardinality(mine) = Cardinality(used)
     /\ snap' = [t \in Tasks |-> IF t \in mine THEN limit ELSE snap[t]]
     /\ pc' = [t \in Tasks |-> IF t \in mine THEN "add" ELSE pc[t]]
     /\ kind' = [t \in Tasks |-> IF t \in mine THEN "db" ELSE kind[t]]
     /\ who' = [t \in Tasks |-> IF t \in mine THEN Of(t) ELSE who[t]]
     /\ base' = [t \in Tasks |-> IF t \in mine THEN limit[Of(t)] ELSE base[t]]
     /\ \E first \in mine : lead' = [t \in Tasks |-> IF t \in mine THEN first ELSE lead[t]]
     /\ todo' = [t \in Tasks |-> IF t \in mine THEN Batch(Of(t)) ELSE todo[t]]
     /\ missed' = [t \in Tasks |-> IF t \in mine THEN pmissed ELSE missed[t]]
     /\ UNCHANGED <<tables, limit, cache, dialog, stop, cur, made, object, foreign>>

(* A loop that is over forgets its locals. *)
Over(t) ==
  /\ Go(t, "over")
  /\ todo' = [todo EXCEPT ![t] = {}] /\ cur' = [cur EXCEPT ![t] = NoMember]
  /\ made' = [made EXCEPT ![t] = 0] /\ base' = [base EXCEPT ![t] = 0]
  /\ kind' = [kind EXCEPT ![t] = "none"] /\ who' = [who EXCEPT ![t] = NoPhone]
  /\ missed' = [missed EXCEPT ![t] = {}] /\ lead' = [lead EXCEPT ![t] = NoTask]
  /\ foreign' = [foreign EXCEPT ![t] = FALSE]
  /\ snap' = [u \in Tasks |-> IF \E v \in Tasks \ {t} : Running(v) /\ lead[v] = u
                             THEN snap[u] ELSE [p \in Phones |-> 0]]
GiveUp(t) ==
  /\ \/ At(t, "resolving")
     \/ kind[t] = "db" /\ (At(t, "add") \/ At(t, "inviting"))
  /\ Over(t)
  /\ UNCHANGED <<tables, limit, cache, dialog, stop, object>>

(* The loop is through. *)
Ends(t) ==
  /\ At(t, "add")
  /\ todo[t] = {} \/ (kind[t] = "live" /\ stop)
  /\ Over(t)
  /\ UNCHANGED <<tables, limit, cache, dialog, stop, object>>

-----------------------------------------------------------------------------
(* The live run's first phase. *)
LiveEnter(t) ==
  /\ At(t, "resolving")
  /\ cache' = Cached
  /\ blocked' = [blocked EXCEPT ![t] = Cached] /\ shares' = [shares EXCEPT ![t] = Cached # {}]
  /\ missed' = [missed EXCEPT ![t] = OnRecord \ Cached]
  /\ Go(t, "scan")
  /\ UNCHANGED <<tables, limit, dialog, stop, kind, who, base, lead, todo, cur, made, snap,
                 foreign>>

LiveScan(t, m) ==
  /\ At(t, "scan") /\ ~stop
  /\ m \notin blocked[t] \cup todo[t]
  /\ todo' = [todo EXCEPT ![t] = @ \cup {m}]
  /\ UNCHANGED <<tables, limit, cache, dialog, stop, locals, pc, cur, made, object, snap,
                 foreign>>

(* The scan ends (all seen, an error or a stop).  An empty result returns  *)
(* at once; otherwise as many as the account may still add are kept.       *)
LiveScanned(t) ==
  /\ At(t, "scan")
  /\ IF todo[t] = {}
       THEN Over(t)
       ELSE /\ Go(t, "add")
            /\ \E ms \in SUBSET todo[t] :
                 /\ \/ ms = todo[t] /\ Cardinality(ms) <= Max - base[t]
                    \/ Cardinality(todo[t]) > Max - base[t] /\ Cardinality(ms) = Max - base[t]
                 /\ todo' = [todo EXCEPT ![t] = ms]
            /\ UNCHANGED <<cur, made, locals, snap, foreign>>
  /\ shares' = [shares EXCEPT ![t] = FALSE] /\ blocked' = [blocked EXCEPT ![t] = {}]
  /\ UNCHANGED <<tables, limit, cache, dialog, stop>>

-----------------------------------------------------------------------------
(* One member.  Only the live run looks for a stop. *)
Invite(t, m) ==
  /\ At(t, "add") /\ m \in todo[t]
  /\ ~(kind[t] = "live" /\ stop)
  /\ todo' = [todo EXCEPT ![t] = @ \ {m}] /\ cur' = [cur EXCEPT ![t] = m]
  /\ Go(t, "inviting")
  /\ UNCHANGED <<tables, limit, cache, dialog, stop, locals, made, object, snap, foreign>>

Answered(t) == Go(t, "add") /\ cur' = [cur EXCEPT ![t] = NoMember] /\ UNCHANGED todo

Joined(t) ==
  /\ At(t, "inviting") /\ Answered(t)
  /\ MarkAdded(cur[t])
  /\ Counted(t)
  /\ made' = IF kind[t] = "quick" THEN made ELSE [made EXCEPT ![t] = @ + 1]
  /\ UNCHANGED <<dialog, stop, locals>>

(* "already a participant": on record, not counted; quick keeps no record. *)
WasThere(t) ==
  /\ At(t, "inviting") /\ Answered(t)
  /\ IF kind[t] = "quick"
       THEN UNCHANGED <<tables, cache, object>>
       ELSE MarkAdded(cur[t])
  /\ UNCHANGED <<limit, dialog, stop, locals, made, snap, foreign>>

(* Did not join, privacy, an unknown peer, a short flood wait. *)
Missed(t) ==
  /\ At(t, "inviting") /\ Answered(t)
  /\ UNCHANGED <<tables, limit, cache, dialog, stop, locals, made, object, snap, foreign>>

(* A long flood wait, or (quick) no right to invite: the rest is dropped.  *)
Dropped(t) ==
  /\ At(t, "inviting")
  /\ Go(t, "add")
  /\ todo' = [todo EXCEPT ![t] = {}] /\ cur' = [cur EXCEPT ![t] = NoMember]
  /\ UNCHANGED <<tables, limit, cache, dialog, stop, locals, made, object, snap, foreign>>

TaskStep(t) ==
  \/ GiveUp(t) \/ Ends(t)
  \/ \E p \in Phones, b \in 0..Max : StartLive(t, p, b)
  \/ \E p \in Phones, ms \in SUBSET Members : StartQuick(t, p, ms)
  \/ LiveEnter(t) \/ LiveScanned(t)
  \/ \E m \in Members : LiveScan(t, m) \/ Invite(t, m)
  \/ Joined(t) \/ WasThere(t) \/ Missed(t) \/ Dropped(t)

Next ==
  \/ MemberStep \/ DialogStep \/ Reset
  \/ \E t \in Tasks : TaskStep(t)
  \/ \E f \in [plist -> Phones \cup {NoPhone}], w \in [Phones -> Tasks] : StartDb(f, w)

Spec == Init /\ [][Next]_vars

-----------------------------------------------------------------------------
(* Properties. *)

(* A run of the live scan or from the table never invites a member who was *)
(* on record, as added or as refused, when its list was made: the cache it *)
(* filters with is shared, replaced and updated by everybody else, for up  *)
(* to two minutes without a look at the tables (add_engine.py 95-139).     *)
RefusedNotInvited ==
  \A t \in Tasks : kind[t] \in {"live", "db"} /\ At(t, "inviting") => cur[t] \notin missed[t]

(* A member refused for good is in no list for the next run: whoever       *)
(* refuses deletes the row, and no extraction that met the member before   *)
(* or meets it later brings the row back (bot.py 611-631, db.py 433-486,   *)
(* add_engine.py 129-139).                                                 *)
RefusedNotStored == scraped \cap dna = {}

(* The stored count of an account that a run works with is what it was,    *)
(* plus what the run has added, unless someone outside the run has written *)
(* it meanwhile.  The workers of a parallel run all write all counts       *)
(* (bot.py 1332, 1410-1411), which is right only because they share them.  *)
CountsOfARun ==
  \A t \in Tasks :
    made[t] > 0 /\ Running(t) /\ ~foreign[t] => limit[who[t]] = base[t] + made[t]
=============================================================================
