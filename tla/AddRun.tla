-------------------------------- MODULE AddRun --------------------------------
(***************************************************************************)
(* The add engine of bot.py (_execute_parallel_add) together with the      *)
(* controls around it: starting a run from the Telegram menu or from the   *)
(* mini app, the Stop buttons, the in-memory blocked set, and whoever else *)
(* writes the flag add_in_progress or the recorded counts meanwhile.       *)
(*                                                                         *)
(* One run has a shared FIFO queue of members and one worker per account.  *)
(* A worker is a coroutine: what it does between two awaits is one action, *)
(* and every await (sleep, stop_event.wait, Telegram request) is a value   *)
(* of its program counter.                                                 *)
(*                                                                         *)
(* The process holds TWO copies of the module: it is started as            *)
(* `python bot.py', so the Telegram handlers live in __main__, while       *)
(* web_app says `from bot import ...' and so loads a second copy.  Each    *)
(* copy has its own stop_event and its own _peer_flood_strikes.  The       *)
(* dictionary atk_state of __main__ is the one web_app reads and writes;   *)
(* the atk_state of the second copy stays empty.                           *)
(*                                                                         *)
(* Left out: the kind and the deadline of a recorded limitation, the       *)
(* minimal spacing of global_throttle, the live texts of the dashboard,    *)
(* and the optional prefilter (off unless PREFILTER_ENABLED is set).       *)
(***************************************************************************)
EXTENDS Naturals, Sequences, FiniteSets

CONSTANTS
  Runs,          \* calls of _execute_parallel_add (bounds how many are started)
  Phones,        \* saved accounts
  Members,       \* users of scraped_users
  BadIds,        \* the members whose user_id is out of range
  IdOnly,        \* the members with neither username nor phone
  PriorAdded,    \* members in added_history_tbl at the start
  PriorRefused,  \* members in do_not_add_tbl at the start
  PriorCount,    \* adder_limits_tbl.added of every account at the start
  Filters,       \* member sets an add_type filter can select
  PhoneChoices,  \* account sets a caller can pass
  OtherCounts,   \* counts others write to adder_limits_tbl (0 is a reset)
  MaxFails,      \* _ABORT_AFTER_FAILS
  MaxStrikes,    \* strikes after which an account is set aside
  NoMember,      \* a worker's hand is empty
  NoRun          \* no run's set is the cached one

ASSUME MembersAssumption ==
  /\ IsFiniteSet(Members)
  /\ BadIds \cup IdOnly \cup PriorAdded \cup PriorRefused \subseteq Members
  /\ Filters \subseteq SUBSET Members
  /\ NoMember \notin Members
ASSUME PhonesAssumption == PhoneChoices \subseteq (SUBSET Phones) \ {{}}
ASSUME RunsAssumption == NoRun \notin Runs
ASSUME BoundsAssumption ==
  /\ MaxFails \in Nat \ {0} /\ MaxStrikes \in Nat \ {0}
  /\ PriorCount \in Nat /\ OtherCounts \subseteq Nat

Copies  == {"main", "web"}
Workers == Runs \X Phones
RunOf(w)   == w[1]
PhoneOf(w) == w[2]
Results == {"added", "failed", "skipped"}

Waiting == {"stagger", "delay", "cooldown", "lastCooldown"}
Holding == {"resolve", "throttle", "invite"}
PCs == {"off", "new", "connect", "loop", "closing", "done"} \cup Waiting \cup Holding

VARIABLES
  phase,         \* life of a run
  copy,          \* the copy of the module a run executes in
  accs,          \* the accounts of a run
  listed,        \* the members that reach a run's queue
  queue,         \* member_queue
  outcome,       \* history: the result booked for a member
  total,         \* total_added, total_failed, total_skipped
  held,          \* the member a worker has taken
  blocked,       \* blocked_ids
  fails,         \* _global_consecutive_fails
  pc,            \* where a worker awaits
  accAdded,      \* acc_added
  already,       \* already_added
  stopEvent,     \* stop_event of each copy
  stopFlags,     \* _stop_requested ("requested") and stop_parallel_add ("parallel")
  addInProgress, \* add_in_progress in atk_state
  exposed,       \* history: web runs at work whose flag somebody else cleared
  strikes,       \* _peer_flood_strikes of each copy
  limitAdded,    \* adder_limits_tbl.added
  made,          \* history: adds of an account that its recorded count must cover
  cacheOf,       \* the run whose blocked_ids is the cached set object
  scraped,       \* scraped_users
  addedDb,       \* added_history_tbl
  doNotAdd,      \* do_not_add_tbl
  stopAsked,     \* history: how a run was told to stop while it was active
  stopHeld       \* history: runs told to stop whose stop nothing withdrew since

runVars     == <<phase, copy, accs, listed>>
queueVars   == <<queue, outcome, total, held>>
countVars   == <<accAdded, already>>
gateVars    == <<addInProgress, exposed>>
controlVars == <<stopEvent, stopFlags, stopAsked, stopHeld, gateVars>>
limitVars   == <<limitAdded, made>>
storeVars   == <<cacheOf, scraped, addedDb, doNotAdd>>
vars == <<runVars, queueVars, blocked, fails, pc, countVars, controlVars,
          strikes, limitVars, storeVars>>

Init ==
  /\ phase = [r \in Runs |-> "idle"]
  /\ copy = [r \in Runs |-> "main"]
  /\ accs = [r \in Runs |-> {}]
  /\ listed = [r \in Runs |-> {}]
  /\ queue = [r \in Runs |-> <<>>]
  /\ outcome = [r \in Runs |-> [m \in Members |-> "none"]]
  /\ total = [r \in Runs |-> [o \in Results |-> 0]]
  /\ held = [w \in Workers |-> NoMember]
  /\ blocked = [r \in Runs |-> {}]
  /\ fails = [r \in Runs |-> 0]
  /\ pc = [w \in Workers |-> "off"]
  /\ accAdded = [w \in Workers |-> 0]
  /\ already = [w \in Workers |-> 0]
  /\ stopEvent = [c \in Copies |-> FALSE]
  /\ stopFlags = {}
  /\ addInProgress = FALSE
  /\ exposed = {}
  /\ strikes = [c \in Copies |-> [p \in Phones |-> 0]]
  /\ limitAdded = [p \in Phones |-> PriorCount]
  /\ made = [p \in Phones |-> PriorCount]
  /\ cacheOf = NoRun
  /\ scraped = Members
  /\ addedDb = PriorAdded
  /\ doNotAdd = PriorRefused
  /\ stopAsked = [r \in Runs |-> {}]
  /\ stopHeld = {}

-----------------------------------------------------------------------------
(* Helpers *)

Active == {r \in Runs : phase[r] \in {"scheduled", "running"}}
RunsIn(c) == {r \in Runs : copy[r] = c}

(* The orders in which a list can reach the queue: max mode shuffles it, the *)
(* others sort by names the model does not have.                             *)
Orderings(S) ==
  {q \in [1..Cardinality(S) -> S] :
     \A i, j \in 1..Cardinality(S) : q[i] = q[j] => i = j}

(* Mutant of SendStop: the stop is not looked at after the throttle. *)
SendStopUnchecked(r) == FALSE

(* The stop test at the head of the loop, and the one after the throttle,    *)
(* which does not look at stop_parallel_add.                                 *)
LoopStop(r) == stopEvent[copy[r]] \/ (copy[r] = "main" /\ stopFlags # {})
SendStop(r) == stopEvent[copy[r]] \/ (copy[r] = "main" /\ "requested" \in stopFlags)

(* A stopped wait leaves the worker; only the staggered start returns before *)
(* the client exists.                                                        *)
StoppedAt(state) == IF state = "stagger" THEN "done" ELSE "closing"

(* stop_event.set() ends the wait of every worker waiting on that event. *)
Woken(c) ==
  [w \in Workers |-> IF pc[w] \in Waiting /\ copy[RunOf(w)] = c
                     THEN StoppedAt(pc[w]) ELSE pc[w]]

GoTo(w, state) == pc' = [pc EXCEPT ![w] = state]

(* await wait_for(stop_event.wait(), t): returns at once if the event is set. *)
GoWait(w, state) ==
  GoTo(w, IF stopEvent[copy[RunOf(w)]] THEN StoppedAt(state) ELSE state)

(* Mutants of Settle: the counter is forgotten; the member is tried again. *)
SettleUncounted(w, o) ==
  /\ outcome' = [outcome EXCEPT ![RunOf(w)][held[w]] = o]
  /\ held' = [held EXCEPT ![w] = NoMember]
  /\ UNCHANGED <<queue, total>>
SettleAndRetry(w, o) ==
  /\ outcome' = [outcome EXCEPT ![RunOf(w)][held[w]] = o]
  /\ total' = [total EXCEPT ![RunOf(w)][o] = @ + 1]
  /\ held' = [held EXCEPT ![w] = NoMember]
  /\ queue' = [queue EXCEPT ![RunOf(w)] = Append(@, held[w])]

(* Book a result for the member in the worker's hand. *)
Settle(w, o) ==
  /\ outcome' = [outcome EXCEPT ![RunOf(w)][held[w]] = o]
  /\ total' = [total EXCEPT ![RunOf(w)][o] = @ + 1]
  /\ held' = [held EXCEPT ![w] = NoMember]
  /\ UNCHANGED queue

(* Mutant of Requeue: a flood drops the member instead of giving it back. *)
RequeueLost(w) ==
  /\ held' = [held EXCEPT ![w] = NoMember]
  /\ UNCHANGED <<queue, outcome, total>>

(* member_queue.put_nowait(member) *)
Requeue(w) ==
  /\ queue' = [queue EXCEPT ![RunOf(w)] = Append(@, held[w])]
  /\ held' = [held EXCEPT ![w] = NoMember]
  /\ UNCHANGED <<outcome, total>>

(* History: these runs have been told to stop, by the menu's button or by    *)
(* whoever sets an event, the mini app and the guard against a burnt list.   *)
Told(rs, by) ==
  [r \in Runs |-> IF r \in rs THEN stopAsked[r] \cup {by} ELSE stopAsked[r]]

(* blocked_ids.add(uid) for the worker's run, and mark_added_local for the   *)
(* run whose blocked_ids is the cached set.                                  *)
BlockFor(rs, m) ==
  blocked' = [r \in Runs |-> IF r \in rs THEN blocked[r] \cup {m} ELSE blocked[r]]

(* Mutant of NeverAddAgain: the cache is kept. *)
NeverAddAgainCached(m) ==
  /\ doNotAdd' = doNotAdd \cup {m}
  /\ scraped' = scraped \ {m}
  /\ UNCHANGED <<addedDb, cacheOf>>

(* never_add_again: do_not_add_tbl, scraped_users, and the cache is dropped. *)
NeverAddAgain(m) ==
  /\ doNotAdd' = doNotAdd \cup {m}
  /\ scraped' = scraped \ {m}
  /\ cacheOf' = NoRun
  /\ UNCHANGED addedDb

(* mark_user_as_added: the row of added_history_tbl. *)
MarkAdded(m) ==
  /\ addedDb' = addedDb \cup {m}
  /\ UNCHANGED <<scraped, doNotAdd, cacheOf>>

(* Mutant of SetLimit: only what this run added is recorded. *)
SetLimitOfRun(w, n) == limitAdded' = [limitAdded EXCEPT ![PhoneOf(w)] = n]

(* db.set_adder_limit(phone, already_added + acc_added, ...) *)
SetLimit(w, n) == limitAdded' = [limitAdded EXCEPT ![PhoneOf(w)] = already[w] + n]

(* Mutant of NextStrike: the strikes of an account do not add up. *)
NextStrikeForgets(n) == 1

NextStrike(n) == n + 1
SetAside(n) == n >= MaxStrikes

(* add_in_progress = False: a run of the mini app that is at work, and did   *)
(* not end with it, is exposed.                                              *)
LowerGate(ended) ==
  /\ addInProgress' = FALSE
  /\ exposed' = (Active \cap RunsIn("web")) \ ended

-----------------------------------------------------------------------------
(* Starting a run *)

(* A handler has the list and the accounts, and a task is created.  The list *)
(* in the queue is the one prefer_addable_members returns: no id-only users. *)
Schedule(r, c, S, phones) ==
  /\ phase[r] = "idle"
  /\ phase' = [phase EXCEPT ![r] = "scheduled"]
  /\ copy' = [copy EXCEPT ![r] = c]
  /\ accs' = [accs EXCEPT ![r] = phones]
  /\ listed' = [listed EXCEPT ![r] = S \ IdOnly]
  /\ UNCHANGED <<queueVars, blocked, fails, pc, countVars, stopEvent, stopAsked,
                 exposed, strikes, limitVars, storeVars>>

(* A menu button of the Telegram bot: nothing is asked of add_in_progress,   *)
(* and the engine of this copy does not write it (its atk_state_ref is None).*)
BotTrigger(r) ==
  /\ \E F \in Filters, phones \in PhoneChoices :
       scraped \cap F # {} /\ Schedule(r, "main", scraped \cap F, phones)
  /\ UNCHANGED <<stopFlags, addInProgress, stopHeld>>

(* The list the mini app builds from scraped_users. *)
WebList(F) == (scraped \cap F) \ (addedDb \cup BadIds \cup IdOnly)

(* Mutant of GateOpen: the mini app does not ask whether an add is running. *)
GateAlwaysOpen == TRUE

GateOpen == ~addInProgress

(* The gate of the mini app: one job at a time, and an old stop is withdrawn *)
(* (by the single-account trigger only in part).                             *)
WebGate(r, cleared, phoneSets) ==
  /\ GateOpen
  /\ \E F \in Filters, phones \in phoneSets :
       WebList(F) # {} /\ Schedule(r, "web", WebList(F), phones)
  /\ addInProgress' = TRUE
  /\ stopFlags' = stopFlags \ cleared
  /\ stopHeld' = stopHeld \ RunsIn("main")

WebTriggerParallel(r) == WebGate(r, {"requested", "parallel"}, PhoneChoices)
WebTriggerSingle(r) == WebGate(r, {"requested"}, {{p} : p \in Phones})

(* Mutant of ClearedEvent: a new run does not clear the old stop. *)
ClearedEventKept(c) == stopEvent

(* reset_stop_event: the event of the copy; its atk_state, if it has one. *)
ClearedEvent(c) == [stopEvent EXCEPT ![c] = FALSE]

(* The task reaches _execute_parallel_add. *)
Launch(r) ==
  /\ phase[r] = "scheduled"
  /\ phase' = [phase EXCEPT ![r] = "running"]
  /\ \E q \in Orderings(listed[r]) : queue' = [queue EXCEPT ![r] = q]
  /\ stopEvent' = ClearedEvent(copy[r])
  /\ stopFlags' = IF copy[r] = "main" THEN {} ELSE stopFlags
  /\ addInProgress' = (addInProgress \/ copy[r] = "web")
  /\ stopHeld' = stopHeld \ RunsIn(copy[r])
  /\ blocked' = [blocked EXCEPT ![r] = addedDb \cup doNotAdd]
  /\ cacheOf' = IF addedDb \cup doNotAdd = {} THEN NoRun ELSE r
  /\ pc' = [w \in Workers |-> IF RunOf(w) = r /\ PhoneOf(w) \in accs[r]
                              THEN "new" ELSE pc[w]]
  /\ UNCHANGED <<copy, accs, listed, outcome, total, held, fails, countVars,
                 stopAsked, exposed, strikes, limitVars, scraped, addedDb, doNotAdd>>

(* The run is over: a web job clears add_in_progress in its finally. *)
Over(r) ==
  /\ phase' = [phase EXCEPT ![r] = "finished"]
  /\ IF copy[r] = "web" THEN LowerGate({r}) ELSE UNCHANGED <<addInProgress, exposed>>
  /\ stopHeld' = stopHeld \ {r}
  /\ stopAsked' = [stopAsked EXCEPT ![r] = {}]
  /\ fails' = [fails EXCEPT ![r] = 0]
  /\ accAdded' = [w \in Workers |-> IF RunOf(w) = r THEN 0 ELSE accAdded[w]]
  /\ already' = [w \in Workers |-> IF RunOf(w) = r THEN 0 ELSE already[w]]
  /\ UNCHANGED <<copy, accs, listed, queueVars, blocked, pc, stopEvent, stopFlags, strikes, limitVars, storeVars>>

(* No usable account, the target does not answer, an exception on the way. *)
PrepFails(r) == phase[r] = "scheduled" /\ Over(r)

(* gather() returned: every worker of the run is over. *)
Finish(r) ==
  /\ phase[r] = "running"
  /\ \A p \in Phones : pc[<<r, p>>] \in {"off", "done"}
  /\ Over(r)

-----------------------------------------------------------------------------
(* The Stop buttons *)

(* POST /api/add/stop: the event of the second copy, the flags of atk_state. *)
WebStop ==
  /\ stopEvent' = [stopEvent EXCEPT !["web"] = TRUE]
  /\ pc' = Woken("web")
  /\ stopFlags' = {"requested", "parallel"}
  /\ LowerGate({})
  /\ stopAsked' = Told(Active, "event")
  /\ stopHeld' = stopHeld \cup Active
  /\ UNCHANGED <<runVars, queueVars, blocked, fails, countVars, strikes,
                 limitVars, storeVars>>

(* atk_state.clear() *)
ClearAtkState ==
  /\ stopFlags' = {}
  /\ LowerGate({})
  /\ stopHeld' = stopHeld \ RunsIn("main")
  /\ UNCHANGED <<runVars, queueVars, blocked, fails, pc, countVars, stopEvent,
                 strikes, limitVars, storeVars>>

(* The Stop button of the bot's messages sets no event. *)
BotStopOp == stopAsked' = Told(Active, "menu") /\ ClearAtkState

(* The Home button clears atk_state while no add is known to be in progress. *)
BotHome == ~addInProgress /\ ClearAtkState /\ UNCHANGED stopAsked

(* Other dialogs of the bot clear it without asking. *)
DialogClears == ClearAtkState /\ UNCHANGED stopAsked

(* A scrape job of the mini app or _execute_direct_add sets the flag or      *)
(* clears it.  When they do is left to AccountUse: here it may be any time.  *)
OtherJob ==
  /\ (addInProgress' = TRUE /\ UNCHANGED exposed) \/ LowerGate({})
  /\ UNCHANGED <<runVars, queueVars, blocked, fails, pc, countVars, stopEvent, stopFlags,
                 stopAsked, stopHeld, strikes, limitVars, storeVars>>

-----------------------------------------------------------------------------
(* The recorded counts *)

(* The workers of an account that will write its count again. *)
Counting(p) ==
  {w \in Workers : PhoneOf(w) = p /\ pc[w] \notin {"off", "new", "closing", "done"}}

(* History: what the record owes the adds of a worker that has the account   *)
(* for itself.  Two workers write over each other, and a worker over whoever *)
(* else writes the row: nothing from before is asked for then.               *)
Owed(p, alone, n) == made' = [made EXCEPT ![p] = IF alone THEN n ELSE 0]

(* Somebody else replaces a count: the 24-hour thread, which goes through    *)
(* the accounts one by one while everything else runs, the reset of the mini *)
(* app, and the add loops of the menu, which write what they counted.        *)
WriteCount(p) ==
  /\ \E n \in OtherCounts :
       /\ limitAdded' = [limitAdded EXCEPT ![p] = n]
       /\ Owed(p, Counting(p) = {}, n)
  /\ UNCHANGED <<runVars, queueVars, blocked, fails, pc, countVars, controlVars,
                 strikes, storeVars>>

-----------------------------------------------------------------------------
(* The blocked cache between runs *)

(* A user known to the blocked set leaves a group: never_add_again("left"). *)
MemberLeft(m) ==
  /\ m \in addedDb \cup doNotAdd
  /\ NeverAddAgain(m)
  /\ UNCHANGED <<runVars, queueVars, blocked, fails, pc, countVars, controlVars,
                 strikes, limitVars>>

(* After _BLOCKED_CACHE_TTL another caller loads a fresh set. *)
CacheReloaded ==
  /\ cacheOf # NoRun
  /\ cacheOf' = NoRun
  /\ UNCHANGED <<runVars, queueVars, blocked, fails, pc, countVars, controlVars,
                 strikes, limitVars, scraped, addedDb, doNotAdd>>

-----------------------------------------------------------------------------
(* A worker until it has a member in hand *)

NoSession(w) ==
  /\ pc[w] = "new"
  /\ GoTo(w, "done")
  /\ UNCHANGED <<runVars, queueVars, blocked, fails, countVars, controlVars,
                 strikes, limitVars, storeVars>>

(* already_added is read once, then the staggered start is awaited. *)
BeginWorker(w) ==
  /\ pc[w] = "new"
  /\ already' = [already EXCEPT ![w] = limitAdded[PhoneOf(w)]]
  /\ Owed(PhoneOf(w), Counting(PhoneOf(w)) = {}, made[PhoneOf(w)])
  /\ GoWait(w, "stagger")
  /\ UNCHANGED <<runVars, queueVars, blocked, fails, accAdded, controlVars, strikes,
                 limitAdded, storeVars>>

(* client.start() and resolve_target_for_account *)
Connect(w) ==
  /\ pc[w] = "connect"
  /\ \E state \in {"loop", "closing"} : GoTo(w, state)
  /\ UNCHANGED <<runVars, queueVars, blocked, fails, countVars, controlVars,
                 strikes, limitVars, storeVars>>

(* A timed wait ends without a stop; the last strike leaves the loop. *)
TimerFires(w) ==
  /\ pc[w] \in Waiting
  /\ GoTo(w, CASE pc[w] = "stagger" -> "connect"
               [] pc[w] \in {"delay", "cooldown"} -> "loop"
               [] pc[w] = "lastCooldown" -> "closing")
  /\ UNCHANGED <<runVars, queueVars, blocked, fails, countVars, controlVars,
                 strikes, limitVars, storeVars>>

LeaveLoop(w) ==
  /\ pc[w] = "loop"
  /\ queue[RunOf(w)] = <<>> \/ LoopStop(RunOf(w))
  /\ GoTo(w, "closing")
  /\ UNCHANGED <<runVars, queueVars, blocked, fails, countVars, controlVars,
                 strikes, limitVars, storeVars>>

MayTake(w) ==
  /\ pc[w] = "loop"
  /\ queue[RunOf(w)] # <<>>
  /\ ~LoopStop(RunOf(w))

(* Mutant of Refused: blocked_ids is not consulted. *)
RefusedBadIdOnly(r, m) == m \in BadIds

Refused(r, m) == m \in BadIds \cup blocked[r]

(* get_nowait returns a member that is out of range or blocked. *)
TakeRefused(w) ==
  /\ MayTake(w)
  /\ LET r == RunOf(w)
         m == Head(queue[r])
     IN  /\ Refused(r, m)
         /\ queue' = [queue EXCEPT ![r] = Tail(@)]
         /\ outcome' = [outcome EXCEPT ![r][m] = "skipped"]
         /\ total' = [total EXCEPT ![r]["skipped"] = @ + 1]
  /\ UNCHANGED <<runVars, held, blocked, fails, pc, countVars, controlVars,
                 strikes, limitVars, storeVars>>

(* get_nowait returns a member to try: resolve_peer is awaited. *)
Take(w) ==
  /\ MayTake(w)
  /\ LET r == RunOf(w)
         m == Head(queue[r])
     IN  /\ ~Refused(r, m)
         /\ held' = [held EXCEPT ![w] = m]
         /\ queue' = [queue EXCEPT ![r] = Tail(@)]
  /\ GoTo(w, "resolve")
  /\ UNCHANGED <<runVars, outcome, total, blocked, fails, countVars, controlVars,
                 strikes, limitVars, storeVars>>

-----------------------------------------------------------------------------
(* A worker with a member in hand *)

Resolved(w) ==
  /\ pc[w] = "resolve"
  /\ GoTo(w, "throttle")
  /\ UNCHANGED <<runVars, queueVars, blocked, fails, countVars, controlVars,
                 strikes, limitVars, storeVars>>

Unresolved(w) ==
  /\ pc[w] = "resolve"
  /\ Settle(w, "skipped")
  /\ GoTo(w, "loop")
  /\ UNCHANGED <<runVars, blocked, fails, countVars, controlVars, strikes,
                 limitVars, storeVars>>

(* PEER_FLOOD while resolving or inviting: the member goes back, the account *)
(* gets a strike and waits.                                                  *)
PeerFlood(w) ==
  /\ pc[w] \in {"resolve", "invite"}
  /\ Requeue(w)
  /\ LET c == copy[RunOf(w)]
         n == NextStrike(strikes[c][PhoneOf(w)])
     IN  /\ strikes' = [strikes EXCEPT ![c][PhoneOf(w)] = n]
         /\ GoWait(w, IF SetAside(n) THEN "lastCooldown" ELSE "cooldown")
  /\ SetLimit(w, accAdded[w])
  /\ UNCHANGED <<made, runVars, blocked, fails, countVars, controlVars, storeVars>>

(* global_throttle returned; stop is looked at once more. *)
ThrottleStopped(w) ==
  /\ pc[w] = "throttle"
  /\ SendStop(RunOf(w))
  /\ Requeue(w)
  /\ GoTo(w, "closing")
  /\ UNCHANGED <<runVars, blocked, fails, countVars, controlVars, strikes,
                 limitVars, storeVars>>

SendInvite(w) ==
  /\ pc[w] = "throttle"
  /\ ~SendStop(RunOf(w))
  /\ GoTo(w, "invite")
  /\ UNCHANGED <<runVars, queueVars, blocked, fails, countVars, controlVars,
                 strikes, limitVars, storeVars>>

(* The invite went through but the user is among missing_invitees.  The      *)
(* guard against a burnt list is evaluated here and nowhere else.            *)
InviteMissing(w) ==
  /\ pc[w] = "invite"
  /\ Settle(w, "skipped")
  /\ LET r == RunOf(w)
         abort == fails[r] + 1 >= MaxFails /\ total[r]["added"] = 0
     IN  /\ fails' = [fails EXCEPT ![r] = @ + 1]
         /\ BlockFor({r}, held[w])
         /\ stopEvent' = [stopEvent EXCEPT ![copy[r]] = abort \/ @]
         /\ stopAsked' =
              Told({s \in RunsIn(copy[r]) : abort /\ phase[s] = "running"}, "event")
         /\ IF abort THEN pc' = [Woken(copy[r]) EXCEPT ![w] = "closing"]
                     ELSE GoWait(w, "delay")
  /\ NeverAddAgain(held[w])
  /\ UNCHANGED <<runVars, countVars, stopFlags, gateVars, stopHeld,
                 strikes, limitVars>>

InviteAdded(w) ==
  /\ pc[w] = "invite"
  /\ Settle(w, "added")
  /\ accAdded' = [accAdded EXCEPT ![w] = @ + 1]
  /\ strikes' = [strikes EXCEPT ![copy[RunOf(w)]][PhoneOf(w)] = 0]
  /\ fails' = [fails EXCEPT ![RunOf(w)] = 0]
  /\ BlockFor({RunOf(w), cacheOf}, held[w])
  /\ MarkAdded(held[w])
  /\ SetLimit(w, accAdded[w] + 1)
  /\ Owed(PhoneOf(w), Counting(PhoneOf(w)) = {w}, made[PhoneOf(w)] + 1)
  /\ GoWait(w, "delay")
  /\ UNCHANGED <<runVars, already, controlVars>>

InviteFloodWait(w) ==
  /\ pc[w] = "invite"
  /\ Settle(w, "failed")
  /\ SetLimit(w, accAdded[w])
  /\ GoTo(w, "closing")
  /\ UNCHANGED <<made, runVars, blocked, fails, countVars, controlVars, strikes, storeVars>>

AlreadyParticipant(w) ==
  /\ pc[w] = "invite"
  /\ Settle(w, "skipped")
  /\ BlockFor({RunOf(w), cacheOf}, held[w])
  /\ MarkAdded(held[w])
  /\ GoWait(w, "delay")
  /\ UNCHANGED <<runVars, fails, countVars, controlVars, strikes, limitVars>>

(* UserPrivacyRestricted / UserNotMutualContact *)
PrivacyRestricted(w) ==
  /\ pc[w] = "invite"
  /\ Settle(w, "skipped")
  /\ fails' = [fails EXCEPT ![RunOf(w)] = @ + 1]
  /\ BlockFor({RunOf(w)}, held[w])
  /\ NeverAddAgain(held[w])
  /\ GoWait(w, "delay")
  /\ UNCHANGED <<runVars, countVars, controlVars, strikes, limitVars>>

PeerIdInvalid(w) ==
  /\ pc[w] = "invite"
  /\ Settle(w, "skipped")
  /\ BlockFor({RunOf(w)}, held[w])
  /\ NeverAddAgain(held[w])
  /\ GoWait(w, "delay")
  /\ UNCHANGED <<runVars, fails, countVars, controlVars, strikes, limitVars>>

(* CHAT_WRITE_FORBIDDEN / CHAT_ADMIN_REQUIRED: this account gives up. *)
ChatForbidden(w) ==
  /\ pc[w] = "invite"
  /\ Requeue(w)
  /\ SetLimit(w, accAdded[w])
  /\ GoTo(w, "closing")
  /\ UNCHANGED <<made, runVars, blocked, fails, countVars, controlVars, strikes, storeVars>>

(* USER_CHANNELS_TOO_MUCH: booked in the database, not in blocked_ids. *)
TooManyChannels(w) ==
  /\ pc[w] = "invite"
  /\ Settle(w, "skipped")
  /\ NeverAddAgain(held[w])
  /\ GoTo(w, "loop")
  /\ UNCHANGED <<runVars, blocked, fails, countVars, controlVars, strikes, limitVars>>

InviteError(w) ==
  /\ pc[w] = "invite"
  /\ Settle(w, "failed")
  /\ GoWait(w, "delay")
  /\ UNCHANGED <<runVars, blocked, fails, countVars, controlVars, strikes,
                 limitVars, storeVars>>

(* finally: the client is stopped and the copy of the session removed. *)
CloseWorker(w) ==
  /\ pc[w] = "closing"
  /\ GoTo(w, "done")
  /\ UNCHANGED <<runVars, queueVars, blocked, fails, countVars, controlVars,
                 strikes, limitVars, storeVars>>

-----------------------------------------------------------------------------
StartStep(w) == NoSession(w) \/ BeginWorker(w) \/ Connect(w)
LoopStep(w)  == TimerFires(w) \/ LeaveLoop(w) \/ TakeRefused(w) \/ Take(w) \/ CloseWorker(w)
TryStep(w)   == Resolved(w) \/ Unresolved(w) \/ PeerFlood(w) \/ ThrottleStopped(w) \/ SendInvite(w)
AnswerStep(w) ==
  \/ InviteMissing(w)      \/ InviteAdded(w)       \/ InviteFloodWait(w)
  \/ AlreadyParticipant(w) \/ PrivacyRestricted(w) \/ PeerIdInvalid(w)
  \/ ChatForbidden(w)      \/ TooManyChannels(w)   \/ InviteError(w)
WorkerStep(w) == StartStep(w) \/ LoopStep(w) \/ TryStep(w) \/ AnswerStep(w)

Trigger(r) == BotTrigger(r) \/ WebTriggerParallel(r) \/ WebTriggerSingle(r)
RunStep(r) == Launch(r) \/ PrepFails(r) \/ Finish(r)
ButtonStep == WebStop \/ BotStopOp \/ BotHome \/ DialogClears
CacheStep == CacheReloaded \/ \E m \in Members : MemberLeft(m)

Next ==
  \/ \E r \in Runs : Trigger(r) \/ RunStep(r)
  \/ \E w \in Workers : WorkerStep(w)
  \/ ButtonStep
  \/ OtherJob
  \/ \E p \in Phones : WriteCount(p)
  \/ CacheStep

Spec == Init /\ [][Next]_vars

(* The event loop runs every ready coroutine, every timer fires and every    *)
(* request to Telegram returns or raises; nobody has to press a button.      *)
Fairness ==
  /\ \A w \in Workers : WF_vars(WorkerStep(w))
  /\ \A r \in Runs : WF_vars(RunStep(r))
FairSpec == Spec /\ Fairness
=============================================================================
