# Formal model of the Add_members bot

The repository is a Telegram bot with a web panel (the "mini app"). It scrapes
the members of groups, keeps them in PostgreSQL and adds them to a target group
with several user accounts at once; it also guards groups (captcha, raid lock,
honeypot). Everything runs in one Python process: the event loop of the bot and of
its clients, a thread with a loop of its own for the aiohttp server (`run_health`,
bot.py:7259-7274), a few more daemon threads, and the database. Jobs requested in
the mini app are handed to the bot's loop (`_schedule_coro`, web_app.py:100-136).

This directory holds TLA+ modules of that program, TLC configurations and proofs
checked by TLAPS. `PROJECT.json` maps every definition to the lines it models.

## 1. Inventory

| Part | Source | State it keeps | Operations | What is hard |
|---|---|---|---|---|
| Add engine | `bot.py` 7307-8214, `add_engine.py`, `add_queue.py` | member queue, counters, `blocked_ids`, failure count, strikes per account | `_execute_parallel_add` and one `worker_account` per account; `_execute_simple_add` | workers interleave at every await; floods give members back; stop may come during any wait |
| Menu add loops | `bot.py` 1000-1560, 4735-4871 | the list of the dialog, one dictionary of all limits per parallel run | live scan and add, parallel add from the table, quick add | each filters with a set that the others replace or extend |
| Start and stop of runs | `web_app.py` 804-1090, 2955-2964; `bot.py` 3296-3344, 3634-3648, 4735-4871, 7427-7448 | `atk_state` (`add_in_progress`, `_stop_requested`, `stop_parallel_add`), `stop_event` | start buttons, Stop buttons, Home button | two copies of `bot.py` in one process, each with its own event and dictionary |
| Blocked-member cache | `add_engine.py` 95-139, `db.py` 1267 | the cached set, its age | load, invalidate, mark, never add again | a loop holds the cached object itself, others replace it |
| Adder limits | `db.py` 640-730, `bot.py` 1778 | added count, limitation and its deadline per account | set, clear, reset every 24 h | absolute writes computed long before |
| Account busy registry | `account_state.py` | busy label and time per account, last use, last error | `mark_busy`, `release`, `busy_label` | release by somebody who is not the owner, expiry after 45 minutes |
| Account login | `account_login.py` | pending logins | start, code, password, cancel, purge | requests in flight while the entry expires |
| Session files | `session_store.py`, `account_doctor.py`, `attacker.py` 110-300 | session file, backup in the database | restore, back up, move, upload, delete | which copy is newer; whose login it is |
| Member tables | `db.py` | `scraped_users`, `added_history_tbl`, `do_not_add_tbl` | bulk save, mark, refuse, purge | who was refused must not come back, whichever table is written next |
| Connection pool | `db.py` 20-150 | pool, borrowed connections | borrow, return, reset | exhaustion, nested borrowing, reset while borrowed |
| Scraping | `attacker.py`, `scrape_api.py`, `scrape_optimize.py` | users found, what the oracle knows, the stop flag | layers of `run_full_scrape`, `scan_all_chats` | one object for several jobs; floods, refusals and stops in each layer |
| Background scraper | `bg_scraper.py` | schedule in the database | loop, scan | takes an account when it is free |
| Menus | `bot.py`, `callback_router.py`, `step_router.py` | `atk_state["step"]` | dialogs, routing | one dictionary for all dialogs |
| Mini app pages and API | `web_app.py` | none beyond the above | JSON endpoints, HTML | an answer long before the job it reports |
| Group manager | `group_manager.py` | pending captchas, raid log and lock, warns, settings, admin cache | join, captcha answer, delayed kick, raid lock | its handlers are never reached (see 6) |
| Defender | `defender.py` | join times, pending captchas, ban list | join, leave, honeypot, monitor | likewise |
| Parallel library | `parallel.py` | queue of ids, dashboard | parallel scrape and add | not reached |
| Content and news | `content_auto.py`, `news_review.py` | last publication, drafts | timers, approve buttons | - |
| Configuration, logging | `config.py`, `logging_setup.py` | none | - | - |

How the parts meet: the menus and the mini app start runs of the add engine as
tasks of the bot's event loop. The engine reads members, limits and the blocked set
from the database, books results in them, and reports its progress through
`atk_state`, which the Stop buttons write. Scraping fills the member tables and
takes accounts through the busy registry; its client lives in `atk_state` too. All of
them borrow connections from one pool, from three threads: the bot's loop, the
web server's loop, and the 24-hour reset.

What makes each part correct, in a sentence: the engine loses nobody, invites
nobody twice and can be stopped; the menu's loops invite nobody who was on record;
the registry gives an account to one operation at a time; what is stored under a
phone is a login of that phone; the member tables never hold somebody who was
refused; extraction keeps only those a group or Telegram showed, and stores them;
the pool lends a connection once, loses none and recovers.

## 2. Modules

| Module | What it is |
|---|---|
| `AddLedger` | abstract: what a run promises about each member it was given |
| `AddRun` | the add engine with its controls, both copies of `bot.py`, every answer Telegram gives |
| `AddRunProps` | the properties of `AddRun`, and the refinement mapping to `AddLedger` |
| `AddRunProofs` | theorems about `AddRun`: types, placement of the members, stop, refinement |
| `AddRunSafetyProofs` | theorems about `AddRun`: gate, left-over stops, counters, runs that follow one another |
| `AccountUse`, `AccountUseProofs` | the busy registry with every operation that marks or releases an account |
| `Accounts`, `AccountsProofs` | logins of the mini app and of the menu, session files, backups, uploads, deletion, restarts |
| `MenuAdd`, `MenuAddProofs` | the menu's three add loops, the member tables, the cache and the limits they share |
| `Scrape`, `ScrapeProofs` | extraction: the layers of a scrape, its oracle and stop flag, and the four jobs that run it |
| `DbPool`, `DbPoolProofs` | the connection pool under calls of several threads, resets and a server that goes away |
| `MC...` | the instances for TLC |

### AddRun and the code

A *run* is one call of `_execute_parallel_add`, with its `phase`. The life of a
worker is the program counter `pc[<<run, account>>]`. Each value is an await of
`_worker_account_inner`; what the coroutine does between two awaits is one
action. Between two awaits no other coroutine of the loop runs; the web thread can,
and what it writes there are single flags (`add_in_progress`, `_stop_requested`)
that such a stretch reads once, so its write counts as before or after it.

| `pc` | where the code awaits |
|---|---|
| `new` | the task exists, the session is looked for |
| `stagger` | `wait_for(stop_event.wait(), stagger_delay)` |
| `connect` | `client.start()` and resolving the target |
| `loop` | the head of `while not member_queue.empty()` |
| `resolve` | `client.resolve_peer` |
| `throttle` | `global_throttle` |
| `invite` | `InviteToChannel` |
| `delay` | the wait after an answer |
| `cooldown`, `lastCooldown` | the wait after a flood; after the last one the account is set aside |
| `closing` | `client.stop()` and removal of the copied session |

The answers of Telegram are actions: `InviteAdded`, `InviteMissing` (the result
names the user as missing), `InviteFloodWait`, `AlreadyParticipant`,
`PrivacyRestricted`, `PeerIdInvalid`, `PeerFlood`, `ChatForbidden`,
`TooManyChannels`, `InviteError`. Any of them may be the answer to any invite.

**Two copies of bot.py.** The process is started as `python bot.py`, so the
handlers of the bot live in the module `__main__`. `web_app.py` says
`from bot import ...`, which loads the file again under the name `bot`. Runs
started from the mini app execute in that second copy: it has its own
`stop_event`, its own strikes and an `atk_state` of its own that nobody fills.
The `atk_state` of `__main__` is handed to `web_app` (`set_app_refs`) and is the
one `/api/add/stop` writes. `copy[r]` says where a run executes; `stopEvent` and
`strikes` exist once per copy, `stopFlags` and `addInProgress` once.

**The others.** `atk_state` and `adder_limits_tbl` belong to nobody. `DialogClears` stands
for the dialogs of the menu that clear the dictionary, and `add_in_progress` with it,
without asking whether an add runs (bot.py:5457-5471, 6022-6024, 6107-6128, 2767);
`OtherJob` for a scrape job of the mini app and a live add of the menu, which set the flag
and clear it (web_app.py:797, bot.py:1241). `WriteCount` is whoever else writes a recorded
count: the 24-hour thread (bot.py:1778-1807), the resets of the mini app
(web_app.py:2664, 2896), the add loops of the menu (bot.py:1175, 1414). All three may come at any
time. What a running worker writes next undoes a reset: it counts on from what it read at its
start.

`stopAsked`, `stopHeld`, `outcome`, `exposed` and `made` are history: who told a run to
stop (a button of the mini app or of the menu, or the guard against a burnt list),
which stop nothing withdrew since, what was booked for a member, which runs of the mini
app lost their flag to somebody else, and how many adds the recorded count of an
account has to cover. No guard reads them.

**Abstractions.** Members and accounts are model values. Delays have no length: a
timed wait ends by its timer or by the stop. The queue is filled in any order,
which covers the shuffled and the sorted modes. `fails` and the counters are
unbounded in the module; an instance is finite because each of them grows only
when a member is consumed. Strikes have no cap either; one worker makes at most
`MaxStrikes` of them before its account is set aside. Calls of the database succeed and take no time.

### AccountUse and the code

An *operation* is a scrape job of the mini app, a scan of the background loop, a
health probe, an operation the admin starts by picking an account in the menu
(`useacc_`), a single add, or a live add of the menu (`_execute_direct_add`). `mark[p]` says whose entry account `p` has in
`_busy`, `at[o]` and `stage[o]` where an operation is:

| `stage` | where the code is |
|---|---|
| `picked` | `pick_scrape_account` returned, `mark_busy` not yet called (web_app.py:699-719, bg_scraper.py:358-364) |
| `connecting` | `_cb_useacc` connects, before it asks the registry (bot.py:5979) |
| `ready` | marked, its client waits in `atk_state` for a target |
| `parked` | marked and disconnected: the account had reached its cap (bot.py:6078-6084) |
| `attacking` | the task of the chosen target runs |
| `working` | a job, or a single add started from the menu |
| `gated` | a single add of the mini app, which closed `add_in_progress` |
| `live` | a live add works with the client of the dialog; it set `add_in_progress` without asking (bot.py:1058) |

`dialogPhone` is `atk_state["phone"]`, the only thing `_release_busy_account` looks
at; `gate` is `add_in_progress`: `open` when it is not set, `shut` by a job that is under way, `left`
by a live add that gave up (`LiveAddGivesUp`: bot.py:1089-1092, 1132-1142, or an exception)
and went without clearing it. `MenuClear` stands for the more than forty places
that call `_release_busy_account()` and then `atk_state.clear()`; all of them do
both, in this order. `NamePhone` stands for the handlers that write a phone into
the dictionary without a mark; the login that starts at `add_new_account_start`
(bot.py:3799) and the live add do so over whatever phone was there.

**Threads.** The registry has a lock, and each of its functions is one action. The
mini app's triggers all run in the web thread's loop, so their test and set of the
gate is one action too; between picking an account there and marking it in the bot's
loop anything may happen.

**Abstractions.** The label of an entry is the operation that placed it; no guard
compares labels. An entry past its 45 minutes counts as absent for every reader, so
`Expire` removes it, at any time. Any free account may be picked. An operation
identity is reused once it is idle. `robbed` is history: accounts whose mark was
taken from an operation that relied on it. Left out: deleting accounts (`Accounts`),
clients that stay connected after their operation (the scrape job and the single add of the mini
app never disconnect theirs), and the parallel add, which neither asks the registry
nor marks.

### Accounts and the code

A *request* is one call of a handler; `pc[q]` says at which of its awaits it is.
`pending` is `_pending` of `account_login.py`, `old` its entries past `_SESSION_TTL`;
`step`, `dphone`, `dclient` are the login dialog in `atk_state`.

| Actions | Code |
|---|---|
| `StartAsk`, `StartSent`, `StartFails` | `start`: the lock is held only to look, and again to store the entry |
| `CodeAsk`, `PasswordAsk`, `NeedPassword`, `WrongAnswer`, `SubmitFails`, `SignedIn` | `submit_code`, `submit_password` |
| `SaveRow`, `SaveFails`, `Move`, `MoveAgain`, `NotKept`, `LoginDone` | `_persist`, in its order: get_me, row, file, disconnect, backup, entry |
| `Age`, `Purged`, `Cancel` | `_purge_expired`, which every call makes, and `cancel` |
| `Menu...` | the login steps of `bot.py`; the dialog may hold one phone and another's client |
| `Upload...`, `Use...`, `Restore`, `BackupSession`, `WebDelete`, `MenuDelete` | session files: upload and verification, `useacc_`, `ensure_session`, deletion |
| `Restart` | the host starts the process again without its disk |

A session is named by the client that made it, so "the right session" is a matter of
`owner` and `signed`. Whether Telegram accepts a login, a file or a code is a choice.

### MenuAdd and the code

A *task* is one call of `_execute_direct_add` or `_do_quick_add`, or one worker of
`_execute_parallel_direct_add`. `todo` is what its list still holds, `cur` the member
being invited. The blocked set is an object: `shares[t]` says that a task's set is the
one the cache holds, so that `mark_added_local` reaches it; an empty set is handed out
as a new one (`_BLOCKED_IDS_CACHE["ids"] or set()`). `snap[lead[t]]` is the `limits`
dictionary that all workers of a parallel run share and write back whole. The add
engine appears here as what it does to the tables: `Refuse`, and the marks of `Joined`.
`missed` and `foreign` are history: who was on record and passed the filter when a list
was made, and whether somebody outside the run wrote its count.

### Scrape and the code

A *client* is an `AdvancedScraper`: `found` its `found_users`, `had` its
`_existing_user_ids`, `known`, `outside` and `asks` its oracle, `stop` its
`_stop_requested`. A *job* is an attack or a bulk scan of the menu, the extraction of
the mini app, or a background scan; its `pc` names the layer it is in, in the order of
`run_full_scrape` and `scan_all_chats`. `Take...` adds one user to `found`, with the
incremental save when the code makes one; `LoopEnds` leaves a layer: exhausted, refused,
failed, or stopped. Telegram may refuse or cut short any request, so a layer may end
at any time and with any part of what the group shows. After a flood
wait four loops go on at the same place. The deep scan looks at the stop flag first
(`DeepFlood`, `DeepResume`). The lists of reactions and of poll voters and the search make the
same request again as often as it takes and look at nothing (scrape_api.py:64-75, 102-112,
190-202): `RequestFloods` enters such a wait (`Waits`), `Answered` ends it, and nothing
in the code says that it ends.

`atk` and `gate` are what a dialog keeps. A job of the menu runs as a task, and the
dialog stays as it is, so a second target, the retry button and Home act on the client
of a running attack. `seen`, `saved`, `shared`, `mixed` are history.

### DbPool and the code

`live`, `idle`, `used` are `_pool` and the two collections psycopg2 keeps in it (the
pool is a library; its operations are modelled from how `db.py` uses it and marked
external in the map). A call of `db.py` has one of five shapes. A thread's call runs to
its end before its next one, and lets go of what it borrowed. The exceptions are coroutines
of the bot's loop that borrow in their own body. After an error the proxy stays in their local
`cur`, with its connection, until the coroutine ends or borrows again: `run_full_scrape`
(attacker.py:1196-1202) for a whole scrape, handlers such as bot.py:3845-3855 until their
messages are sent. `InlineGoesOn` parks such a connection, `BackupUploads` and `BackupFails`
those of the backup, which even without an error waits for its upload with one in hand;
`CoroutineEnds` gives back one of `parked`. `ref[t]` are the connections a call holds through its
proxies, `open` those this process has not closed, `dead` those of them the server has
dropped. `BulkResets` is `db_retry`: it closes all connections, also of running calls
of other threads, which find out at their next statement (`stale`, `SetUpFails`,
`ExecuteFails`) or give back a connection that the pool does not know.

## 3. Properties and runs

| Run | Instance | Shows |
|---|---|---|
| `one_run` | 1 run, 2 accounts, 4 members (plain, id out of range, without a name, added before), fairness | `Placement`, `Conservation`, `NoRepeatInvite`, `EveryRunFinishes`, and `TypeOK` with the cache |
| `two_runs` | 2 runs, 1 account, 1 member, a reset | `AddsAreCounted`, `OneWebRun`, `ImplementsLedger`, `StopEffective`, `NoGhostStop` |
| `account_use` | 2 accounts, one operation of each kind, fairness of the jobs | `MarkedExclusive`, `NoMarkForgotten`, `JobMarkEnds`, `GateReopens` |
| `accounts` | 2 phones, 2 clients, 2 requests in flight | `PendingIsUsable`, `StoredIsSignedIn`, `StoredIsOwn` |
| `menu_add` | 2 members, 2 accounts, 2 loops, a cap of 1 | `TypeOK`, `RefusedNotInvited`, `RefusedNotStored`, `CountsOfARun` |
| `scrape` | 2 users, 2 groups, 2 clients, 2 jobs, fairness of the jobs | `TypeOK`, `CandidatesConfirmed`, `FoundIsSaved`, `SourceIsRight`, `StopEnds` |
| `db_pool` | 2 threads, a pool of 3 that keeps 1 idle, 2 attempts, up to 2 connections kept, fairness of the calls | `TypeOK`, `OneHolder`, `NothingLeaks`, `RoomForAll`, `Heals` |
| `one_client`, `menu_stop`, `gate_left`, `exclusive_use`, `scrape_saved` | small | disagreements, see below |

- `Placement`: a listed member without a result is in the queue or in exactly one
  hand. `Conservation`: added + failed + skipped + queued + held is the list.
- `ImplementsLedger`: the run refines `AddLedger`: claims, returns, one final
  result, no end while somebody is held.
- `NoRepeatInvite`: nobody in `added_history_tbl` or `do_not_add_tbl` is invited.
  It is a claim about one run at a time: two runs at once do not share
  `blocked_ids`, and the code does not promise it.
- `AddsAreCounted`: the recorded count of an account is never below the adds a worker
  made while it had the account for itself, nor below what it found there, although the
  24-hour thread, the resets and the menu's loops write the row meanwhile. Two workers
  on one account write over each other; then nothing from before is asked for.
- `StopEffective`: after `/api/add/stop` no active run takes a member or sends an
  invite, until a new start or a button that clears `atk_state` withdraws it.
- `NoGhostStop`: a working run sees a stop only if a button was pressed while it
  was active, or a run of its copy hit the burnt-list guard while it worked. The guard
  is history (`stopAsked`) and not read off `fails`: a success that was in flight when
  the guard hit resets the count to 0.
- `OneWebRun`: two runs of the mini app are at work at once only if somebody else cleared
  the flag of one of them: a Stop button, a dialog, a scrape job, a live add, or the end of
  another run. The request that set it does not, nor does the guard against a burnt list,
  nor a run of the menu.
- `EveryRunFinishes`: floods cannot keep a run alive for ever.
- `MarkedExclusive`: two operations that mark share an account only after the mark
  was taken from one of them by the TTL, by a dialog that names the account, or by
  the end of a single add, which releases without having marked. Neither the gap
  between picking and marking nor the release of a job can cause it.
- `NoMarkForgotten`: a mark that a job or the dialog will release stays so until it
  is gone, unless a dialog writes another phone over its own (`Overwritten`). Such a
  mark stays until the TTL.
- `JobMarkEnds`, `GateReopens`: marks of jobs and the gate of the mini app do not
  last, also when a job is refused its account. A live add that gives up leaves the gate
  closed; `GateReopens` excepts it, and `gate_left` shows it.
- `PendingIsUsable`: an entry of `_pending`, which makes `start` refuse a second code,
  can still be completed: its client is connected, or a request is just storing it.
- `StoredIsSignedIn`, `StoredIsOwn`: whatever is stored for a phone, on disk or as a
  backup, is a login that Telegram accepted (or a file the user sent), and a login of
  that phone. Late answers, expiry, deletion under a running connection, crossed
  dialogs and restarts do not break it.
- `RefusedNotInvited`: the live run and the run from the table invite nobody who was
  on record when their list was made. The quick add, which does not filter, is exempt.
  `RefusedNotStored`: nobody refused for good has a row in `scraped_users`.
- `CountsOfARun`: the stored count of an account is what its run found, plus what it
  made, unless somebody outside wrote it meanwhile: the workers of a run that write
  everybody's counts do not undo each other.
- `CandidatesConfirmed`: whoever the mini app's extraction found was shown by the very
  group, or confirmed by a definite yes of Telegram for this group.
- `FoundIsSaved`: a job of the menu or the background that ended well, also after a
  stop, has stored everybody it found. `SourceIsRight`: the group a row names did show
  its user, unless two jobs had used one client. `StopEnds`: a stopped job
  ends, unless Telegram floods one request of the reactions, polls or search for ever.
- `OneHolder`: no connection is with two calls, or lent and idle at once.
  `NothingLeaks`: every slot and every open connection is in hands that give it back.
  `RoomForAll`: a call finds the pool full only while a coroutine keeps a connection; calls
  alone, the nested one too, never fill it. `Heals`: once the server stays up and no
  coroutine keeps a connection, every call is served again.

**Bounds.** Two accounts are enough for one worker to empty the queue while
another gives a member back. Four members let a result, a claim and a queued
member exist together, with one of each kind that is refused. Two runs are the fewest
for a stop, a strike or a cache to outlive its run. `MaxFails` and `MaxStrikes` are 1 or
2 in place of 25 and 6, so that both limits are reached. In `two_runs` the counts start at 0 and others only
write 0 (`OtherCounts`), which is the reset; the theorem covers every other value. Accounts (and runs) are
interchangeable, so the symmetry is sound; runs with liveness use none. In
`account_use` two accounts let a dialog name one account while its operation works
with the other; one operation of each kind is enough for every pair of kinds to
meet, and `NamePhone` plays the later dialog. In `accounts` two requests let one answer
arrive after another has ended, and two clients on two phones let the dialog cross
them; a client's login is not repeated, so a session is known by its client. In
`menu_add` two loops of any kinds share the cache, and the cap of 1 makes a list longer
than its room. In `scrape` two jobs meet on one client or run on two; one group shows
one user in its list and its messages, so that the other user is a stranger and the
other group is a wrong source. `db_pool` has one thread beside the bot's loop and a
pool of one connection less than `max(4, DB_POOL_SIZE)`, so the ratio is the program's:
at most two connections for the loop and one for each other thread. Six connection
objects are never all in use. No coroutine begins that might keep one more while `MaxKept`
connections are kept; as the backup may keep two at once, 1 lets two be kept beside a
call, and so fills the pool. The pool keeps one idle connection in place of two.
The proofs have none of these bounds.

**Fairness.** Weak fairness of each worker and of each run's own steps: the event
loop runs every ready task, each timed wait has a timeout, and a Telegram request
returns or raises. `AccountUse` and `Scrape` assume the same of jobs, and `Scrape` only
of the steps that move a job on, not of those that find more users: what a group
shows is finite. `Answered` is not among them: no fairness says that a request that is
refused with a flood wait is answered in the end. `DbPool` assumes that a call that began goes on: it waits for nobody, and a
statement ends. No fairness is assumed of people, of the TTL, of the server's failures
or of Telegram's choice of answer.

**Deadlock** is checked in `db_pool`, where a thread may always begin a call. In the
other runs it is not: once all runs, tasks, clients or jobs of the instance are used up
the model stops, and where a button can always be pressed the check would say nothing.

### Disagreements between the code and its own words

- `one_client`. `/api/add/stop` clears `add_in_progress` at once (web_app.py:2963)
  while workers of the stopped run still hold their clients. A second start passes
  the gate and opens the same sessions, which tests/test_miniapp_actions.py:71-72
  says both triggers prevent.
- `menu_stop`. The Stop button of the bot (bot.py:3319-3344) reports the operation
  as stopped, but only clears `atk_state`: the add engine goes on.
- `gate_left`. `_execute_direct_add` sets `add_in_progress` (bot.py:1058) and clears it
  in its last line (bot.py:1241); two early returns and every exception leave it set, and
  the mini app refuses all jobs until a button or another add happens to clear it.
  tests/test_miniapp_actions.py:94-95 demands a `finally` for this reason.
- `exclusive_use`. `_cb_useacc` connects an account before it asks whether it is busy
  (bot.py:5979, 6026), and the adds never ask, while account_state.py:11 says that the
  module prevents simultaneous use.
- `scrape_saved`. The mini app's extraction reports its members as stored
  (web_app.py:769), but its save callback (web_app.py:757) stores nothing.

Met on the way, without a run of their own:

- privacy errors raise the failure count (bot.py:8024), but only the missing-invitee
  branch compares it with the limit (bot.py:7908); the docstring at bot.py:7316 promises
  that the run stops;
- a stop pressed between a start and its first step is withdrawn by
  `reset_stop_event` (bot.py:7500) although the answer was "stopped";
- a member given back by the last worker (bot.py:8102) is tried by nobody when the
  others already left;
- a mark whose phone a login writes over stays for 45 minutes although `release` is
  said to be called at the end of every operation (account_state.py:38);
- the retry button offered after a failed attack (bot.py:5065) mostly finds `atk_state`
  already cleared (bot.py:5073) and can only report that;
- `db_retry`, the "Auto-Reconnect" of db.py:6, hardly ever sees an error: almost every
  function of `db.py` catches `Exception` itself and returns a default. Only
  `bulk_save_users` (db.py:436) and `init_tables` reach it, and its reset closes what
  other threads are using, whose calls then return defaults;
- `get_blocked_user_ids` (db.py:1267-1282) then returns an empty or partial set, which
  the cache keeps for two minutes;
- `purge_added_users` and `purge_do_not_add_users` call `conn.close()` after the proxy
  has given the connection back (db.py:1391, 1417): the rows are deleted, the call
  reports 0;
- `reset_adder_all` (bot.py:5006) stores an empty dictionary, which `save_adder_limits`
  walks through without a write: nothing is reset;
- the oracle takes any participant that Telegram returns for a member, also one who
  was banned or has left (scrape_optimize.py:95-99).

## 4. Proofs

The proofs hold for all values of the constants: sets of accounts, members, runs,
operations, threads, and all bounds.

| Theorem | Module | States |
|---|---|---|
| `TypeCorrect`, `PlacementCorrect` | `AddRunProofs` | `Spec => []TypeOK`, `Spec => []Placement` |
| `StopCorrect`, `LedgerCorrect` | `AddRunProofs` | `Spec => StopEffective`, `Spec => ImplementsLedger` |
| `ConservationCorrect`, `GateCorrect`, `GhostCorrect` | `AddRunSafetyProofs` | `Spec => []Conservation`, `Spec => []OneWebRun`, `Spec => []NoGhostStop` |
| `RepeatCorrect`, `LimitCorrect` | `AddRunSafetyProofs` | `Spec /\ []OneActive => NoRepeatInvite`, `Spec => []AddsAreCounted` |
| `UseTypeCorrect`, `ExclusionCorrect`, `OwnerCorrect` | `AccountUseProofs` | `Spec => []TypeOK`, `Spec => []MarkedExclusive`, `Spec => NoMarkForgotten` |
| `AccountsTypeCorrect`, `PendingCorrect` | `AccountsProofs` | `Spec => []TypeOK`, `Spec => []PendingIsUsable` |
| `StoredCorrect`, `OwnStored` | `AccountsProofs` | `Spec => []StoredIsSignedIn`, `Spec => []StoredIsOwn` |
| `ConfirmedCorrect`, `SourceCorrect` | `ScrapeProofs` | `Spec => []CandidatesConfirmed`, `Spec => []SourceIsRight` |
| `ScrapeTypeCorrect`, `SavedCorrect` | `ScrapeProofs` | `Spec => []TypeOK`, `Spec => []FoundIsSaved` |
| `NotInvitedCorrect`, `NotStoredCorrect` | `MenuAddProofs` | `Spec => []RefusedNotInvited`, `Spec => []RefusedNotStored` |
| `MenuTypeCorrect`, `MenuCountsCorrect` | `MenuAddProofs` | `Spec => []TypeOK`, `Spec => []CountsOfARun` |
| `HolderCorrect`, `LeakCorrect` | `DbPoolProofs` | `Spec => []OneHolder`, `Spec => []NothingLeaks` |
| `PoolTypeCorrect`, `RoomCorrect` | `DbPoolProofs` | `Spec => []TypeOK`, `Spec => RoomForAll` |

The assumptions of `AddRun`: the list of members is finite, `NoMember` is no member,
`NoRun` no run, the bounds are positive. Of `AccountUse`: `NoPhone` is no account,
`NoOp` no operation, and the kinds of operations are disjoint. Of `Accounts`: `NoPhone`
is no phone, `NoClient` no client. Of `MenuAdd`: the values for nobody are outside their
sets. Of `Scrape`: what a group lists or lets be heard are users, the values for no
group and for the bulk scan are no groups, the bounds are numbers. Of `DbPool`: the
bounds are numbers, the loop is not among the other threads, and `RoomAssumption`: the
pool is larger than the number of threads. The program has three threads that call
`db.py` and a pool of `max(4, DB_POOL_SIZE)` (db.py:46), so the assumption holds for
every setting of the variable; only `RoomCorrect` uses it.

`OneActive` (no two runs are active at the same time) is a hypothesis of `RepeatCorrect`
and not a fact: the code lets runs overlap, and then the claim fails (TLC finds it
violated on the instance of `two_runs`; nothing in the repository promises it). Runs that
follow one another, any number of them, are what the theorem covers. `LimitCorrect` and
`GateCorrect` have no such hypothesis.

`TypeCorrect` says more than types: a cached blocked set is exactly the two tables it
stands for (`CacheCurrent`), through every worker's adds, refusals and reloads.

*Placement* with the types is inductive; its parts (`HeldOnce`, `QueuedOnce`,
`QueuedUntouched`, `HeldUnsettled`, `NobodyLost`, `HandsMatch`, `Fresh`) need each
other. `HandsMatch` ties the program counter to the hand, `Fresh` keeps runs that
did not start away from the queue. The many actions fall into five kinds of step,
named in the proof module: a member is taken, refused, given back, booked, or
nobody moves. Each kind is shown once to keep the parts, and each action to be of
one kind. The refinement uses the same kinds: a kind moves one member in `Place`,
or none. *StopEffective* rests on a second invariant (`StopInv`): a run whose stop
is held sees it at both places that look for it.

*Conservation* counts, so it needs that hands are finite and that a run which has not
been launched has booked nothing (`CountInv`); each of the five kinds of step takes from
one term of the sum what it adds to another. *NoGhostStop* is inductive by itself
because whoever sets an event or a flag also tells every run that can see it.
*OneWebRun* is not: `GateInv` says that at most one job of the mini app is at work without
being exposed (`Covered`), and that `add_in_progress` is set while there is one. Whoever
lowers the flag exposes all jobs at work but those that end with it (`LoweredExposes`), and
a new one is admitted only while the flag is low.

*NoRepeatInvite* needs more than the filter at the start: `RecordInv` says that whoever
is on record is in the run's `blocked` or has a result in this run (`RecordKnown`), and
that nobody a worker holds on the way to his invite is on record (`HandsOffRecord`). The
second survives the other workers because a member has one place and nobody held has a
result (*Placement*), and members that leave because the handler refuses only who was
on record before. It uses `Rested`: a worker whose run
is not at work has ended or has not begun. *AddsAreCounted* rests on `CountsOn`: for each
worker that will write again, what it read when it began plus what it has added since
covers what is owed to its account, so whatever others store, its next write does.

*MarkedExclusive* is not inductive: it says nothing of the registry. `MarkHolds`
does: an operation that relies on its mark has it, unless the account was robbed;
then two of them would both have to be the one operation the registry names. It
needs `KindStages` (only some kinds reach some stages, and adds never mark) and
`JobMarks` (the mark of a job is that of the account it works with). There is one
lemma per action; each also shows that the step forgets no mark, which gives
*NoMarkForgotten*.

The invariant of `Accounts` says whose client is where. Entries, files, backups and the
requests of the mini app hold clients under their own phone only (`EntriesOwn`,
`StoredRight`, `RequestsRight`); the dialog of the menu may mix phones up, but its
client is in no entry (`Apart`). So when a request closes a client or drops the entry
of its phone, the entry it meets is its own phone's, even if it is not the one it began
with, and `persist_to_permanent`, which goes by the client's phone, cannot put a file
under another.

*CandidatesConfirmed* and *SourceIsRight* rest on who uses a client. A job of the mini
app is alone on its client (`WebAlone`), two jobs of the menu on one client are known to
share it (`SharingKnown`), and a client that waits for its first job has found nobody
(`Untouched`). Then all that a client of a job holds was shown in its target
(`FoundShown`, `OracleShown`), and so is what the job stores. The actions are of four
kinds, each shown once to keep this: a job looks at its group, moves on, or starts, or
the dialog changes.

*RefusedNotInvited* says nothing of the cache. `CacheComplete` does: while there is a
cached set it covers both tables, because whoever writes a table adds to the set or
drops it before anybody else can read it. Then no list is ever made with somebody
missing from the filter (`NoneMissed`), whatever happens to the set later.

*OneHolder* and *NothingLeaks* need each other, and three more parts: types; that
without a pool nothing is lent or idle (`NoPool`); and which connections a call holds
at each of its steps (`Shapes`), so that a step that forgets a connection forgets the
one it gave back.

*FoundIsSaved* has an invariant of its own (`Stored`): when a job of the menu or the
background has ended well its client is closed, and all that the client found is stored
or on record; on a closed client nothing more is found. So the proof does not need the
hypothesis that no other job used the client. It stays in the property, because results
that a client has buffered when another job disconnects it are not modelled.
The types of `Scrape` contain a fact about the oracle: nobody is both a member and an
outsider. Lists and reactions mark members without a look at the outsiders; that is
right because on a client with outsiders only the mini app's job that asked about them
is left, past the layers that mark (`Sceptical`, `LateIsWeb`).

*CountsOfARun* is about one dictionary that many workers write back. `RunInv` adds that a
loop which does not run has made nothing (`NothingMade`), whose dictionary a loop uses
(`Leads`), that no two workers of a run have one account (`OwnAccount`), and that the
shared dictionary holds for each account at work its base plus what was made
(`SnapExact`). So a worker that writes all of it back writes the truth about the others.

The types of `DbPool` bound the two collections: `Sized` says that the idle connections
are at most `MinConn`, and idle and lent ones together at most `MaxConn`. The second
half is needed because psycopg2 lends an idle connection without a look at the limit.
`RoomForAll` counts: only the bot's loop makes a call that borrows twice (`OneEach`), so
while no coroutine keeps a connection the threads hold fewer than `MaxConn` connections when one of them
asks for another. It is the one place where the sizes of sets of unknown size are added,
with the facts of `FiniteSetTheorems`.

Only model-checked: the liveness properties `EveryRunFinishes`, `JobMarkEnds`,
`GateReopens`, `StopEnds` and `Heals`. They rest on fairness, and so on `ENABLED`, which
the prover does not handle. The five runs that expect a violation are TLC's as well. All
other properties of the passing runs are theorems.

## 5. Plan

Done: `AddRun` with `AddLedger`, `AccountUse`, `Accounts`, `MenuAdd`, `Scrape`, `DbPool`.
Left, in this order:

1. an abstract registry of accounts that `AccountUse` implements, with its refinement
   proved as that of `AddLedger` is;
2. the error path of `get_blocked_user_ids` in `MenuAdd`, composed with `DbPool`;
3. account limitations with their deadlines; the spacing of `global_throttle`.

## 6. Not modelled

- **Group manager and defender.** `register_group_handlers` is called last
  (bot.py:8231). Handlers of one group are tried in order of registration, so bot.py's
  own handler of joins (bot.py:1912) and of leaves (bot.py:2067) take every update; the
  call of `continue_propagation` in the latter is inside a `try` whose `except` swallows
  it (bot.py:2092-2095). `is_admin` compares an enum with strings, so no setting ever
  leaves its default and neither captcha nor raid lock becomes active. What is reached
  (`/lock`, the word filter, `monitor_message`) looks at one message at a time. A leave
  that reaches the tables is `MemberLeft` in `MenuAdd`.
- **parallel.py.** The button that leads to it raises `KeyError` before it starts
  anything (`_cb_par_pick_target_attack` indexes a dictionary of phones with 0).
- **Prefilter, delays, cooldowns, sorting of candidates, health scores.** They are
  arithmetic over times and words and keep no state that the properties relate.
- **Content posting, news review, configuration, logging, HTML, authentication.** Input
  and output, or state shared with nobody.
