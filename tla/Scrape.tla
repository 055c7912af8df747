-------------------------------- MODULE Scrape --------------------------------
(***************************************************************************)
(* Extraction of members: AdvancedScraper with its layers, its oracle of   *)
(* memberships and its stop flag (attacker.py, scrape_optimize.py), and    *)
(* the four jobs that run it: the attack and the bulk scan of the menu,    *)
(* the scrape job of the mini app, and the background scan.                *)
(*                                                                         *)
(* What a group shows of itself (its list, its messages, who reacts) is    *)
(* data: Listed and Heard.  Telegram may hide any of it, refuse, or order  *)
(* a wait, so a loop takes any part of it and may end at any time: but not *)
(* in the middle of a wait after which it asks the same thing again.       *)
(*                                                                         *)
(* Left out: names, progress texts and percentages, the csv file, delays,  *)
(* the history of scanned chats and the group that save_scraped writes     *)
(* into the configuration, who holds the account busy (AccountUse), errors *)
(* of the database, and the parallel attack, which no menu can start.      *)
(***************************************************************************)
EXTENDS Naturals

CONSTANTS
  Users,
  Groups,
  Listed,     \* members of a group
  Dialogs,    \* groups that the accounts are in
  Heard,      \* who appears in its messages: authors, forwarded, mentioned
  OnRecord,   \* users whom bulk_save_users does not store
  MaxClients, \* bound: AdvancedScraper objects ever made
  MaxJobs,    \* bound: jobs ever started
  NoGroup,
  Bulk        \* source of a row that the bulk scan stored

ASSUME DialogAssumption == Dialogs \subseteq Groups
ASSUME ShownAssumption == Listed \in [Groups -> SUBSET Users] /\ Heard \in [Groups -> SUBSET Users]
ASSUME RecordAssumption == OnRecord \subseteq Users
ASSUME BoundAssumption == MaxClients \in Nat /\ MaxJobs \in Nat
ASSUME NoneAssumption == {NoGroup, Bulk} \cap Groups = {} /\ NoGroup # Bulk

Clients == 1 .. MaxClients
Jobs == 1 .. MaxJobs
NoClient == 0

VARIABLES
  table,    \* scraped_users: source_group_id of a user's row, NoGroup without one
  atk,      \* atk_state["atk"]
  gate,     \* atk_state["add_in_progress"], which the mini app's job sets
  conn,     \* of a client: not made yet, connected, disconnected
  found,    \* found_users of a client
  had,      \* its _existing_user_ids
  known,    \* its oracle: known_members
  outside,  \* its oracle: known_outsiders
  asks,     \* its oracle: the group it asks about, NoGroup if there is none
  stop,     \* _stop_requested
  pc, kind, on, target,  \* of a job
  todo,     \* groups a bulk scan has yet to visit
  seen,     \* history: <<u, g>>: g itself showed u, or Telegram confirmed u
  saved,    \* history: users that were ever put into the table
  shared,   \* history: clients that two jobs used at the same time
  mixed     \* history: users stored from such a client

oracle  == <<known, outside, asks>>
scraper == <<conn, found, had, oracle, stop>>
job     == <<pc, kind, on, target, todo>>
history == <<seen, saved, shared, mixed>>
dialog  == <<atk, gate>>
vars    == <<table, dialog, scraper, job, history>>

Kinds == {"menu", "bulk", "web", "background"}
Loops == {"list", "history", "reactions", "search", "deep", "flooded", "deepReactions",
          "forwards", "candidates", "resolve", "scan",
          "reactionsWait", "searchWait", "deepReactionsWait"}

(* The loops of scrape_api.py that ask the same page again after a flood   *)
(* wait, as often as it takes, and what they are doing meanwhile.          *)
Waits == {<<"reactions", "reactionsWait">>, <<"search", "searchWait">>,
          <<"deepReactions", "deepReactionsWait">>}

(* Every variable has its type; no oracle holds a user for both a member   *)
(* and an outsider, and an object that was never made holds nothing.       *)
TypeOK ==
  /\ table \in [Users -> Groups \cup {Bulk, NoGroup}]
  /\ atk \in Clients \cup {NoClient} /\ gate \in BOOLEAN
  /\ conn \in [Clients -> {"unused", "open", "closed"}]
  /\ found \in [Clients -> SUBSET Users] /\ had \in [Clients -> SUBSET Users]
  /\ known \in [Clients -> SUBSET Users] /\ outside \in [Clients -> SUBSET Users]
  /\ asks \in [Clients -> Groups \cup {NoGroup}]
  /\ stop \in [Clients -> BOOLEAN]
  /\ pc \in [Jobs -> {"idle", "start", "next", "finish", "report", "apology", "done", "failed"} \cup Loops]
  /\ kind \in [Jobs -> Kinds \cup {"none"}]
  /\ on \in [Jobs -> Clients \cup {NoClient}]
  /\ target \in [Jobs -> Groups \cup {NoGroup}]
  /\ todo \in [Jobs -> SUBSET Groups]
  /\ seen \subseteq Users \X Groups /\ saved \subseteq Users
  /\ shared \subseteq Clients /\ mixed \subseteq Users
  /\ \A c \in Clients : known[c] \cap outside[c] = {} /\ (conn[c] = "unused" => found[c] = {})

Init ==
  /\ table = [u \in Users |-> NoGroup]
  /\ atk = NoClient /\ gate = FALSE
  /\ conn = [c \in Clients |-> "unused"]
  /\ found = [c \in Clients |-> {}] /\ had = [c \in Clients |-> {}]
  /\ known = [c \in Clients |-> {}] /\ outside = [c \in Clients |-> {}]
  /\ asks = [c \in Clients |-> NoGroup]
  /\ stop = [c \in Clients |-> FALSE]
  /\ pc = [j \in Jobs |-> "idle"] /\ kind = [j \in Jobs |-> "none"]
  /\ on = [j \in Jobs |-> NoClient] /\ target = [j \in Jobs |-> NoGroup]
  /\ todo = [j \in Jobs |-> {}]
  /\ seen = {} /\ saved = {} /\ shared = {} /\ mixed = {}

At(j, where) == pc[j] = where
Go(j, where) == pc' = [pc EXCEPT ![j] = where]
Over(j) == pc[j] \in {"done", "failed"}
Running(j) == pc[j] # "idle" /\ ~Over(j)

-----------------------------------------------------------------------------
(* The table.  A row keeps the source it was stored with. *)
Rows == {u \in Users : table[u] # NoGroup}
Storable(us) == us \ OnRecord
Save(us, c, g) ==
  /\ table' = [u \in Users |-> IF u \in Storable(us) \ Rows THEN g ELSE table[u]]
  /\ saved' = saved \cup Storable(us)
  /\ mixed' = IF c \in shared THEN mixed \cup us ELSE mixed
NoSave == UNCHANGED <<table, saved, mixed>>

(* incremental_save of the menu's jobs stores what the client has so far;  *)
(* that of the mini app stores nothing.                                    *)
Source(j) == IF kind[j] = "bulk" THEN Bulk ELSE target[j]
Saves(j) == kind[j] \in {"menu", "bulk"}
Incremental(j, us) == IF Saves(j) THEN Save(us, on[j], Source(j)) ELSE NoSave

ClearUsers ==
  /\ table' = [u \in Users |-> NoGroup]
  /\ UNCHANGED <<dialog, scraper, job, history>>

-----------------------------------------------------------------------------
(* The oracle.  A definite answer is kept, and so is any error; a flood    *)
(* wait counts as "no" and is not kept.                                    *)
Answers == {"yes", "no", "error", "flood"}
Telegram(c, u) ==
  IF u \in known[c] THEN {"yes"}
  ELSE IF u \in outside[c] THEN {"no"}
  ELSE {"error", "flood", IF u \in Listed[asks[c]] THEN "yes" ELSE "no"}

ConfirmedUnlessNo(answer) == answer # "no"
Confirmed(answer) == answer = "yes"
Learn(c, u, answer) ==
  /\ known' = IF Confirmed(answer) THEN [known EXCEPT ![c] = @ \cup {u}] ELSE known
  /\ outside' = IF answer \in {"no", "error"} THEN [outside EXCEPT ![c] = @ \cup {u}] ELSE outside
  /\ UNCHANGED asks

(* mark_member, of a user whom the list or a reaction showed. *)
MarkMember(c, u) ==
  /\ known' = IF asks[c] # NoGroup THEN [known EXCEPT ![c] = @ \cup {u}] ELSE known
  /\ UNCHANGED <<outside, asks>>

-----------------------------------------------------------------------------
(* Users that a loop takes: not those found before, nor those the table    *)
(* had when the run began.                                                 *)
New(c, us) == us \ (found[c] \cup had[c])
Take(c, u, g) ==
  /\ found' = [found EXCEPT ![c] = @ \cup {u}]
  /\ seen' = seen \cup {<<u, g>>}
  /\ UNCHANGED <<conn, had, stop>>
Participants(j) == Listed[target[j]]
Named(j) == Heard[target[j]]
Reactors(j) == Heard[target[j]]
Reads(j) == conn[on[j]] = "open" /\ ~stop[on[j]]

TakeListed(j) ==
  /\ At(j, "list") /\ Reads(j)
  /\ \E u \in New(on[j], Participants(j)) :
       /\ Take(on[j], u, target[j])
       /\ MarkMember(on[j], u)
  /\ UNCHANGED <<table, dialog, job, saved, shared, mixed>>

(* Whoever a message of the history names, through add_user. *)
TakeHeard(j) ==
  /\ At(j, "history") \/ At(j, "deep")
  /\ Reads(j)
  /\ \E u \in New(on[j], Named(j)) :
       /\ Take(on[j], u, target[j])
       /\ NoSave \/ Incremental(j, found'[on[j]])
  /\ UNCHANGED <<dialog, oracle, job, shared>>

(* Who reacted or voted counts as a member.  The bulk scan has no oracle,  *)
(* so the first reaction ends the visit of the group with an error.        *)
TakeReactions(j) ==
  /\ At(j, "reactions") \/ At(j, "deepReactions")
  /\ Reads(j) /\ asks[on[j]] # NoGroup
  /\ \E u \in New(on[j], Reactors(j)) :
       /\ Take(on[j], u, target[j])
       /\ MarkMember(on[j], u)
       /\ NoSave \/ Incremental(j, found'[on[j]])
  /\ UNCHANGED <<dialog, job, shared>>

(* The search for prefixes, which the server makes in the group's list. *)
TakeSearched(j) ==
  /\ At(j, "search") /\ Reads(j)
  /\ \E u \in New(on[j], Participants(j)) : Take(on[j], u, target[j])
  /\ UNCHANGED <<table, dialog, oracle, job, saved, shared, mixed>>

(* Deep mode: found users are confirmed, which removes nobody. *)
ConfirmForward(j, u) ==
  /\ At(j, "forwards") /\ Reads(j)
  /\ u \in found[on[j]] \ (known[on[j]] \cup outside[on[j]])
  /\ \E answer \in Telegram(on[j], u) : Learn(on[j], u, answer)
  /\ UNCHANGED <<table, dialog, conn, found, had, stop, job, history>>

(* Deep mode: anybody met elsewhere is a candidate, taken if the oracle    *)
(* confirms.  Those met in other groups and among the contacts are asked   *)
(* about even if the table has them, those of the global search are not.   *)
Candidate(j, u) ==
  /\ Reads(j)
  /\ u \notin found[on[j]]
  /\ \E answer \in Telegram(on[j], u) :
       /\ Learn(on[j], u, answer)
       /\ IF Confirmed(answer) /\ u \notin had[on[j]]
            THEN found' = [found EXCEPT ![on[j]] = @ \cup {u}]
            ELSE UNCHANGED found
       /\ seen' = IF answer = "yes" /\ u \in Listed[asks[on[j]]]
                    THEN seen \cup {<<u, asks[on[j]]>>} ELSE seen
  /\ UNCHANGED <<table, dialog, conn, had, stop, job, saved, shared, mixed>>

MetElsewhere(j, u) == At(j, "candidates") /\ Candidate(j, u)
MetInSearch(j, u) == At(j, "candidates") /\ u \notin had[on[j]] /\ Candidate(j, u)

(* The last method asks about those that were found, and so adds nobody. *)
Resolve(j, u) ==
  /\ At(j, "resolve") /\ Reads(j)
  /\ u \in found[on[j]]
  /\ \E answer \in Telegram(on[j], u) : Learn(on[j], u, answer)
  /\ UNCHANGED <<table, dialog, conn, found, had, stop, job, history>>

(* The background scan collects for itself, whether stored or not. *)
TakeScanned(j) ==
  /\ At(j, "scan") /\ conn[on[j]] = "open"
  /\ \E u \in (Listed[target[j]] \cup Heard[target[j]]) \ found[on[j]] :
       Take(on[j], u, target[j])
  /\ UNCHANGED <<table, dialog, oracle, job, saved, shared, mixed>>

-----------------------------------------------------------------------------
(* A loop ends: exhausted, refused, failed, or it saw the stop flag.  The  *)
(* later loops are still entered, and see the flag for themselves.         *)
After(j) ==
  CASE At(j, "list") -> IF kind[j] = "bulk" THEN {"deep"} ELSE {"history"}
    [] At(j, "history") -> {"reactions"}
    [] At(j, "reactions") -> {"finish", "search"}
    [] At(j, "search") -> {"deep", "finish"} \cup IF kind[j] = "web" THEN {"forwards"} ELSE {}
    [] At(j, "deep") -> {"deepReactions"}
    [] At(j, "flooded") -> IF stop[on[j]] THEN {"deepReactions"} ELSE {}
    [] At(j, "deepReactions") ->
         IF kind[j] = "bulk" THEN {"next"}
         ELSE {"finish"} \cup IF kind[j] = "web" THEN {"forwards"} ELSE {}
    [] At(j, "forwards") -> {"candidates"}
    [] At(j, "candidates") -> {"resolve"}
    [] At(j, "resolve") -> {"finish"}
    [] OTHER -> {}

LoopEnds(j) ==
  /\ \E where \in After(j) : Go(j, where)
  /\ UNCHANGED <<table, dialog, scraper, kind, on, target, todo, history>>

(* The deep scan goes on after a flood wait too, from the same offset, but *)
(* looks at the stop flag first.                                           *)
DeepFlood(j) ==
  /\ At(j, "deep") /\ conn[on[j]] = "open"
  /\ Go(j, "flooded")
  /\ UNCHANGED <<table, dialog, scraper, kind, on, target, todo, history>>

ResumeAnyway(j) == TRUE
MayResume(j) == ~stop[on[j]]
DeepResume(j) ==
  /\ At(j, "flooded") /\ MayResume(j)
  /\ Go(j, "deep")
  /\ UNCHANGED <<table, dialog, scraper, kind, on, target, todo, history>>

(* The lists of reactions, of poll voters and of search results: the same  *)
(* request is made until it is answered, and nobody looks at the stop flag *)
(* in between.  A loop that is entered after the stop makes no request; a  *)
(* flood that answers a request made before it may as well have come       *)
(* before it.  Another flood in the wait changes nothing.                  *)
RequestFloods(j) ==
  /\ \E w \in Waits : At(j, w[1]) /\ Go(j, w[2])
  /\ Reads(j)
  /\ UNCHANGED <<table, dialog, scraper, kind, on, target, todo, history>>

Answered(j) ==
  /\ \E w \in Waits : At(j, w[2]) /\ Go(j, w[1])
  /\ UNCHANGED <<table, dialog, scraper, kind, on, target, todo, history>>

(* A request on a closed client raises, which ends the loop. *)
RequestFails(j) == Answered(j) /\ conn[on[j]] # "open"

-----------------------------------------------------------------------------
(* The dialog of the menu. *)
Fresh(c) == conn[c] = "unused" /\ \A b \in 1 .. (c - 1) : conn[b] # "unused"
MenuPick(c) ==
  /\ Fresh(c)
  /\ conn' = [conn EXCEPT ![c] = "open"]
  /\ atk' = c /\ gate' = FALSE
  /\ UNCHANGED <<table, found, had, oracle, stop, job, history>>

Cleared == atk' = NoClient /\ gate' = FALSE

(* Home disconnects the client of the dialog, unless something is adding. *)
Home ==
  /\ ~gate
  /\ conn' = IF atk = NoClient THEN conn ELSE [conn EXCEPT ![atk] = "closed"]
  /\ Cleared
  /\ UNCHANGED <<table, found, had, oracle, stop, job, history>>

(* Other buttons clear atk_state and forget the client. *)
ClearDialog ==
  /\ Cleared
  /\ UNCHANGED <<table, scraper, job, history>>

PressStop ==
  /\ stop' = IF atk = NoClient THEN stop ELSE [stop EXCEPT ![atk] = TRUE]
  /\ Cleared
  /\ UNCHANGED <<table, conn, found, had, oracle, job, history>>

(* A job begins on client c.  The dialog does not change, so a second      *)
(* target may be sent while the first attack runs.                         *)
Begin(j, k, c, g, where) ==
  /\ At(j, "idle") /\ \A i \in 1 .. (j - 1) : ~At(i, "idle")
  /\ Go(j, where)
  /\ kind' = [kind EXCEPT ![j] = k]
  /\ on' = [on EXCEPT ![j] = c]
  /\ target' = [target EXCEPT ![j] = g]
  /\ shared' = IF \E i \in Jobs : Running(i) /\ on[i] = c THEN shared \cup {c} ELSE shared

StartAttack(j, g) ==
  /\ atk # NoClient /\ conn[atk] = "open"
  /\ Begin(j, "menu", atk, g, "start")
  /\ UNCHANGED <<table, dialog, scraper, todo, seen, saved, mixed>>

(* The retry that a failed attack offers, before it clears the dialog: the *)
(* target is the one of the button, the client the one of the dialog.  The *)
(* dialogs are read first, which a closed client refuses.                  *)
Retry(j) ==
  /\ atk # NoClient
  /\ \E i \in Jobs : At(i, "apology") /\
       Begin(j, "menu", atk, target[i], IF conn[atk] = "open" THEN "start" ELSE "apology")
  /\ UNCHANGED <<table, dialog, scraper, todo, seen, saved, mixed>>

(* The dialogs are read first: a closed client fails there. *)
StartBulk(j) ==
  /\ atk # NoClient
  /\ Begin(j, "bulk", atk, NoGroup, IF conn[atk] = "open" THEN "next" ELSE "failed")
  /\ todo' = [todo EXCEPT ![j] = Dialogs]
  /\ UNCHANGED <<table, dialog, scraper, seen, saved, mixed>>

StartWeb(j, c, g) ==
  /\ ~gate /\ gate' = TRUE
  /\ Fresh(c) /\ conn' = [conn EXCEPT ![c] = "open"]
  /\ Begin(j, "web", c, g, "start")
  /\ UNCHANGED <<table, atk, found, had, oracle, stop, todo, seen, saved, mixed>>

StartBackground(j, c, g) ==
  /\ \A i \in Jobs : ~(Running(i) /\ kind[i] = "background")
  /\ Fresh(c) /\ conn' = [conn EXCEPT ![c] = "open"]
  /\ Begin(j, "background", c, g, "scan")
  /\ UNCHANGED <<table, dialog, found, had, oracle, stop, todo, seen, saved, mixed>>

-----------------------------------------------------------------------------
(* run_full_scrape: who is in the table already is read once, before the   *)
(* target is looked up; the oracle is made anew, found_users is not.       *)
FullScrape(j) ==
  /\ At(j, "start")
  /\ had' = [had EXCEPT ![on[j]] = Rows]
  /\ known' = [known EXCEPT ![on[j]] = {}]
  /\ outside' = [outside EXCEPT ![on[j]] = {}]
  /\ asks' = [asks EXCEPT ![on[j]] = target[j]]
  /\ Go(j, "list")
  /\ UNCHANGED <<table, dialog, conn, found, stop, kind, on, target, todo, history>>

(* A target that was sent as text is looked up first, with a minute of     *)
(* attempts: when all fail the dialog stays as it is, client and all.      *)
NotResolved(j) ==
  /\ At(j, "start") /\ kind[j] = "menu"
  /\ Go(j, "failed")
  /\ UNCHANGED <<table, dialog, scraper, kind, on, target, todo, history>>

(* The target is not found: an attack of the menu offers a retry, then     *)
(* clears the dialog and leaves its client connected; the mini app's job   *)
(* ends.                                                                   *)
TargetNotFound(j) ==
  /\ At(j, "start")
  /\ had' = [had EXCEPT ![on[j]] = Rows]
  /\ IF kind[j] = "web" THEN Go(j, "failed") /\ gate' = FALSE
                        ELSE Go(j, "apology") /\ UNCHANGED gate
  /\ UNCHANGED <<table, atk, conn, found, oracle, stop, kind, on, target, todo, history>>

Apologised(j) ==
  /\ At(j, "apology")
  /\ Go(j, "failed")
  /\ Cleared
  /\ UNCHANGED <<table, scraper, kind, on, target, todo, history>>

(* The last incremental save, before the progress report is waited for. *)
Finish(j) ==
  /\ At(j, "finish")
  /\ Incremental(j, found[on[j]])
  /\ Go(j, "report")
  /\ UNCHANGED <<dialog, scraper, kind, on, target, todo, seen, shared>>

(* The attack stores what it found, reports, and lets go of its client and *)
(* of the dialog, whoever the dialog belongs to by now.                    *)
LetGoButKeepClient(j) == UNCHANGED <<conn, dialog>>
LetGo(j) ==
  /\ conn' = [conn EXCEPT ![on[j]] = "closed"]
  /\ Cleared
UnsavedReport(j) == NoSave
SavedReport(j) == Save(found[on[j]], on[j], Source(j))
ReportAttack(j) ==
  /\ At(j, "report") /\ kind[j] = "menu"
  /\ SavedReport(j)
  /\ Go(j, "done")
  /\ LetGo(j)
  /\ UNCHANGED <<found, had, oracle, stop, kind, on, target, todo, seen, shared>>

(* A message of the report is not delivered: the client stays connected. *)
ReportFails(j) ==
  /\ At(j, "report") /\ kind[j] = "menu"
  /\ SavedReport(j)
  /\ Go(j, "apology")
  /\ UNCHANGED <<dialog, scraper, kind, on, target, todo, seen, shared>>

(* The job of the mini app counts what it found and leaves its client open. *)
ReportWeb(j) ==
  /\ At(j, "report") /\ kind[j] = "web"
  /\ Go(j, "done")
  /\ gate' = FALSE
  /\ UNCHANGED <<table, atk, scraper, kind, on, target, todo, history>>

(* scan_all_chats: one group after another; after every third, and at the  *)
(* end, everything is stored.                                              *)
NextGroup(j) ==
  /\ At(j, "next") /\ ~stop[on[j]]
  /\ \E g \in todo[j] :
       /\ target' = [target EXCEPT ![j] = g]
       /\ todo' = [todo EXCEPT ![j] = @ \ {g}]
  /\ Go(j, "list")
  /\ NoSave \/ Incremental(j, found[on[j]])
  /\ UNCHANGED <<dialog, scraper, kind, on, seen, shared>>

BulkEnds(j) ==
  /\ At(j, "next") /\ (stop[on[j]] \/ todo[j] = {})
  /\ SavedReport(j)
  /\ conn' = [conn EXCEPT ![on[j]] = "closed"]
  /\ Go(j, "done")
  /\ UNCHANGED <<dialog, found, had, oracle, stop, kind, on, target, todo, seen, shared>>

ScanEnds(j) ==
  /\ At(j, "scan")
  /\ SavedReport(j)
  /\ conn' = [conn EXCEPT ![on[j]] = "closed"]
  /\ Go(j, "done")
  /\ UNCHANGED <<dialog, found, had, oracle, stop, kind, on, target, todo, seen, shared>>

ScanFails(j) ==
  /\ At(j, "scan")
  /\ conn' = [conn EXCEPT ![on[j]] = "closed"]
  /\ Go(j, "failed")
  /\ UNCHANGED <<table, dialog, found, had, oracle, stop, kind, on, target, todo, history>>

(* A step of a loop, and a step from one part of a job to the next. *)
Turn(j) ==
  \/ TakeListed(j) \/ TakeHeard(j) \/ TakeReactions(j) \/ TakeSearched(j) \/ TakeScanned(j)
  \/ \E u \in Users : ConfirmForward(j, u) \/ MetElsewhere(j, u) \/ MetInSearch(j, u) \/ Resolve(j, u)
Advance(j) ==
  \/ FullScrape(j) \/ NotResolved(j) \/ TargetNotFound(j) \/ Apologised(j)
  \/ LoopEnds(j) \/ DeepFlood(j) \/ DeepResume(j) \/ RequestFloods(j) \/ RequestFails(j)
  \/ Finish(j) \/ ReportAttack(j) \/ ReportFails(j) \/ ReportWeb(j)
  \/ NextGroup(j) \/ BulkEnds(j) \/ ScanEnds(j) \/ ScanFails(j)

Ask ==
  \/ ClearUsers \/ Home \/ ClearDialog \/ PressStop
  \/ \E c \in Clients : MenuPick(c)
  \/ \E j \in Jobs : Retry(j) \/ StartBulk(j) \/ \E g \in Groups : StartAttack(j, g)
  \/ \E j \in Jobs, c \in Clients, g \in Groups : StartWeb(j, c, g) \/ StartBackground(j, c, g)

Next == Ask \/ \E j \in Jobs : Turn(j) \/ Advance(j) \/ Answered(j)
Spec == Init /\ [][Next]_vars

(* A job is one coroutine: its calls return, with an error if need be.     *)
(* Nothing says that a request that floods is answered in the end.         *)
FairSpec == Spec /\ \A j \in Jobs : WF_vars(Advance(j))

-----------------------------------------------------------------------------
(* A user that the mini app's job found was shown by the very group, or    *)
(* Telegram confirmed the membership: an error or a flood wait is not a    *)
(* yes, and what one run learned is not used for another group.            *)
CandidatesConfirmed ==
  \A j \in Jobs : kind[j] = "web" => \A u \in found[on[j]] : <<u, target[j]>> \in seen

(* A job of the menu, and a background scan, that ended well has stored    *)
(* everybody it found, but for those who may not be stored; so has one     *)
(* that the user stopped.                                                  *)
FoundIsSaved ==
  \A j \in Jobs :
    At(j, "done") /\ kind[j] # "web" /\ on[j] \notin shared => found[on[j]] \subseteq saved \cup OnRecord

(* The source group of a row really showed the user, unless two jobs had   *)
(* used one client at the same time.                                       *)
SourceIsRight ==
  \A u \in Users : table[u] \in Groups => <<u, table[u]>> \in seen \/ u \in mixed

(* A request of a reaction list, a poll or the search is refused again and *)
(* again with an order to wait.                                            *)
Flooding(j) == (\E w \in Waits : At(j, w[2])) /\ conn[on[j]] = "open"

(* A job whose client was told to stop ends (no stop is ever withdrawn and *)
(* no job that is over runs again), be it in the flood waits of the deep   *)
(* scan, unless Telegram floods one request of the three lists for ever    *)
(* (scrape_api.py:70, 107 and 197 look at no flag and count nothing).      *)
StopEnds ==
  \A j \in Jobs : []<>~Flooding(j) => []<>~(Running(j) /\ stop[on[j]])

(* What the report of the mini app claims: what was found is stored. *)
WebFoundIsSaved ==
  \A j \in Jobs : At(j, "done") /\ kind[j] = "web" => found[on[j]] \subseteq saved \cup OnRecord
=============================================================================
