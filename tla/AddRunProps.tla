------------------------------ MODULE AddRunProps ------------------------------
(***************************************************************************)
(* What the add engine of bot.py must guarantee, stated over AddRun.       *)
(***************************************************************************)
EXTENDS AddRun

WorkersOf(r) == {w \in Workers : RunOf(w) = r}
InQueue(r, m) == \E i \in 1..Len(queue[r]) : queue[r][i] = m
InHand(r, m) == \E w \in Workers : RunOf(w) = r /\ held[w] = m

(* Steps of a worker, told by the await it leaves and the one it reaches. *)
TakesMember(w) == pc[w] = "loop" /\ pc'[w] = "resolve"
SendsInvite(w) == pc[w] = "throttle" /\ pc'[w] = "invite"

-----------------------------------------------------------------------------
(* Type *)

RunType ==
  /\ phase \in [Runs -> {"idle", "scheduled", "running", "finished"}]
  /\ copy \in [Runs -> Copies]
  /\ accs \in [Runs -> SUBSET Phones]
  /\ listed \in [Runs -> SUBSET Members]
QueueType ==
  /\ queue \in [Runs -> Seq(Members)]
  /\ outcome \in [Runs -> [Members -> Results \cup {"none"}]]
  /\ total \in [Runs -> [Results -> Nat]]
  /\ held \in [Workers -> Members \cup {NoMember}]
  /\ pc \in [Workers -> PCs]
WorkerType ==
  /\ blocked \in [Runs -> SUBSET Members]
  /\ fails \in [Runs -> Nat]
  /\ accAdded \in [Workers -> Nat]
  /\ already \in [Workers -> Nat]
ControlType ==
  /\ stopEvent \in [Copies -> BOOLEAN]
  /\ stopFlags \subseteq {"requested", "parallel"}
  /\ addInProgress \in BOOLEAN
  /\ stopAsked \in [Runs -> SUBSET {"event", "menu"}]
  /\ stopHeld \subseteq Runs
LimitType ==
  /\ strikes \in [Copies -> [Phones -> Nat]]
  /\ limitAdded \in [Phones -> Nat]
  /\ made \in [Phones -> Nat]
StoreType ==
  /\ cacheOf \in Runs \cup {NoRun}
  /\ scraped \subseteq Members
  /\ addedDb \subseteq Members
  /\ doNotAdd \subseteq Members

(* The cached set holds exactly who is in added_history_tbl or in            *)
(* do_not_add_tbl: mark_added_local keeps it up with every worker's add,     *)
(* and never_add_again drops it.                                             *)
CacheCurrent == cacheOf # NoRun => blocked[cacheOf] = addedDb \cup doNotAdd

ExposedAtWork == exposed \subseteq Active \cap RunsIn("web")

(* Every variable keeps its type; a cached blocked set is neither behind nor *)
(* ahead of the tables it stands for; only jobs at work are exposed.         *)
TypeOK ==
  /\ RunType /\ QueueType /\ WorkerType /\ ControlType /\ LimitType /\ StoreType
  /\ CacheCurrent /\ ExposedAtWork

-----------------------------------------------------------------------------
(* Members *)

(* Nobody is lost and nobody is tried twice at once: while a run works, a    *)
(* listed member without a result is in the queue or in one worker's hand,   *)
(* and what is in the queue is listed, unsettled, untaken and there once.    *)
(* Every path of the worker loop that takes a member from member_queue       *)
(* books it or puts it back, through flood errors, stops and a worker's end. *)
HeldOnce ==
  \A v, w \in Workers :
    held[v] = held[w] /\ held[v] # NoMember /\ RunOf(v) = RunOf(w) => v = w
QueuedOnce ==
  \A r \in Runs : \A i, j \in 1..Len(queue[r]) : queue[r][i] = queue[r][j] => i = j
QueuedUntouched ==
  \A r \in Runs : \A i \in 1..Len(queue[r]) :
    LET m == queue[r][i]
    IN  m \in listed[r] /\ outcome[r][m] = "none" /\ ~InHand(r, m)
HeldUnsettled ==
  \A w \in Workers : held[w] # NoMember =>
    held[w] \in listed[RunOf(w)] /\ outcome[RunOf(w)][held[w]] = "none"
NobodyLost ==
  \A r \in Runs : phase[r] = "running" =>
    \A m \in listed[r] : outcome[r][m] # "none" \/ InQueue(r, m) \/ InHand(r, m)
HandsMatch ==
  \A w \in Workers : (held[w] # NoMember) = (pc[w] \in Holding)
Fresh ==
  \A r \in Runs : phase[r] \in {"idle", "scheduled"} =>
    /\ queue[r] = <<>> /\ \A m \in Members : outcome[r][m] = "none"
    /\ \A w \in WorkersOf(r) : pc[w] = "off"
Placement ==
  Fresh /\ HeldOnce /\ QueuedOnce /\ QueuedUntouched /\ HeldUnsettled /\ NobodyLost /\ HandsMatch

(* The counters of the final message and of live_remaining add up at every   *)
(* moment: added + failed + skipped + queued + in hand is the whole list.    *)
Conservation ==
  \A r \in Runs : phase[r] = "running" =>
    Cardinality(listed[r]) =
      total[r]["added"] + total[r]["failed"] + total[r]["skipped"] + Len(queue[r])
        + Cardinality({w \in WorkersOf(r) : held[w] # NoMember})

(* The engine implements the ledger: a member goes from the queue to one     *)
(* hand, back or to one final result, only while its run works, and a run    *)
(* ends with nobody in a hand.                                               *)
Place ==
  [r \in Runs |-> [m \in Members |->
     IF outcome[r][m] # "none" THEN outcome[r][m]
     ELSE IF InHand(r, m) THEN "claimed"
     ELSE IF m \in listed[r] THEN "queued" ELSE "absent"]]
Ledger == INSTANCE AddLedger WITH place <- Place
ImplementsLedger == Ledger!LedgerSpec

(* With one run at a time nobody is invited who is already in                *)
(* added_history_tbl or do_not_add_tbl at that moment: blocked_ids, read     *)
(* once at the start, covers them all ("never add again", bot.py).           *)
NoRepeatInvite ==
  [][\A w \in Workers : SendsInvite(w) => held[w] \notin addedDb \cup doNotAdd]_vars

(* The count recorded for an account is never below the adds a worker has    *)
(* made while it had the account for itself, nor below what it found there   *)
(* or somebody else wrote there before it began: every write is              *)
(* already_added, read once at the start, plus acc_added, whatever the       *)
(* 24-hour thread, the mini app's reset and the menu loops write meanwhile.  *)
AddsAreCounted == \A p \in Phones : limitAdded[p] >= made[p]

-----------------------------------------------------------------------------
(* Stop *)

(* After POST /api/add/stop no active run takes another member or sends      *)
(* another invite, whatever its workers were doing, as long as nothing       *)
(* withdraws that stop (a new start, or a menu button that clears atk_state).*)
StopEffective ==
  [][\A w \in Workers : RunOf(w) \in stopHeld => ~TakesMember(w) /\ ~SendsInvite(w)]_vars

(* A stop left over from an earlier run never ends a new one: a working run   *)
(* sees a stop (a set stop_event or a flag of atk_state) only if a button     *)
(* was pressed while it was active or the burnt-list guard of a run of its    *)
(* copy was hit while it worked, because _execute_parallel_add begins with    *)
(* reset_stop_event.                                                          *)
NoGhostStop ==
  \A r \in Runs : phase[r] = "running" /\ LoopStop(r) => stopAsked[r] # {}

(* The gate of the mini app admits one run at a time: two are at work at once *)
(* only if the flag of one of them was cleared by somebody else, that is by  *)
(* a Stop button, a dialog of the bot, a scrape job, a direct add or the end *)
(* of another run.  The flag outlives the request that set it, and the       *)
(* engine raises it again when the task begins.                              *)
OneWebRun ==
  \A r, s \in Active \cap RunsIn("web") : r # s => r \in exposed \/ s \in exposed

(* Every run ends: floods cannot keep an account in the loop for ever,       *)
(* because strikes set it aside and every other answer consumes a member.    *)
EveryRunFinishes ==
  \A r \in Runs : (phase[r] = "scheduled") ~> (phase[r] = "finished")

-----------------------------------------------------------------------------
(* What the code's own words promise and the code does not keep *)

(* tests/test_miniapp_actions.py: both mini-app triggers must prevent two    *)
(* operations on one session.  /api/add/stop reopens the gate at once, while *)
(* the workers of the stopped run are still connected.                       *)
OneClientPerAccount ==
  \A v, w \in Workers :
    /\ v # w /\ PhoneOf(v) = PhoneOf(w)
    /\ copy[RunOf(v)] = "web" /\ copy[RunOf(w)] = "web"
    => ~(pc[v] \notin {"off", "new", "stagger", "done"}
         /\ pc[w] \notin {"off", "new", "stagger", "done"})

(* The bot's Stop button is "a request to stop any running operation": the   *)
(* run takes no further member.  The button only clears atk_state.           *)
MenuStopIsFinal ==
  [][\A w \in Workers : "menu" \in stopAsked[RunOf(w)] => ~TakesMember(w)]_vars
=============================================================================
