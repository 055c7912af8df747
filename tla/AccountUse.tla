------------------------------ MODULE AccountUse ------------------------------
(***************************************************************************)
(* account_state.py, the registry of busy accounts, with the operations    *)
(* that connect a saved account: the scrape job and the single add of the  *)
(* mini app, the background scan, the health probe, the manual operation   *)
(* of the Telegram menu, and the single and the live add of that menu.     *)
(*                                                                         *)
(* An entry of the registry holds a label and a time, and release(phone)   *)
(* deletes it whoever calls.  The label is replaced here by the operation  *)
(* that placed it, which no guard compares.  An entry older than the TTL   *)
(* counts as absent for every reader, so Expire simply removes it.         *)
(*                                                                         *)
(* The dialogs of the menu share one dictionary, atk_state.  Of it the     *)
(* model keeps "phone" (dialogPhone), "add_in_progress" (gate) and, as the *)
(* stage of a manual operation, whether "atk" or "add_client" is there.    *)
(*                                                                         *)
(* Left out: which free account is picked (sessions, limits, last use),    *)
(* clients left connected after their operation, deletion of accounts, and *)
(* the parallel add, which neither asks nor marks (see AddRun).            *)
(***************************************************************************)
EXTENDS FiniteSets

CONSTANTS
  Phones,    \* saved accounts
  Scrapes,   \* scrape jobs of the mini app
  Scans,     \* the background loop's scans (one loop: one scan)
  Probes,    \* health probes
  Manuals,   \* operations of the menu that pick an account (useacc_)
  Adds,      \* adds with one account: single (mini app or menu) or live (menu)
  NoPhone,   \* atk_state has no "phone"
  NoOp       \* the account is not in the registry

Jobs == Scrapes \cup Scans \cup Probes
Ops  == Jobs \cup Manuals \cup Adds

ASSUME PhoneAssumption == NoPhone \notin Phones
ASSUME OpAssumption == NoOp \notin Ops
ASSUME KindAssumption ==
  /\ Jobs \cap Manuals = {} /\ Jobs \cap Adds = {} /\ Manuals \cap Adds = {}
  /\ Scrapes \cap Scans = {} /\ Scrapes \cap Probes = {} /\ Scans \cap Probes = {}

VARIABLES
  mark,         \* the operation whose entry an account has in _busy
  stage,        \* what an operation is doing
  at,           \* the account an operation is about
  dialogPhone,  \* atk_state["phone"]
  gate,         \* atk_state["add_in_progress"], "open" while it is not set
  robbed        \* history: accounts whose mark was taken from a live operation

vars == <<mark, stage, at, dialogPhone, gate, robbed>>

(* picked: chosen, not yet marked.  connecting: a manual operation opens the *)
(* account before it marks it.  ready: connected and waiting for a target.   *)
(* parked: marked without a client (the account had reached its cap).        *)
(* gated: a single add that closed the gate of the mini app.  live: an add   *)
(* of people scraped as it goes, which closes that gate too.                 *)
Stages == {"idle", "picked", "connecting", "ready", "parked", "attacking",
           "working", "gated", "live"}
(* left: closed by a live add that gave up without opening it.               *)
Gates == {"open", "shut", "left"}

(* Stages in which an operation that marks relies on its mark. *)
Relying == {"ready", "attacking", "working"}
Claiming == {o \in Jobs \cup Manuals : stage[o] \in Relying}

Init ==
  /\ mark = [p \in Phones |-> NoOp]
  /\ stage = [o \in Ops |-> "idle"]
  /\ at = [o \in Ops |-> NoPhone]
  /\ dialogPhone = NoPhone
  /\ gate = "open"
  /\ robbed = {}

-----------------------------------------------------------------------------
(* The registry *)

(* Mutant of MayMark: an operation goes on whatever mark_busy answers. *)
MayMarkAlways(m, p) == TRUE

(* mark_busy succeeds, busy_label is None. *)
MayMark(m, p) == m[p] = NoOp

(* release: the entry goes, whoever placed it; None is ignored. *)
Released(m, p) == IF p = NoPhone THEN m ELSE [m EXCEPT ![p] = NoOp]

(* Mutant of JobReleased: no release in the finally of a job. *)
JobReleasedNot(o) == mark

(* The finally of a job. *)
JobReleased(o) == Released(mark, at[o])

(* Releasing p takes the mark of an operation that still relies on it. *)
Robs(p, leaving) ==
  {q \in {p} \cap Phones : \E o \in Claiming \ leaving : mark[q] = o /\ at[o] = q}

Begin(o, p, s) ==
  /\ stage[o] = "idle"
  /\ stage' = [stage EXCEPT ![o] = s]
  /\ at' = [at EXCEPT ![o] = p]

End(o) ==
  /\ stage' = [stage EXCEPT ![o] = "idle"]
  /\ at' = [at EXCEPT ![o] = NoPhone]

(* 45 minutes after the mark; readers treat the entry as absent. *)
Expire(p) ==
  /\ mark[p] # NoOp
  /\ mark' = Released(mark, p)
  /\ robbed' = robbed \cup Robs(p, {})
  /\ UNCHANGED <<stage, at, dialogPhone, gate>>

-----------------------------------------------------------------------------
(* The scrape job of the mini app *)

(* The request picks a free account and closes the gate; the job is only     *)
(* scheduled and marks the account when it first runs.                       *)
ScrapeTrigger(o, p) ==
  /\ gate = "open"
  /\ MayMark(mark, p)
  /\ Begin(o, p, "picked")
  /\ gate' = "shut"
  /\ UNCHANGED <<mark, dialogPhone, robbed>>

ScrapeClaim(o) ==
  /\ stage[o] = "picked"
  /\ MayMark(mark, at[o])
  /\ mark' = [mark EXCEPT ![at[o]] = o]
  /\ stage' = [stage EXCEPT ![o] = "working"]
  /\ UNCHANGED <<at, dialogPhone, gate, robbed>>

(* Mutant of GateAfterRefusal: the early return leaves the gate closed. *)
GateLeftClosed == gate

GateAfterRefusal == "open"

ScrapeRefused(o) ==
  /\ stage[o] = "picked"
  /\ ~MayMark(mark, at[o])
  /\ End(o)
  /\ gate' = GateAfterRefusal
  /\ UNCHANGED <<mark, dialogPhone, robbed>>

ScrapeEnd(o) ==
  /\ stage[o] = "working"
  /\ mark' = JobReleased(o)
  /\ End(o)
  /\ gate' = "open"
  /\ UNCHANGED <<dialogPhone, robbed>>

ScrapeStep(o) == ScrapeClaim(o) \/ ScrapeRefused(o) \/ ScrapeEnd(o)

-----------------------------------------------------------------------------
(* The background scan and the health probe *)

(* The web server has a thread of its own, so an account can be marked       *)
(* between pick_scrape_account and mark_busy of the loop.                    *)
ScanPick(o, p) ==
  /\ MayMark(mark, p)
  /\ Begin(o, p, "picked")
  /\ UNCHANGED <<mark, dialogPhone, gate, robbed>>

ScanClaim(o) ==
  /\ stage[o] = "picked"
  /\ MayMark(mark, at[o])
  /\ mark' = [mark EXCEPT ![at[o]] = o]
  /\ stage' = [stage EXCEPT ![o] = "working"]
  /\ UNCHANGED <<at, dialogPhone, gate, robbed>>

ScanRefused(o) ==
  /\ stage[o] = "picked"
  /\ ~MayMark(mark, at[o])
  /\ End(o)
  /\ UNCHANGED <<mark, dialogPhone, gate, robbed>>

(* A probe of a busy account returns at once and changes nothing. *)
ProbeStart(o, p) ==
  /\ MayMark(mark, p)
  /\ Begin(o, p, "working")
  /\ mark' = [mark EXCEPT ![p] = o]
  /\ UNCHANGED <<dialogPhone, gate, robbed>>

(* finally: the client is closed, the account released. *)
Finish(o) ==
  /\ stage[o] = "working"
  /\ mark' = JobReleased(o)
  /\ End(o)
  /\ UNCHANGED <<dialogPhone, gate, robbed>>

ScanStep(o) == ScanClaim(o) \/ ScanRefused(o) \/ Finish(o)

-----------------------------------------------------------------------------
(* Manual operations of the menu *)

(* Mutant of DialogReleased: atk_state.clear() without the release. *)
DialogReleasedNot == mark

(* _release_busy_account *)
DialogReleased == Released(mark, dialogPhone)

Waiting(s) == s \in {"ready", "parked"}

(* atk_state.clear(): the client that waits in the dialog is forgotten; an   *)
(* attack that runs is a task of its own and goes on.                        *)
DialogStage == [x \in Ops |-> IF Waiting(stage[x]) THEN "idle" ELSE stage[x]]
DialogAt    == [x \in Ops |-> IF Waiting(stage[x]) THEN NoPhone ELSE at[x]]
DialogRobs(leaving) ==
  Robs(dialogPhone, leaving \cup {x \in Manuals : stage[x] = "ready"})

ManualStart(o, p) ==
  /\ Begin(o, p, "connecting")
  /\ UNCHANGED <<mark, dialogPhone, gate, robbed>>

(* The account does not connect; atk_state is left as it is. *)
ManualFails(o) ==
  /\ stage[o] = "connecting"
  /\ End(o)
  /\ UNCHANGED <<mark, dialogPhone, gate, robbed>>

(* Connected: the previous dialog ends, then the account is marked.  A       *)
(* manual add of an account at its cap is parked: disconnected, still marked.*)
ManualClaim(o) ==
  /\ stage[o] = "connecting"
  /\ MayMark(DialogReleased, at[o])
  /\ mark' = [DialogReleased EXCEPT ![at[o]] = o]
  /\ \E s \in {"ready", "parked"} : stage' = [DialogStage EXCEPT ![o] = s]
  /\ at' = DialogAt
  /\ dialogPhone' = at[o]
  /\ gate' = "open"
  /\ robbed' = robbed \cup DialogRobs({})

(* Somebody else has marked it: disconnected, yet atk_state["phone"] names it.*)
ManualRefused(o) ==
  /\ stage[o] = "connecting"
  /\ ~MayMark(DialogReleased, at[o])
  /\ mark' = DialogReleased
  /\ stage' = [DialogStage EXCEPT ![o] = "idle"]
  /\ at' = [DialogAt EXCEPT ![o] = NoPhone]
  /\ dialogPhone' = at[o]
  /\ gate' = "open"
  /\ robbed' = robbed \cup DialogRobs({})

(* A target is chosen. *)
AttackStart(o) ==
  /\ stage[o] = "ready"
  /\ stage' = [stage EXCEPT ![o] = "attacking"]
  /\ UNCHANGED <<mark, at, dialogPhone, gate, robbed>>

(* The attack or the manual add is over, well or not: the dialog of that     *)
(* moment is released and cleared, even if it is a later one.                *)
AttackEnd(o) ==
  /\ stage[o] = "attacking"
  /\ mark' = DialogReleased
  /\ stage' = [DialogStage EXCEPT ![o] = "idle"]
  /\ at' = [DialogAt EXCEPT ![o] = NoPhone]
  /\ dialogPhone' = NoPhone
  /\ gate' = "open"
  /\ robbed' = robbed \cup DialogRobs({o})

(* A menu button or a failed handler: _release_busy_account, then clear. *)
MenuClear ==
  /\ mark' = DialogReleased
  /\ stage' = DialogStage
  /\ at' = DialogAt
  /\ dialogPhone' = NoPhone
  /\ gate' = "open"
  /\ robbed' = robbed \cup DialogRobs({})

(* A login (its button, bot.py:3799, clears nothing) or a live add writes    *)
(* "phone" without a mark, over whatever phone the dictionary held.          *)
NamePhone(p) ==
  /\ dialogPhone' = p
  /\ UNCHANGED <<mark, stage, at, gate, robbed>>

ManualStep(o) ==
  \/ ManualFails(o) \/ ManualClaim(o) \/ ManualRefused(o)
  \/ AttackStart(o) \/ AttackEnd(o)

-----------------------------------------------------------------------------
(* Adds with one account: nothing is marked; the finally of a single add     *)
(* releases the account all the same.                                        *)

WebAddStart(o, p) ==
  /\ gate = "open"
  /\ Begin(o, p, "gated")
  /\ gate' = "shut"
  /\ UNCHANGED <<mark, dialogPhone, robbed>>

MenuAddStart(o, p) ==
  /\ Begin(o, p, "working")
  /\ UNCHANGED <<mark, dialogPhone, gate, robbed>>

AddEnd(o) ==
  /\ stage[o] \in {"working", "gated"}
  /\ mark' = Released(mark, at[o])
  /\ End(o)
  /\ gate' = IF stage[o] = "gated" THEN "open" ELSE gate
  /\ robbed' = robbed \cup Robs(at[o], {})
  /\ UNCHANGED dialogPhone

(* _execute_direct_add works on the client and the phone of the dialog.  It  *)
(* sets add_in_progress without asking, and neither marks nor releases.      *)
LiveAddStart(o, p) ==
  /\ dialogPhone = p
  /\ Begin(o, p, "live")
  /\ gate' = "shut"
  /\ UNCHANGED <<mark, dialogPhone, robbed>>

LiveAddEnd(o) ==
  /\ stage[o] = "live"
  /\ End(o)
  /\ gate' = "open"
  /\ UNCHANGED <<mark, dialogPhone, robbed>>

(* The channel does not answer, nobody new is found, or an exception: it     *)
(* returns and leaves the flag, if nobody cleared it before, as it set it.   *)
LiveAddGivesUp(o) ==
  /\ stage[o] = "live"
  /\ End(o)
  /\ gate' = IF gate = "open" THEN "open" ELSE "left"
  /\ UNCHANGED <<mark, dialogPhone, robbed>>

AddStep(o) == AddEnd(o) \/ LiveAddEnd(o) \/ LiveAddGivesUp(o)

(* /api/add/stop opens the gate at once. *)
WebStop ==
  /\ gate' = "open"
  /\ UNCHANGED <<mark, stage, at, dialogPhone, robbed>>

-----------------------------------------------------------------------------
Start(p) ==
  \/ \E o \in Scrapes  : ScrapeTrigger(o, p)
  \/ \E o \in Scans    : ScanPick(o, p)
  \/ \E o \in Probes   : ProbeStart(o, p)
  \/ \E o \in Manuals  : ManualStart(o, p)
  \/ \E o \in Adds     : WebAddStart(o, p) \/ MenuAddStart(o, p) \/ LiveAddStart(o, p)

Next ==
  \/ \E p \in Phones   : Start(p) \/ Expire(p) \/ NamePhone(p)
  \/ \E o \in Scrapes  : ScrapeStep(o)
  \/ \E o \in Scans    : ScanStep(o)
  \/ \E o \in Probes   : Finish(o)
  \/ \E o \in Manuals  : ManualStep(o)
  \/ \E o \in Adds     : AddStep(o)
  \/ MenuClear \/ WebStop

Spec == Init /\ [][Next]_vars

(* A scheduled coroutine runs and its requests return or raise; nobody has   *)
(* to press a button, and no mark has to expire.                             *)
Fairness ==
  /\ \A o \in Scrapes : WF_vars(ScrapeStep(o))
  /\ \A o \in Scans   : WF_vars(ScanStep(o))
  /\ \A o \in Probes  : WF_vars(Finish(o))
  /\ \A o \in Adds    : WF_vars(AddStep(o))
FairSpec == Spec /\ Fairness

-----------------------------------------------------------------------------
(* Every variable keeps its type, and an operation has an account exactly    *)
(* while it is not idle.                                                     *)
TypeOK ==
  /\ mark \in [Phones -> Ops \cup {NoOp}]
  /\ stage \in [Ops -> Stages]
  /\ at \in [Ops -> Phones \cup {NoPhone}]
  /\ \A o \in Ops : (at[o] = NoPhone) = (stage[o] = "idle")
  /\ dialogPhone \in Phones \cup {NoPhone}
  /\ gate \in Gates
  /\ robbed \subseteq Phones

(* Two operations that mark use one account together only if its mark was    *)
(* taken from one of them: by the TTL, by a dialog of the menu that names    *)
(* the account, or by the end of a single add.  The interval between picking *)
(* an account and marking it, and the releases of the jobs, cannot cause it. *)
MarkedExclusive ==
  \A o1, o2 \in Claiming : o1 # o2 /\ at[o1] = at[o2] => at[o1] \in robbed

(* Somebody will release the mark of p: the job that placed it and still     *)
(* works, or the dialog that names p.                                        *)
Owned(p) ==
  /\ mark[p] # NoOp
  /\ dialogPhone = p \/ (stage[mark[p]] = "working" /\ at[mark[p]] = p)

(* Another phone is written over p in the dialog and nothing is released.    *)
Overwritten(p) == dialogPhone = p /\ dialogPhone' \notin {p, NoPhone} /\ mark' = mark

(* A mark that somebody will release stays so until it is gone.  Every       *)
(* atk_state.clear() goes after _release_busy_account() and every job has    *)
(* its finally; the one way to leave a mark to the TTL is a dialog that      *)
(* writes its phone over another one.                                        *)
NoMarkForgotten ==
  [][\A p \in Phones :
       Owned(p) /\ mark'[p] # NoOp => Owned(p)' \/ Overwritten(p)]_vars

(* A job does not keep an account: its mark ends without help from the TTL,  *)
(* in whatever way the job ends.                                             *)
HasMark(o)  == \E p \in Phones : mark[p] = o
JobMarkEnds == \A o \in Jobs : []<>~HasMark(o)

(* The mini app does not refuse everything for ever: a closed gate opens     *)
(* again although the job behind it may be refused its account, unless a     *)
(* live add gives up meanwhile.  That one leaves the gate closed until some  *)
(* button or another live add clears the flag (bot.py:1058, 1089 and 1132).  *)
GateReopens == []<>(gate # "shut")

(* tests/test_miniapp_actions.py:94: "if add_in_progress is not cleared, all *)
(* later adds are refused for ever".  The mini app's own jobs clear it in a  *)
(* finally; a live add that gives up leaves it set for them, although nobody *)
(* adds any more.                                                            *)
GateAlwaysReopens ==
  <>[](\A o \in Ops : stage[o] = "idle") => []<>(gate = "open")

(* account_state.py:11: "this module prevents simultaneous use".             *)
ExclusiveUse ==
  \A o1, o2 \in Ops :
    /\ o1 # o2 /\ at[o1] = at[o2] /\ at[o1] # NoPhone
    => {stage[o1], stage[o2]} \cap {"picked", "parked"} # {}
=============================================================================
