------------------------------ MODULE AddLedger ------------------------------
(***************************************************************************)
(* What an add run promises about the members it was given, whatever the   *)
(* number of accounts, the errors Telegram returns and the moments at      *)
(* which somebody presses Stop: every member of the run is at any moment   *)
(* in one place only, and once a result is booked for it nothing changes   *)
(* that result.  AddRun (the engine of bot.py) is checked and proved to    *)
(* implement this specification.                                           *)
(***************************************************************************)
EXTENDS Naturals

CONSTANTS
  Runs,      \* calls of _execute_parallel_add
  Members    \* users that can be on a run's list

VARIABLES
  place,     \* place[r][m]: where member m of run r is
  phase      \* phase[r]: the life of run r

Results == {"added", "failed", "skipped"}
Places  == {"absent", "queued", "claimed"} \cup Results
Phases  == {"idle", "scheduled", "running", "finished"}

LedgerType ==
  /\ place \in [Runs -> [Members -> Places]]
  /\ phase \in [Runs -> Phases]

LedgerInit ==
  /\ place = [r \in Runs |-> [m \in Members |-> "absent"]]
  /\ phase = [r \in Runs |-> "idle"]

(* A run receives its list before it starts to work. *)
Receive(r, S) ==
  /\ phase[r] = "idle"
  /\ phase' = [phase EXCEPT ![r] = "scheduled"]
  /\ place' = [place EXCEPT ![r] = [m \in Members |->
                 IF m \in S THEN "queued" ELSE "absent"]]

Begin(r) ==
  /\ phase[r] = "scheduled"
  /\ phase' = [phase EXCEPT ![r] = "running"]
  /\ UNCHANGED place

Move(r, m, from, to) ==
  /\ phase[r] = "running"
  /\ UNCHANGED phase
  /\ place[r][m] = from
  /\ place' = [place EXCEPT ![r][m] = to]

(* An account takes the member, gives it back untried, or books its result. *)
Claim(r, m)     == Move(r, m, "queued", "claimed")
Return(r, m)    == Move(r, m, "claimed", "queued")
Book(r, m, res) == Move(r, m, "claimed", res)
SkipUntried(r, m) == Move(r, m, "queued", "skipped")

(* A run ends only when no account still holds one of its members. *)
End(r) ==
  /\ phase[r] \in {"scheduled", "running"}
  /\ \A m \in Members : place[r][m] # "claimed"
  /\ phase' = [phase EXCEPT ![r] = "finished"]
  /\ UNCHANGED place

LedgerMove(r) ==
  \/ \E S \in SUBSET Members : Receive(r, S)
  \/ Begin(r)
  \/ \E m \in Members : Claim(r, m) \/ Return(r, m) \/ SkipUntried(r, m)
  \/ \E m \in Members, res \in Results : Book(r, m, res)
  \/ End(r)

(* Each of these moves a member or a run. *)
LedgerNext ==
  /\ <<phase, place>>' # <<phase, place>>
  /\ \E r \in Runs : LedgerMove(r)

LedgerSpec == LedgerInit /\ [][LedgerNext]_<<place, phase>>
=============================================================================
