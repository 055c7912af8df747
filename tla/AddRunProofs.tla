----------------------------- MODULE AddRunProofs -----------------------------
(***************************************************************************)
(* Proofs about the add engine for every set of runs, accounts and members. *)
(*                                                                         *)
(* The argument rests on one classification: whatever a worker does, it    *)
(* touches the members of its run in one of five ways (KeepKind ...        *)
(* RefuseKind).  The invariants and the refinement are then proved once    *)
(* per way instead of once per action.                                     *)
(***************************************************************************)
EXTENDS AddRunProps, SequenceTheorems, FiniteSetTheorems, TLAPS

(* No worker exists before its run is launched. *)
Asleep ==
  \A w \in Workers : phase[RunOf(w)] \in {"idle", "scheduled"} => pc[w] = "off"

TypeInv == TypeOK /\ HandsMatch /\ Asleep

(* What a step of w does to the other workers: it neither starts one nor     *)
(* touches its hands, and one that does not wait stays where it is.          *)
PcStep(w) ==
  /\ pc' \in [Workers -> PCs]
  /\ \A v \in Workers \ {w} : /\ (pc'[v] \in Holding) = (pc[v] \in Holding)
                              /\ pc[v] = "off" => pc'[v] = "off"
                              /\ pc[v] \notin Waiting => pc'[v] = pc[v]

KeepKind(w) == UNCHANGED queueVars /\ (pc'[w] \in Holding) = (pc[w] \in Holding)
SettleKind(w) ==
  pc[w] \in Holding /\ pc'[w] \notin Holding /\ \E o \in Results : Settle(w, o)
RequeueKind(w) == pc[w] \in Holding /\ pc'[w] \notin Holding /\ Requeue(w)
TakeKind(w) ==
  /\ pc[w] \notin Holding /\ pc'[w] \in Holding
  /\ queue[RunOf(w)] # <<>>
  /\ held' = [held EXCEPT ![w] = Head(queue[RunOf(w)])]
  /\ queue' = [queue EXCEPT ![RunOf(w)] = Tail(@)]
  /\ UNCHANGED <<outcome, total>>
RefuseKind(w) ==
  /\ (pc'[w] \in Holding) = (pc[w] \in Holding)
  /\ queue[RunOf(w)] # <<>>
  /\ queue' = [queue EXCEPT ![RunOf(w)] = Tail(@)]
  /\ outcome' = [outcome EXCEPT ![RunOf(w)][Head(queue[RunOf(w)])] = "skipped"]
  /\ total' = [total EXCEPT ![RunOf(w)]["skipped"] = @ + 1]
  /\ UNCHANGED held
Kinds(w) ==
  KeepKind(w) \/ SettleKind(w) \/ RequeueKind(w) \/ TakeKind(w) \/ RefuseKind(w)

-----------------------------------------------------------------------------
(* A worker is a pair of a run and a phone. *)
LEMMA WorkerParts == \A w \in Workers : RunOf(w) \in Runs /\ PhoneOf(w) \in Phones
  BY DEF Workers, RunOf, PhoneOf

(* Moving one program counter leaves the other workers' hands alone. *)
LEMMA GoToStep ==
  ASSUME TypeInv, NEW w \in Workers, NEW s \in PCs, GoTo(w, s)
  PROVE  PcStep(w) /\ pc'[w] = s
  BY DEF TypeInv, TypeOK, QueueType, GoTo, PcStep

(* A wait goes to the state it names, or out of the loop when stopped. *)
LEMMA GoWaitStep ==
  ASSUME TypeInv, NEW w \in Workers, NEW s \in Waiting, GoWait(w, s)
  PROVE  PcStep(w) /\ pc'[w] \in {s, "done", "closing"}
<1>1. CASE stopEvent[copy[RunOf(w)]]
  <2>1. StoppedAt(s) \in PCs /\ StoppedAt(s) \in {"done", "closing"}
    BY DEF StoppedAt, PCs
  <2>2. GoTo(w, StoppedAt(s))
    BY <1>1 DEF GoWait
  <2> QED
    BY <2>1, <2>2, GoToStep
<1>2. CASE ~stopEvent[copy[RunOf(w)]]
  <2>1. s \in PCs
    BY DEF PCs
  <2>2. GoTo(w, s)
    BY <1>2 DEF GoWait
  <2> QED
    BY <2>1, <2>2, GoToStep
<1> QED
  BY <1>1, <1>2

(* Every step of a worker is of one of the five kinds. *)
LEMMA WorkerKinds ==
  ASSUME TypeInv, NEW w \in Workers, WorkerStep(w)
  PROVE  UNCHANGED runVars /\ pc[w] \notin {"off", "done"} /\ PcStep(w) /\ Kinds(w)
<1> USE DEF PCs, Waiting, Holding
<1>1. CASE NoSession(w)
  BY <1>1, GoToStep DEF NoSession, Kinds, KeepKind
<1>2. CASE BeginWorker(w)
  BY <1>2, GoWaitStep DEF BeginWorker, Kinds, KeepKind
<1>3. CASE Connect(w)
  BY <1>3, GoToStep DEF Connect, Kinds, KeepKind
<1>4. CASE TimerFires(w)
  BY <1>4, GoToStep DEF TimerFires, Kinds, KeepKind
<1>5. CASE LeaveLoop(w)
  BY <1>5, GoToStep DEF LeaveLoop, Kinds, KeepKind
<1>6. CASE TakeRefused(w)
  BY <1>6 DEF TakeRefused, MayTake, Kinds, RefuseKind, PcStep, TypeInv, TypeOK, QueueType
<1>7. CASE Take(w)
  BY <1>7, GoToStep DEF Take, MayTake, Kinds, TakeKind
<1>8. CASE CloseWorker(w)
  BY <1>8, GoToStep DEF CloseWorker, Kinds, KeepKind
<1>9. CASE Resolved(w)
  BY <1>9, GoToStep DEF Resolved, Kinds, KeepKind
<1>10. CASE Unresolved(w)
  BY <1>10, GoToStep DEF Unresolved, Kinds, SettleKind, Results
<1>11. CASE PeerFlood(w)
  BY <1>11, GoWaitStep DEF PeerFlood, Kinds, RequeueKind
<1>12. CASE ThrottleStopped(w)
  BY <1>12, GoToStep DEF ThrottleStopped, Kinds, RequeueKind
<1>13. CASE SendInvite(w)
  BY <1>13, GoToStep DEF SendInvite, Kinds, KeepKind
<1>14. CASE InviteMissing(w)
  <2> DEFINE r == RunOf(w)
             abort == fails[r] + 1 >= MaxFails /\ total[r]["added"] = 0
  <2>1. PcStep(w) /\ pc'[w] \notin Holding
    <3>1. CASE abort
      <4>1. pc' = [Woken(copy[r]) EXCEPT ![w] = "closing"]
        BY <1>14, <3>1 DEF InviteMissing
      <4>2. pc \in [Workers -> PCs]
        BY DEF TypeInv, TypeOK, QueueType
      <4> QED
        BY <4>1, <4>2 DEF Woken, StoppedAt, PcStep
    <3>2. CASE ~abort
      BY <1>14, <3>2, GoWaitStep DEF InviteMissing
    <3> QED
      BY <3>1, <3>2
  <2> QED
    BY <1>14, <2>1 DEF InviteMissing, Kinds, SettleKind, Results
<1>15. CASE InviteAdded(w)
  BY <1>15, GoWaitStep DEF InviteAdded, Kinds, SettleKind, Results
<1>16. CASE InviteFloodWait(w)
  BY <1>16, GoToStep DEF InviteFloodWait, Kinds, SettleKind, Results
<1>17. CASE AlreadyParticipant(w)
  BY <1>17, GoWaitStep DEF AlreadyParticipant, Kinds, SettleKind, Results
<1>18. CASE PrivacyRestricted(w)
  BY <1>18, GoWaitStep DEF PrivacyRestricted, Kinds, SettleKind, Results
<1>19. CASE PeerIdInvalid(w)
  BY <1>19, GoWaitStep DEF PeerIdInvalid, Kinds, SettleKind, Results
<1>20. CASE ChatForbidden(w)
  BY <1>20, GoToStep DEF ChatForbidden, Kinds, RequeueKind
<1>21. CASE TooManyChannels(w)
  BY <1>21, GoToStep DEF TooManyChannels, Kinds, SettleKind, Results
<1>22. CASE InviteError(w)
  BY <1>22, GoWaitStep DEF InviteError, Kinds, SettleKind, Results
<1> QED
  BY <1>1, <1>2, <1>3, <1>4, <1>5, <1>6, <1>7, <1>8, <1>9, <1>10, <1>11, <1>12,
     <1>13, <1>14, <1>15, <1>16, <1>17, <1>18, <1>19, <1>20, <1>21, <1>22
     DEF WorkerStep, StartStep, LoopStep, TryStep, AnswerStep

-----------------------------------------------------------------------------
(* Type correctness *)

(* What is in a worker's hand while it holds something is a member. *)
LEMMA HoldingMember ==
  ASSUME TypeInv, NEW w \in Workers, pc[w] \in Holding
  PROVE  held[w] \in Members
  BY DEF TypeInv, TypeOK, QueueType, HandsMatch

(* The five kinds keep the queue, the results and the hands well typed. *)
LEMMA KindsType ==
  ASSUME TypeInv, NEW w \in Workers, PcStep(w), Kinds(w)
  PROVE  QueueType' /\ HandsMatch'
<1> DEFINE r == RunOf(w)
<1>0. r \in Runs
  BY WorkerParts
<1> USE DEF TypeInv, TypeOK, QueueType, HandsMatch, PcStep
<1>1. CASE KeepKind(w)
  BY <1>1 DEF KeepKind, queueVars
<1>2. CASE SettleKind(w)
  <2>1. PICK o \in Results : Settle(w, o)
    BY <1>2 DEF SettleKind
  <2>2. outcome' \in [Runs -> [Members -> Results \cup {"none"}]]
    BY <1>0, <2>1 DEF Settle
  <2>3. total' \in [Runs -> [Results -> Nat]]
    BY <1>0, <2>1 DEF Settle
  <2> QED
    BY <1>2, <2>1, <2>2, <2>3 DEF SettleKind, Settle
<1>3. CASE RequeueKind(w)
  <2>1. held[w] \in Members
    BY <1>3, HoldingMember DEF RequeueKind
  <2>2. Append(queue[r], held[w]) \in Seq(Members)
    BY <1>0, <2>1
  <2> QED
    BY <1>0, <1>3, <2>2 DEF RequeueKind, Requeue
<1>4. ASSUME queue[r] # <<>>
      PROVE  Tail(queue[r]) \in Seq(Members) /\ Head(queue[r]) \in Members
  BY <1>0, <1>4
<1>5. CASE TakeKind(w)
  BY <1>0, <1>4, <1>5, MembersAssumption DEF TakeKind
<1>6. CASE RefuseKind(w)
  <2>1. outcome' \in [Runs -> [Members -> Results \cup {"none"}]]
    BY <1>0, <1>6 DEF RefuseKind, Results
  <2>2. total' \in [Runs -> [Results -> Nat]]
    BY <1>0, <1>6 DEF RefuseKind, Results
  <2> QED
    BY <1>0, <1>4, <1>6, <2>1, <2>2 DEF RefuseKind
<1> QED
  BY <1>1, <1>2, <1>3, <1>5, <1>6 DEF Kinds

(* A limit that is written is a natural number. *)
LEMMA SetLimitType ==
  ASSUME TypeInv, NEW w \in Workers, NEW n \in Nat, SetLimit(w, n)
  PROVE  limitAdded' \in [Phones -> Nat]
<1>1. PhoneOf(w) \in Phones /\ already[w] + n \in Nat
  BY WorkerParts DEF TypeInv, TypeOK, WorkerType
<1> QED
  BY <1>1 DEF SetLimit, TypeInv, TypeOK, LimitType

(* So is what the record owes. *)
LEMMA OwedType ==
  ASSUME TypeInv, NEW p \in Phones, NEW alone, NEW n \in Nat, Owed(p, alone, n)
  PROVE  made' \in [Phones -> Nat]
  BY DEF Owed, TypeInv, TypeOK, LimitType

(* Adding a member to blocked sets keeps them sets of members. *)
LEMMA BlockForType ==
  ASSUME TypeInv, NEW rs, NEW m \in Members, BlockFor(rs, m)
  PROVE  blocked' \in [Runs -> SUBSET Members]
  BY DEF BlockFor, TypeInv, TypeOK, WorkerType

(* The database writes keep the tables sets of members. *)
LEMMA StoreWriteType ==
  ASSUME TypeInv, NEW m \in Members, NeverAddAgain(m) \/ MarkAdded(m)
  PROVE  StoreType'
  BY DEF NeverAddAgain, MarkAdded, TypeInv, TypeOK, StoreType

(* Worker steps keep everything else well typed. *)
LEMMA WorkerDataType ==
  ASSUME TypeInv, NEW w \in Workers, WorkerStep(w)
  PROVE  WorkerType' /\ ControlType' /\ LimitType' /\ StoreType'
<1> DEFINE r == RunOf(w)
           m == held[w]
           Rest == WorkerType' /\ ControlType' /\ LimitType' /\ StoreType'
<1>0. /\ r \in Runs /\ copy[r] \in Copies /\ PhoneOf(w) \in Phones
      /\ (pc[w] = "invite" => m \in Members)
  BY WorkerParts, HoldingMember DEF TypeInv, TypeOK, RunType, Holding
<1>10. WorkerType /\ ControlType /\ LimitType /\ StoreType
  BY DEF TypeInv, TypeOK
<1>11. accAdded[w] \in Nat /\ accAdded[w] + 1 \in Nat
  BY <1>10 DEF WorkerType
<1>12. ASSUME UNCHANGED <<blocked, fails, countVars, controlVars, strikes, limitVars, storeVars>>
      PROVE  Rest
  BY <1>10, <1>12 DEF WorkerType, ControlType, LimitType, StoreType, countVars,
       controlVars, gateVars, limitVars, storeVars
<1>1. CASE StartStep(w) \/ LoopStep(w)
  <2>1. CASE BeginWorker(w)
    <3>1. already' \in [Workers -> Nat]
      BY <1>0, <1>10, <2>1 DEF BeginWorker, WorkerType, LimitType
    <3>2. made' \in [Phones -> Nat]
      BY <1>0, <1>10, <2>1, OwedType DEF BeginWorker, LimitType
    <3> QED
      BY <1>10, <2>1, <3>1, <3>2 DEF BeginWorker, WorkerType, ControlType, LimitType,
           StoreType, controlVars, gateVars, storeVars
  <2>2. CASE NoSession(w) \/ Connect(w) \/ LeaveLoop(w) \/ TimerFires(w) \/ TakeRefused(w)
               \/ Take(w) \/ CloseWorker(w)
    BY <1>12, <2>2 DEF NoSession, Connect, LeaveLoop, TimerFires, TakeRefused, Take, CloseWorker
  <2> QED
    BY <1>1, <2>1, <2>2 DEF StartStep, LoopStep
<1>2. CASE TryStep(w)
  <2>1. CASE PeerFlood(w)
    <3>1. strikes' \in [Copies -> [Phones -> Nat]]
      BY <1>0, <1>10, <2>1 DEF PeerFlood, NextStrike, LimitType
    <3>2. LimitType'
      BY <1>10, <1>11, <2>1, <3>1, SetLimitType DEF PeerFlood, LimitType
    <3> QED
      BY <1>10, <2>1, <3>2 DEF PeerFlood, WorkerType, ControlType, StoreType,
           countVars, controlVars, gateVars, storeVars
  <2>2. CASE Resolved(w) \/ Unresolved(w) \/ ThrottleStopped(w) \/ SendInvite(w)
    BY <1>12, <2>2 DEF Resolved, Unresolved, ThrottleStopped, SendInvite
  <2> QED
    BY <1>2, <2>1, <2>2 DEF TryStep
<1>3. CASE InviteMissing(w)
  <2>1. fails' \in [Runs -> Nat] /\ stopEvent' \in [Copies -> BOOLEAN]
    BY <1>0, <1>10, <1>3 DEF InviteMissing, WorkerType, ControlType
  <2>2. blocked' \in [Runs -> SUBSET Members] /\ StoreType'
    BY <1>0, <1>3, BlockForType, StoreWriteType DEF InviteMissing
  <2>3. stopAsked' \in [Runs -> SUBSET {"event", "menu"}]
    BY <1>10, <1>3 DEF InviteMissing, ControlType, Told
  <2> QED
    BY <1>10, <1>3, <2>1, <2>2, <2>3 DEF InviteMissing, WorkerType, ControlType,
         LimitType, countVars, gateVars, limitVars
<1>4. CASE InviteAdded(w)
  <2>1. fails' \in [Runs -> Nat] /\ accAdded' \in [Workers -> Nat]
    BY <1>0, <1>10, <1>4 DEF InviteAdded, WorkerType
  <2>2. blocked' \in [Runs -> SUBSET Members] /\ StoreType'
    BY <1>0, <1>4, BlockForType, StoreWriteType DEF InviteAdded
  <2>3. strikes' \in [Copies -> [Phones -> Nat]]
    BY <1>0, <1>10, <1>4 DEF InviteAdded, LimitType
  <2>5. made' \in [Phones -> Nat]
    <3>1. made[PhoneOf(w)] + 1 \in Nat
      BY <1>0, <1>10 DEF LimitType
    <3>2. Owed(PhoneOf(w), Counting(PhoneOf(w)) = {w}, made[PhoneOf(w)] + 1)
      BY <1>4 DEF InviteAdded
    <3> QED
      BY <1>0, <3>1, <3>2, OwedType
  <2>4. LimitType'
    BY <1>11, <1>4, <2>3, <2>5, SetLimitType DEF InviteAdded, LimitType
  <2> QED
    BY <1>10, <1>4, <2>1, <2>2, <2>4 DEF InviteAdded, WorkerType, ControlType, controlVars, gateVars
<1>5. CASE InviteFloodWait(w) \/ ChatForbidden(w)
  <2>1. limitAdded' \in [Phones -> Nat]
    BY <1>11, <1>5, SetLimitType DEF InviteFloodWait, ChatForbidden
  <2> QED
    BY <1>10, <1>5, <2>1 DEF InviteFloodWait, ChatForbidden, WorkerType, ControlType,
         LimitType, StoreType, countVars, controlVars, gateVars, storeVars
<1>6. CASE AlreadyParticipant(w) \/ PeerIdInvalid(w)
  <2>1. blocked' \in [Runs -> SUBSET Members] /\ StoreType'
    BY <1>0, <1>6, BlockForType, StoreWriteType DEF AlreadyParticipant, PeerIdInvalid
  <2> QED
    BY <1>10, <1>6, <2>1 DEF AlreadyParticipant, PeerIdInvalid, WorkerType,
         ControlType, LimitType, countVars, controlVars, gateVars, limitVars
<1>7. CASE PrivacyRestricted(w)
  <2>1. blocked' \in [Runs -> SUBSET Members] /\ StoreType'
    BY <1>0, <1>7, BlockForType, StoreWriteType DEF PrivacyRestricted
  <2>2. fails' \in [Runs -> Nat]
    BY <1>0, <1>10, <1>7 DEF PrivacyRestricted, WorkerType
  <2> QED
    BY <1>10, <1>7, <2>1, <2>2 DEF PrivacyRestricted, WorkerType, ControlType,
         LimitType, countVars, controlVars, gateVars, limitVars
<1>8. CASE TooManyChannels(w)
  <2>1. StoreType'
    BY <1>0, <1>8, StoreWriteType DEF TooManyChannels
  <2> QED
    BY <1>10, <1>8, <2>1 DEF TooManyChannels, WorkerType, ControlType,
         LimitType, countVars, controlVars, gateVars, limitVars
<1>9. CASE InviteError(w)
  BY <1>12, <1>9 DEF InviteError
<1> QED
  BY <1>1, <1>2, <1>3, <1>4, <1>5, <1>6, <1>7, <1>8, <1>9 DEF WorkerStep, AnswerStep

(* What a step does to the cached set and to the exposed jobs. *)
LEMMA WorkerCache ==
  ASSUME TypeInv, NEW w \in Workers, WorkerStep(w)
  PROVE  CacheCurrent' /\ ExposedAtWork'
<1>1. ExposedAtWork'
  <2>1. UNCHANGED <<runVars, exposed>>
    BY DEF WorkerStep, StartStep, LoopStep, TryStep, AnswerStep, NoSession, BeginWorker,
       Connect, TimerFires, LeaveLoop, TakeRefused, Take, CloseWorker, Resolved, Unresolved,
       PeerFlood, ThrottleStopped, SendInvite, InviteMissing, InviteAdded, InviteFloodWait,
       AlreadyParticipant, PrivacyRestricted, PeerIdInvalid, ChatForbidden, TooManyChannels,
       InviteError, controlVars, gateVars
  <2> QED
    BY <2>1 DEF ExposedAtWork, Active, RunsIn, runVars, TypeInv, TypeOK
<1>2. CASE \/ StartStep(w) \/ LoopStep(w) \/ TryStep(w)
           \/ InviteFloodWait(w) \/ ChatForbidden(w) \/ InviteError(w)
  <2>1. UNCHANGED <<blocked, storeVars>>
    BY <1>2 DEF StartStep, LoopStep, TryStep, NoSession, BeginWorker, Connect, TimerFires,
       LeaveLoop, TakeRefused, Take, CloseWorker, Resolved, Unresolved, PeerFlood,
       ThrottleStopped, SendInvite, InviteFloodWait, ChatForbidden, InviteError
  <2> QED
    BY <1>1, <2>1 DEF storeVars, CacheCurrent, TypeInv, TypeOK
<1>3. CASE InviteAdded(w) \/ AlreadyParticipant(w)
  <2>1. BlockFor({RunOf(w), cacheOf}, held[w]) /\ MarkAdded(held[w])
    BY <1>3 DEF InviteAdded, AlreadyParticipant
  <2>2. cacheOf' = cacheOf /\ addedDb' = addedDb \cup {held[w]} /\ doNotAdd' = doNotAdd
    BY <2>1 DEF MarkAdded
  <2>3. ASSUME cacheOf # NoRun
        PROVE  blocked'[cacheOf] = blocked[cacheOf] \cup {held[w]}
    BY <2>1, <2>3 DEF BlockFor, TypeInv, TypeOK, StoreType
  <2> QED
    BY <1>1, <2>2, <2>3 DEF CacheCurrent, TypeInv, TypeOK
<1>4. CASE InviteMissing(w) \/ PrivacyRestricted(w) \/ PeerIdInvalid(w) \/ TooManyChannels(w)
  <2>1. NeverAddAgain(held[w])
    BY <1>4 DEF InviteMissing, PrivacyRestricted, PeerIdInvalid, TooManyChannels
  <2> QED
    BY <1>1, <2>1 DEF NeverAddAgain, CacheCurrent
<1> QED
  BY <1>2, <1>3, <1>4 DEF WorkerStep, AnswerStep

(* What goes on beside the runs: the buttons that clear atk_state, other     *)
(* jobs, other writers of the counts and of the tables.                      *)
Outside ==
  \/ BotStopOp \/ BotHome \/ DialogClears \/ OtherJob \/ CacheStep
  \/ \E p \in Phones : WriteCount(p)

LEMMA OutsideKeeps ==
  ASSUME Outside
  PROVE  UNCHANGED <<runVars, queueVars, blocked, fails, pc, countVars, stopEvent, strikes>>
  BY DEF Outside, BotStopOp, BotHome, DialogClears, ClearAtkState, OtherJob, CacheStep,
     CacheReloaded, MemberLeft, WriteCount, controlVars

(* Every step is of a run, of a worker, the Stop button of the mini app, or  *)
(* beside the runs.                                                          *)
LEMMA NextCases ==
  ASSUME Next
  PROVE  \/ \E r \in Runs : Trigger(r) \/ RunStep(r)
         \/ \E w \in Workers : WorkerStep(w)
         \/ WebStop
         \/ Outside
  BY DEF Next, ButtonStep, Outside

(* The initial state is well typed, and no hand holds anything. *)
LEMMA TypeInit == Init => TypeInv
<1> SUFFICES ASSUME Init PROVE TypeInv
  OBVIOUS
<1>1. TypeOK
  <2>1. RunType /\ ControlType
    BY DEF Init, RunType, ControlType, Copies
  <2>2. queue \in [Runs -> Seq(Members)] /\ held \in [Workers -> Members \cup {NoMember}]
    BY EmptySeq DEF Init
  <2>3. /\ outcome \in [Runs -> [Members -> Results \cup {"none"}]]
        /\ total \in [Runs -> [Results -> Nat]]
    BY DEF Init
  <2>4. pc \in [Workers -> PCs]
    BY DEF Init, PCs
  <2>5. WorkerType
    BY DEF Init, WorkerType
  <2>6. LimitType /\ StoreType
    BY MembersAssumption, BoundsAssumption DEF Init, LimitType, StoreType
  <2> QED
    BY <2>1, <2>2, <2>3, <2>4, <2>5, <2>6 DEF TypeOK, QueueType, CacheCurrent, ExposedAtWork, Init
<1>2. HandsMatch
  BY DEF Init, HandsMatch, Holding
<1>3. Asleep
  BY DEF Init, Asleep
<1> QED
  BY <1>1, <1>2, <1>3 DEF TypeInv

(* A list in any order is a sequence of its members, each there once. *)
LEMMA OrderingsType ==
  ASSUME NEW S \in SUBSET Members, NEW q \in Orderings(S)
  PROVE  /\ q \in Seq(Members) /\ Len(q) = Cardinality(S)
         /\ Cardinality(S) \in Nat
         /\ \A i, j \in 1..Len(q) : q[i] = q[j] => i = j
         /\ \A i \in 1..Len(q) : q[i] \in S
<1>1. IsFiniteSet(S)
  BY MembersAssumption, FS_Subset
<1>5. Cardinality(S) \in Nat
  BY <1>1, FS_CardinalityType
<1>2. q \in [1..Cardinality(S) -> S]
  BY DEF Orderings
<1>3. q \in Seq(S) /\ Len(q) = Cardinality(S)
  BY <1>5, <1>2
<1>4. q \in Seq(Members)
  BY <1>3
<1> QED
  BY <1>2, <1>3, <1>4, <1>5 DEF Orderings

(* Such an order leaves nobody out. *)
LEMMA OrderingsOnto ==
  ASSUME NEW S \in SUBSET Members, NEW q \in Orderings(S), NEW m \in S
  PROVE  \E i \in 1..Len(q) : q[i] = m
<1> DEFINE n == Cardinality(S)
<1>1. IsFiniteSet(S)
  BY MembersAssumption, FS_Subset
<1>2. n \in Nat
  BY <1>1, FS_CardinalityType
<1>3. IsFiniteSet(1..n) /\ Cardinality(1..n) = n
  BY <1>2, FS_Interval
<1>4. q \in [1..n -> S] /\ \A i, j \in 1..n : q[i] = q[j] => i = j
  BY DEF Orderings
<1>5. q \in Injection(1..n, S)
  BY <1>4 DEF Injection, IsInjective
<1>6. q \in Surjection(1..n, S)
  BY <1>1, <1>3, <1>5, FS_Injection
<1> QED
  BY <1>6, OrderingsType DEF Surjection

(* Handing a list over to a task touches the run only. *)
LEMMA ScheduleType ==
  ASSUME TypeInv, NEW r \in Runs, NEW c \in Copies, NEW S \in SUBSET Members,
         NEW A \in SUBSET Phones, Schedule(r, c, S, A)
  PROVE  /\ RunType' /\ QueueType' /\ HandsMatch' /\ Asleep'
         /\ WorkerType' /\ LimitType' /\ StoreType' /\ CacheCurrent' /\ ExposedAtWork'
<1>1. RunType'
  BY DEF Schedule, TypeInv, TypeOK, RunType
<1>2. QueueType' /\ HandsMatch'
  BY DEF Schedule, TypeInv, TypeOK, QueueType, HandsMatch, queueVars
<1>3. WorkerType' /\ LimitType' /\ StoreType'
  BY DEF Schedule, TypeInv, TypeOK, WorkerType, LimitType, StoreType, countVars,
     limitVars, storeVars
<1>4. Asleep'
  BY WorkerParts DEF Schedule, Asleep, TypeInv, TypeOK, RunType
<1>5. CacheCurrent'
  BY DEF Schedule, CacheCurrent, storeVars, TypeInv, TypeOK
<1>6. ExposedAtWork'
  BY DEF Schedule, ExposedAtWork, Active, RunsIn, TypeInv, TypeOK, RunType
<1> QED
  BY <1>1, <1>2, <1>3, <1>4, <1>5, <1>6

(* Starting, launching and ending a run keep the types. *)
LEMMA RunStepType ==
  ASSUME TypeInv, NEW r \in Runs, Trigger(r) \/ RunStep(r)
  PROVE  TypeInv'
<1> USE DEF TypeInv, TypeOK
<1>0. \A w \in Workers : RunOf(w) \in Runs
  BY WorkerParts
<1>1. CASE BotTrigger(r)
  <2>1. PICK F \in Filters, A \in PhoneChoices : Schedule(r, "main", scraped \cap F, A)
    BY <1>1 DEF BotTrigger
  <2>2. scraped \cap F \in SUBSET Members /\ A \in SUBSET Phones /\ "main" \in Copies
    BY PhonesAssumption DEF StoreType, Copies
  <2>3. ControlType'
    BY <1>1, <2>1 DEF BotTrigger, Schedule, ControlType
  <2> QED
    BY <2>1, <2>2, <2>3, ScheduleType
<1>2. CASE WebTriggerParallel(r) \/ WebTriggerSingle(r)
  <2>1. PICK A \in SUBSET Phones, F \in Filters : Schedule(r, "web", WebList(F), A)
    BY <1>2, PhonesAssumption DEF WebTriggerParallel, WebTriggerSingle, WebGate
  <2>2. WebList(F) \in SUBSET Members /\ "web" \in Copies
    BY DEF StoreType, Copies, WebList
  <2>3. ControlType'
    BY <1>2, <2>1 DEF WebTriggerParallel, WebTriggerSingle, WebGate, Schedule, ControlType
  <2> QED
    BY <2>1, <2>2, <2>3, ScheduleType
<1>3. CASE Launch(r)
  <2>1. RunType' /\ LimitType'
    BY <1>3 DEF Launch, RunType, LimitType, limitVars
  <2>2. QueueType' /\ HandsMatch'
    <3>1. PICK q \in Orderings(listed[r]) : queue' = [queue EXCEPT ![r] = q]
      BY <1>3 DEF Launch
    <3>2. q \in Seq(Members)
      BY OrderingsType DEF RunType
    <3>3. queue' \in [Runs -> Seq(Members)]
      BY <3>1, <3>2 DEF QueueType
    <3>4. pc' \in [Workers -> PCs]
      BY <1>3 DEF Launch, QueueType, PCs
    <3>5. \A w \in Workers : (pc'[w] \in Holding) = (pc[w] \in Holding)
      BY <1>3 DEF Launch, Asleep, Holding, QueueType
    <3> QED
      BY <1>3, <3>3, <3>4, <3>5 DEF Launch, QueueType, HandsMatch
  <2>3. WorkerType' /\ StoreType'
    BY <1>3 DEF Launch, WorkerType, StoreType, countVars
  <2>4. ControlType'
    BY <1>3 DEF Launch, ControlType, ClearedEvent, Copies, RunType
  <2>5. Asleep'
    BY <1>0, <1>3 DEF Launch, Asleep, RunType, QueueType
  <2>6. CacheCurrent'
    BY <1>3, RunsAssumption DEF Launch, CacheCurrent, WorkerType
  <2>7. ExposedAtWork'
    BY <1>3 DEF Launch, ExposedAtWork, Active, RunsIn, RunType
  <2> QED
    BY <2>1, <2>2, <2>3, <2>4, <2>5, <2>6, <2>7
<1>4. CASE PrepFails(r) \/ Finish(r)
  <2>1. Over(r)
    BY <1>4 DEF PrepFails, Finish
  <2>2. RunType' /\ ControlType'
    BY <2>1 DEF Over, LowerGate, RunType, ControlType
  <2>3. QueueType' /\ HandsMatch'
    BY <2>1 DEF Over, QueueType, HandsMatch, queueVars
  <2>4. WorkerType' /\ LimitType' /\ StoreType'
    BY <2>1 DEF Over, WorkerType, LimitType, StoreType, limitVars, storeVars
  <2>5. Asleep'
    BY <1>0, <2>1 DEF Over, Asleep, RunType
  <2>6. CacheCurrent'
    BY <2>1 DEF Over, CacheCurrent, storeVars
  <2>7. ExposedAtWork'
    BY <2>1, <1>4 DEF Over, LowerGate, ExposedAtWork, Active, RunsIn, RunType
  <2> QED
    BY <2>2, <2>3, <2>4, <2>5, <2>6, <2>7
<1> QED
  BY <1>1, <1>2, <1>3, <1>4 DEF Trigger, RunStep

(* The buttons and what goes on beside the runs keep the types. *)
LEMMA ButtonType ==
  ASSUME TypeInv, WebStop \/ Outside
  PROVE  TypeInv'
<1> USE DEF TypeInv, TypeOK
<1>1. CASE WebStop
  <2>1. QueueType' /\ HandsMatch'
    <3>1. pc' \in [Workers -> PCs]
      BY <1>1 DEF WebStop, Woken, StoppedAt, QueueType, PCs
    <3>2. \A w \in Workers : (pc'[w] \in Holding) = (pc[w] \in Holding)
      BY <1>1 DEF WebStop, Woken, StoppedAt, QueueType, Waiting, Holding
    <3> QED
      BY <1>1, <3>1, <3>2 DEF WebStop, queueVars, QueueType, HandsMatch
  <2>2. ControlType' /\ ExposedAtWork'
    BY <1>1 DEF WebStop, LowerGate, ControlType, ExposedAtWork, Active, RunsIn, Told, Copies, runVars
  <2>3. Asleep'
    BY <1>1 DEF WebStop, Woken, Waiting, Asleep, runVars, QueueType
  <2> QED
    BY <1>1, <2>1, <2>2, <2>3 DEF WebStop, RunType, WorkerType, LimitType, StoreType, runVars,
       countVars, limitVars, storeVars, CacheCurrent
<1>2. CASE Outside
  <2>1. QueueType' /\ HandsMatch' /\ RunType' /\ Asleep' /\ WorkerType'
    BY <1>2, OutsideKeeps DEF QueueType, HandsMatch, RunType, Asleep, WorkerType, runVars,
       queueVars, countVars
  <2>2. ControlType' /\ ExposedAtWork'
    <3>1. UNCHANGED <<runVars, stopEvent>>
      BY <1>2, OutsideKeeps
    <3>2. CASE BotStopOp \/ BotHome \/ DialogClears \/ OtherJob
      <4>1. /\ addInProgress' \in BOOLEAN
            /\ exposed' \subseteq Active \cap RunsIn("web")
        BY <3>2 DEF BotStopOp, BotHome, DialogClears, ClearAtkState, OtherJob, LowerGate,
           ExposedAtWork
      <4>2. stopFlags' \subseteq {"requested", "parallel"} /\ stopHeld' \subseteq Runs
        BY <3>2 DEF BotStopOp, BotHome, DialogClears, ClearAtkState, OtherJob, ControlType
      <4>3. stopAsked' \in [Runs -> SUBSET {"event", "menu"}]
        BY <3>2 DEF BotStopOp, BotHome, DialogClears, ClearAtkState, OtherJob, ControlType, Told
      <4> QED
        BY <3>1, <4>1, <4>2, <4>3 DEF ControlType, ExposedAtWork, Active, RunsIn, runVars
    <3>3. CASE CacheStep \/ \E p \in Phones : WriteCount(p)
      BY <3>1, <3>3 DEF CacheStep, CacheReloaded, MemberLeft, WriteCount, ControlType,
         ExposedAtWork, Active, RunsIn, runVars, controlVars, gateVars
    <3> QED
      BY <1>2, <3>2, <3>3 DEF Outside
  <2>3. LimitType'
    <3>1. CASE \E p \in Phones : WriteCount(p)
      <4>1. PICK p \in Phones, n \in OtherCounts :
              /\ limitAdded' = [limitAdded EXCEPT ![p] = n]
              /\ Owed(p, Counting(p) = {}, n)
        BY <3>1 DEF WriteCount
      <4>2. n \in Nat
        BY BoundsAssumption
      <4>3. made' \in [Phones -> Nat]
        BY <4>1, <4>2, OwedType
      <4>4. UNCHANGED strikes
        BY <1>2, OutsideKeeps
      <4> QED
        BY <4>1, <4>2, <4>3, <4>4 DEF LimitType
    <3>2. CASE ~\E p \in Phones : WriteCount(p)
      BY <1>2, <3>2 DEF Outside, BotStopOp, BotHome, DialogClears, ClearAtkState, OtherJob,
         CacheStep, CacheReloaded, MemberLeft, LimitType, limitVars
    <3> QED
      BY <3>1, <3>2
  <2>4. StoreType' /\ CacheCurrent'
    <3>1. CASE CacheStep
      BY <3>1, StoreWriteType DEF CacheStep, CacheReloaded, MemberLeft, NeverAddAgain, StoreType,
         CacheCurrent
    <3>2. CASE ~CacheStep
      BY <1>2, <3>2 DEF Outside, BotStopOp, BotHome, DialogClears, ClearAtkState, OtherJob,
         WriteCount, StoreType, CacheCurrent, storeVars
    <3> QED
      BY <3>1, <3>2
  <2> QED
    BY <2>1, <2>2, <2>3, <2>4
<1> QED
  BY <1>1, <1>2

(* Every step keeps the types. *)
LEMMA TypeStep == TypeInv /\ [Next]_vars => TypeInv'
<1> SUFFICES ASSUME TypeInv, [Next]_vars PROVE TypeInv'
  OBVIOUS
<1>1. CASE \E r \in Runs : Trigger(r) \/ RunStep(r)
  BY <1>1, RunStepType
<1>2. CASE \E w \in Workers : WorkerStep(w)
  <2>1. PICK w \in Workers : WorkerStep(w)
    BY <1>2
  <2>2. UNCHANGED runVars /\ pc[w] # "off" /\ PcStep(w) /\ Kinds(w)
    BY <2>1, WorkerKinds
  <2>3. RunType'
    BY <2>2 DEF runVars, RunType, TypeInv, TypeOK
  <2>4. QueueType' /\ HandsMatch'
    BY <2>2, KindsType
  <2>5. Asleep'
    BY <2>2 DEF runVars, PcStep, Asleep, TypeInv
  <2> QED
    BY <2>1, <2>3, <2>4, <2>5, WorkerDataType, WorkerCache DEF TypeInv, TypeOK
<1>3. CASE WebStop \/ Outside
  BY <1>3, ButtonType
<1>4. CASE UNCHANGED vars
  BY <1>4 DEF vars, TypeInv, TypeOK, RunType, QueueType, WorkerType, ControlType,
     LimitType, StoreType, CacheCurrent, ExposedAtWork, Active, RunsIn, HandsMatch, Asleep,
     runVars, queueVars, countVars, controlVars, gateVars, limitVars, storeVars
<1> QED
  BY <1>1, <1>2, <1>3, <1>4, NextCases

LEMMA TypeAlways == Spec => []TypeInv
  BY TypeInit, TypeStep, PTL DEF Spec

(* Every variable of the engine keeps its type, and the cached blocked set   *)
(* stays exactly added_history_tbl with do_not_add_tbl, for any accounts,    *)
(* members and runs.                                                         *)
THEOREM TypeCorrect == Spec => []TypeOK
<1>1. TypeInv => TypeOK
  BY DEF TypeInv
<1> QED
  BY <1>1, TypeAlways, PTL

-----------------------------------------------------------------------------
(* Placement: nobody is lost and nobody is tried twice at once *)

(* What Tail does, position by position. *)
LEMMA TailAt ==
  ASSUME NEW S, NEW s \in Seq(S), s # <<>>
  PROVE  /\ Len(s) \in Nat /\ Len(s) > 0 /\ Len(Tail(s)) = Len(s) - 1
         /\ Head(s) = s[1]
         /\ \A i \in 1..Len(Tail(s)) : i + 1 \in 1..Len(s) /\ Tail(s)[i] = s[i + 1]
  OBVIOUS

(* A worker that runs has left its run's fresh state behind. *)
LEMMA FreshKept ==
  ASSUME TypeInv, Placement, NEW w \in Workers, UNCHANGED runVars, pc[w] # "off",
         PcStep(w), Kinds(w)
  PROVE  Fresh'
<1> SUFFICES ASSUME NEW r \in Runs, phase'[r] \in {"idle", "scheduled"}
             PROVE  /\ queue'[r] = <<>> /\ \A m \in Members : outcome'[r][m] = "none"
                    /\ \A v \in WorkersOf(r) : pc'[v] = "off"
  BY DEF Fresh, WorkersOf
<1>1. /\ queue[r] = <<>> /\ \A m \in Members : outcome[r][m] = "none"
      /\ \A v \in WorkersOf(r) : pc[v] = "off"
  BY DEF Placement, Fresh, runVars
<1>2. RunOf(w) # r
  BY <1>1 DEF WorkersOf
<1>3. queue'[r] = queue[r] /\ outcome'[r] = outcome[r]
  <2> USE <1>2 DEF TypeInv, TypeOK, QueueType
  <2>1. CASE KeepKind(w)
    BY <2>1 DEF KeepKind, queueVars
  <2>2. CASE SettleKind(w)
    BY <2>2 DEF SettleKind, Settle
  <2>3. CASE RequeueKind(w)
    BY <2>3 DEF RequeueKind, Requeue
  <2>4. CASE TakeKind(w) \/ RefuseKind(w)
    BY <2>4 DEF TakeKind, RefuseKind
  <2> QED
    BY <2>1, <2>2, <2>3, <2>4 DEF Kinds
<1>4. \A v \in WorkersOf(r) : pc'[v] = "off"
  BY <1>1, <1>2 DEF PcStep, WorkersOf
<1> QED
  BY <1>1, <1>3, <1>4

(* The parts of Placement that speak of queues, hands and results. *)
Placed == HeldOnce /\ QueuedOnce /\ QueuedUntouched /\ HeldUnsettled /\ NobodyLost

(* Booking a result takes the member out of the hand for good. *)
LEMMA SettlePlaced ==
  ASSUME TypeInv, Placed, NEW w \in Workers, UNCHANGED runVars, SettleKind(w)
  PROVE  Placed'
<1> DEFINE r == RunOf(w)
           m == held[w]
<1>1. PICK o \in Results : Settle(w, o)
  BY DEF SettleKind
<1>2. r \in Runs /\ m \in Members /\ m # NoMember
  BY WorkerParts, HoldingMember, MembersAssumption DEF SettleKind
<1>3. /\ queue' = queue /\ listed' = listed /\ phase' = phase
      /\ held' = [held EXCEPT ![w] = NoMember]
      /\ outcome' = [outcome EXCEPT ![r][m] = o]
  BY <1>1 DEF Settle, runVars
<1>4. held \in [Workers -> Members \cup {NoMember}]
      /\ outcome \in [Runs -> [Members -> Results \cup {"none"}]]
  BY DEF TypeInv, TypeOK, QueueType
<1>5. HeldOnce'
  BY <1>3, <1>4 DEF Placed, HeldOnce
<1>6. QueuedOnce'
  BY <1>3 DEF Placed, QueuedOnce
<1>7. QueuedUntouched'
  <2> SUFFICES ASSUME NEW s \in Runs, NEW i \in 1..Len(queue[s])
               PROVE  /\ queue[s][i] \in listed[s] /\ outcome'[s][queue[s][i]] = "none"
                      /\ ~InHand(s, queue[s][i])'
    BY <1>3 DEF QueuedUntouched
  <2>1. /\ queue[s][i] \in listed[s] /\ outcome[s][queue[s][i]] = "none"
        /\ ~InHand(s, queue[s][i])
    BY DEF Placed, QueuedUntouched
  <2>2. s = r => queue[s][i] # m
    BY <2>1 DEF InHand
  <2>3. ~InHand(s, queue[s][i])'
    <3> SUFFICES ASSUME NEW v \in Workers, RunOf(v) = s, held'[v] = queue[s][i] PROVE FALSE
      BY <1>3 DEF InHand
    <3>1. queue[s][i] \in Members
      BY <2>1 DEF TypeInv, TypeOK, RunType
    <3>2. held[v] = queue[s][i]
      BY <1>3, <1>4, <3>1, MembersAssumption
    <3> QED
      BY <2>1, <3>2 DEF InHand
  <2>4. outcome'[s][queue[s][i]] = "none"
    BY <1>2, <1>3, <1>4, <2>1, <2>2
  <2> QED
    BY <2>1, <2>3, <2>4
<1>8. HeldUnsettled'
  <2> SUFFICES ASSUME NEW v \in Workers, held'[v] # NoMember
               PROVE  /\ held'[v] \in listed[RunOf(v)]
                      /\ outcome'[RunOf(v)][held'[v]] = "none"
    BY <1>3 DEF HeldUnsettled
  <2>1. v # w /\ held'[v] = held[v]
    BY <1>3, <1>4
  <2>2. held[v] \in listed[RunOf(v)] /\ outcome[RunOf(v)][held[v]] = "none"
    BY <2>1 DEF Placed, HeldUnsettled
  <2>3. RunOf(v) = r => held[v] # m
    BY <1>2, <2>1 DEF Placed, HeldOnce
  <2>4. RunOf(v) \in Runs
    BY WorkerParts
  <2> QED
    BY <1>2, <1>3, <1>4, <2>1, <2>2, <2>3, <2>4
<1>9. NobodyLost'
  <2> SUFFICES ASSUME NEW s \in Runs, phase[s] = "running", NEW x \in listed[s]
               PROVE  outcome'[s][x] # "none" \/ InQueue(s, x) \/ InHand(s, x)'
    BY <1>3 DEF NobodyLost, InQueue
  <2>1. outcome[s][x] # "none" \/ InQueue(s, x) \/ InHand(s, x)
    BY DEF Placed, NobodyLost
  <2>2. x \in Members
    BY DEF TypeInv, TypeOK, RunType
  <2>3. CASE outcome[s][x] # "none"
    BY <1>2, <1>3, <1>4, <2>2, <2>3 DEF Results
  <2>4. CASE InHand(s, x)
    <3>1. PICK v \in Workers : RunOf(v) = s /\ held[v] = x
      BY <2>4 DEF InHand
    <3>2. CASE v = w
      BY <1>2, <1>3, <1>4, <3>1, <3>2 DEF Results
    <3>3. CASE v # w
      BY <1>3, <1>4, <3>1, <3>3 DEF InHand
    <3> QED
      BY <3>2, <3>3
  <2> QED
    BY <2>1, <2>3, <2>4
<1> QED
  BY <1>5, <1>6, <1>7, <1>8, <1>9 DEF Placed

(* Giving a member back puts it at the end of the queue. *)
LEMMA RequeuePlaced ==
  ASSUME TypeInv, Placed, NEW w \in Workers, UNCHANGED runVars, RequeueKind(w)
  PROVE  Placed'
<1> DEFINE r == RunOf(w)
           m == held[w]
<1>1. r \in Runs /\ m \in Members /\ m # NoMember
  BY WorkerParts, HoldingMember, MembersAssumption DEF RequeueKind
<1>2. /\ listed' = listed /\ phase' = phase /\ outcome' = outcome
      /\ held' = [held EXCEPT ![w] = NoMember]
      /\ queue' = [queue EXCEPT ![r] = Append(@, m)]
  BY DEF RequeueKind, Requeue, runVars
<1>3. /\ held \in [Workers -> Members \cup {NoMember}]
      /\ queue \in [Runs -> Seq(Members)]
  BY DEF TypeInv, TypeOK, QueueType
<1>4. /\ Len(queue[r]) \in Nat /\ Len(queue'[r]) = Len(queue[r]) + 1
      /\ \A i \in 1..Len(queue[r]) : queue'[r][i] = queue[r][i]
      /\ queue'[r][Len(queue[r]) + 1] = m
  BY <1>1, <1>2, <1>3, AppendProperties
<1>5. \A s \in Runs \ {r} : queue'[s] = queue[s]
  BY <1>2, <1>3
<1>6. m \in listed[r] /\ outcome[r][m] = "none" /\ InHand(r, m)
  BY <1>1 DEF Placed, HeldUnsettled, InHand
<1>7. \A v \in Workers : v # w => held'[v] = held[v]
  BY <1>2, <1>3
<1>8. HeldOnce'
  BY <1>2, <1>3 DEF Placed, HeldOnce
<1>9. \A i \in 1..Len(queue[r]) : queue[r][i] # m
  BY <1>1, <1>6 DEF Placed, QueuedUntouched
<1>10. QueuedOnce'
  <2> SUFFICES ASSUME NEW s \in Runs, NEW i \in 1..Len(queue'[s]),
                      NEW j \in 1..Len(queue'[s]), queue'[s][i] = queue'[s][j]
               PROVE  i = j
    BY DEF QueuedOnce
  <2>1. CASE s # r
    BY <1>5, <2>1 DEF Placed, QueuedOnce
  <2>2. CASE s = r
    <3>1. CASE i \in 1..Len(queue[r]) /\ j \in 1..Len(queue[r])
      BY <1>1, <1>4, <2>2, <3>1 DEF Placed, QueuedOnce
    <3>2. CASE i = Len(queue[r]) + 1 \/ j = Len(queue[r]) + 1
      BY <1>4, <1>9, <2>2, <3>2
    <3> QED
      BY <1>4, <2>2, <3>1, <3>2
  <2> QED
    BY <2>1, <2>2
<1>11. QueuedUntouched'
  <2> SUFFICES ASSUME NEW s \in Runs, NEW i \in 1..Len(queue'[s])
               PROVE  /\ queue'[s][i] \in listed[s] /\ outcome[s][queue'[s][i]] = "none"
                      /\ \A v \in Workers : RunOf(v) = s => held'[v] # queue'[s][i]
    BY <1>2 DEF QueuedUntouched, InHand
  <2>1. CASE s = r /\ i = Len(queue[r]) + 1
    <3>1. queue'[s][i] = m
      BY <1>4, <2>1
    <3>2. \A v \in Workers : RunOf(v) = s => held'[v] # m
      BY <1>1, <1>2, <1>3, <1>7, <2>1 DEF Placed, HeldOnce
    <3> QED
      BY <1>6, <2>1, <3>1, <3>2
  <2>2. CASE ~(s = r /\ i = Len(queue[r]) + 1)
    <3>1. i \in 1..Len(queue[s]) /\ queue'[s][i] = queue[s][i]
      BY <1>4, <1>5, <2>2
    <3>2. /\ queue[s][i] \in listed[s] /\ outcome[s][queue[s][i]] = "none"
          /\ ~InHand(s, queue[s][i])
      BY <3>1 DEF Placed, QueuedUntouched
    <3>3. queue[s][i] \in Members
      BY <3>2 DEF TypeInv, TypeOK, RunType
    <3>4. \A v \in Workers : RunOf(v) = s => held'[v] # queue[s][i]
      BY <1>2, <1>3, <1>7, <3>2, <3>3, MembersAssumption DEF InHand
    <3> QED
      BY <3>1, <3>2, <3>4
  <2> QED
    BY <2>1, <2>2
<1>12. HeldUnsettled'
  BY <1>2, <1>3, <1>7 DEF Placed, HeldUnsettled
<1>13. NobodyLost'
  <2> SUFFICES ASSUME NEW s \in Runs, phase[s] = "running", NEW x \in listed[s],
                      outcome[s][x] = "none"
               PROVE  InQueue(s, x)' \/ InHand(s, x)'
    BY <1>2 DEF NobodyLost
  <2>1. InQueue(s, x) \/ InHand(s, x)
    BY DEF Placed, NobodyLost
  <2>2. CASE InQueue(s, x)
    <3>1. PICK i \in 1..Len(queue[s]) : queue[s][i] = x
      BY <2>2 DEF InQueue
    <3>2. i \in 1..Len(queue'[s]) /\ queue'[s][i] = x
      BY <1>4, <1>5, <3>1
    <3> QED
      BY <3>2 DEF InQueue
  <2>3. CASE InHand(s, x)
    <3>1. PICK v \in Workers : RunOf(v) = s /\ held[v] = x
      BY <2>3 DEF InHand
    <3>2. CASE v = w
      <4>1. Len(queue[r]) + 1 \in 1..Len(queue'[s]) /\ queue'[s][Len(queue[r]) + 1] = x
        BY <1>4, <3>1, <3>2
      <4> QED
        BY <4>1 DEF InQueue
    <3>3. CASE v # w
      BY <1>7, <3>1, <3>3 DEF InHand
    <3> QED
      BY <3>2, <3>3
  <2> QED
    BY <2>1, <2>2, <2>3
<1> QED
  BY <1>8, <1>10, <1>11, <1>12, <1>13 DEF Placed

(* When the head leaves the queue it was untouched, and the rest stays as    *)
(* it was.                                                                   *)
LEMMA HeadLeaves ==
  ASSUME TypeInv, Placed, NEW r \in Runs, queue[r] # <<>>,
         queue' = [queue EXCEPT ![r] = Tail(@)]
  PROVE  LET m == Head(queue[r])
         IN  /\ m \in listed[r] /\ outcome[r][m] = "none" /\ m \in Members
             /\ \A v \in Workers : RunOf(v) = r => held[v] # m
             /\ QueuedOnce'
             /\ \A s \in Runs : \A i \in 1..Len(queue'[s]) :
                  \E k \in 1..Len(queue[s]) :
                    queue'[s][i] = queue[s][k] /\ (s = r => queue[s][k] # m)
             /\ \A s \in Runs : \A x \in Members :
                  InQueue(s, x) => InQueue(s, x)' \/ (s = r /\ x = m)
<1> DEFINE m == Head(queue[r])
<1>1. queue \in [Runs -> Seq(Members)]
  BY DEF TypeInv, TypeOK, QueueType
<1>2. /\ Len(queue[r]) \in Nat /\ Len(queue[r]) > 0 /\ m = queue[r][1]
      /\ queue'[r] = Tail(queue[r]) /\ Len(queue'[r]) = Len(queue[r]) - 1
      /\ \A i \in 1..Len(queue'[r]) : i + 1 \in 1..Len(queue[r]) /\ queue'[r][i] = queue[r][i + 1]
  BY <1>1, TailAt
<1>3. \A s \in Runs \ {r} : queue'[s] = queue[s]
  BY <1>1
<1>4. 1 \in 1..Len(queue[r])
  BY <1>2
<1>5. /\ m \in listed[r] /\ outcome[r][m] = "none"
      /\ \A v \in Workers : RunOf(v) = r => held[v] # m
  BY <1>2, <1>4 DEF Placed, QueuedUntouched, InHand
<1>6. m \in Members
  BY <1>5 DEF TypeInv, TypeOK, RunType
<1>7. \A k \in 1..Len(queue[r]) : k # 1 => queue[r][k] # m
  BY <1>2, <1>4 DEF Placed, QueuedOnce
<1>8. QueuedOnce'
  <2> SUFFICES ASSUME NEW s \in Runs, NEW i \in 1..Len(queue'[s]),
                      NEW j \in 1..Len(queue'[s]), queue'[s][i] = queue'[s][j]
               PROVE  i = j
    BY DEF QueuedOnce
  <2>1. CASE s # r
    BY <1>3, <2>1 DEF Placed, QueuedOnce
  <2>2. CASE s = r
    <3>1. /\ i + 1 \in 1..Len(queue[r]) /\ j + 1 \in 1..Len(queue[r])
          /\ queue[r][i + 1] = queue[r][j + 1]
      BY <1>2, <2>2
    <3>2. i + 1 = j + 1
      BY <3>1 DEF Placed, QueuedOnce
    <3> QED
      BY <1>2, <2>2, <3>2
  <2> QED
    BY <2>1, <2>2
<1>9. ASSUME NEW s \in Runs, NEW i \in 1..Len(queue'[s])
      PROVE  \E k \in 1..Len(queue[s]) :
               queue'[s][i] = queue[s][k] /\ (s = r => queue[s][k] # m)
  <2>1. CASE s # r
    BY <1>3, <2>1
  <2>2. CASE s = r
    <3>1. i + 1 \in 1..Len(queue[r]) /\ i + 1 # 1 /\ queue'[r][i] = queue[r][i + 1]
      BY <1>2, <2>2
    <3> QED
      BY <1>7, <2>2, <3>1
  <2> QED
    BY <2>1, <2>2
<1>10. ASSUME NEW s \in Runs, NEW x \in Members, InQueue(s, x)
       PROVE  InQueue(s, x)' \/ (s = r /\ x = m)
  <2>1. PICK k \in 1..Len(queue[s]) : queue[s][k] = x
    BY <1>10 DEF InQueue
  <2>2. CASE s # r
    BY <1>3, <2>1, <2>2 DEF InQueue
  <2>3. CASE s = r /\ k = 1
    BY <1>2, <2>1, <2>3
  <2>4. CASE s = r /\ k # 1
    <3>1. k - 1 \in 1..Len(queue'[r]) /\ queue'[r][k - 1] = queue[r][(k - 1) + 1]
      BY <1>2, <2>4
    <3>2. queue'[s][k - 1] = x /\ k - 1 \in 1..Len(queue'[s])
      BY <2>1, <2>4, <3>1
    <3> QED
      BY <3>2 DEF InQueue
  <2> QED
    BY <2>2, <2>3, <2>4
<1> QED
  BY <1>5, <1>6, <1>8, <1>9, <1>10

(* Taking the head of the queue puts it in the worker's hand. *)
LEMMA TakePlaced ==
  ASSUME TypeInv, Placed, NEW w \in Workers, UNCHANGED runVars, TakeKind(w)
  PROVE  Placed'
<1> DEFINE r == RunOf(w)
           m == Head(queue[r])
<1>1. r \in Runs /\ held[w] = NoMember
  BY WorkerParts DEF TakeKind, TypeInv, HandsMatch
<1>2. /\ listed' = listed /\ phase' = phase /\ outcome' = outcome
      /\ queue[r] # <<>> /\ queue' = [queue EXCEPT ![r] = Tail(@)]
  BY DEF TakeKind, runVars
<1>3. held'[w] = m /\ \A v \in Workers : v # w => held'[v] = held[v]
  BY DEF TakeKind, TypeInv, TypeOK, QueueType
<1>4. /\ m \in listed[r] /\ outcome[r][m] = "none" /\ m \in Members
      /\ \A v \in Workers : RunOf(v) = r => held[v] # m
      /\ QueuedOnce'
  BY <1>1, <1>2, HeadLeaves
<1>5. HeldOnce'
  BY <1>3, <1>4 DEF Placed, HeldOnce
<1>6. QueuedUntouched'
  <2> SUFFICES ASSUME NEW s \in Runs, NEW i \in 1..Len(queue'[s])
               PROVE  /\ queue'[s][i] \in listed[s] /\ outcome[s][queue'[s][i]] = "none"
                      /\ \A v \in Workers : RunOf(v) = s => held'[v] # queue'[s][i]
    BY <1>2 DEF QueuedUntouched, InHand
  <2>1. \A t \in Runs : \A j \in 1..Len(queue'[t]) :
          \E k \in 1..Len(queue[t]) :
            queue'[t][j] = queue[t][k] /\ (t = r => queue[t][k] # m)
    BY <1>1, <1>2, HeadLeaves
  <2>2. PICK k \in 1..Len(queue[s]) :
          queue'[s][i] = queue[s][k] /\ (s = r => queue[s][k] # m)
    BY <2>1
  <2>3. /\ queue[s][k] \in listed[s] /\ outcome[s][queue[s][k]] = "none"
        /\ \A v \in Workers : RunOf(v) = s => held[v] # queue[s][k]
    BY DEF Placed, QueuedUntouched, InHand
  <2> QED
    BY <1>3, <2>2, <2>3
<1>7. HeldUnsettled'
  <2> SUFFICES ASSUME NEW v \in Workers, held'[v] # NoMember
               PROVE  held'[v] \in listed[RunOf(v)] /\ outcome[RunOf(v)][held'[v]] = "none"
    BY <1>2 DEF HeldUnsettled
  <2> QED
    BY <1>3, <1>4 DEF Placed, HeldUnsettled
<1>8. NobodyLost'
  <2> SUFFICES ASSUME NEW s \in Runs, phase[s] = "running", NEW x \in listed[s],
                      outcome[s][x] = "none"
               PROVE  InQueue(s, x)' \/ InHand(s, x)'
    BY <1>2 DEF NobodyLost
  <2>1. x \in Members
    BY DEF TypeInv, TypeOK, RunType
  <2>2. InQueue(s, x) \/ InHand(s, x)
    BY DEF Placed, NobodyLost
  <2>3. CASE InQueue(s, x)
    <3>1. InQueue(s, x)' \/ (s = r /\ x = m)
      BY <1>1, <1>2, <2>1, <2>3, HeadLeaves
    <3> QED
      BY <1>3, <3>1 DEF InHand
  <2>4. CASE InHand(s, x)
    <3>1. PICK v \in Workers : RunOf(v) = s /\ held[v] = x
      BY <2>4 DEF InHand
    <3>2. x # NoMember
      BY <2>1, MembersAssumption
    <3> QED
      BY <1>1, <1>3, <3>1, <3>2 DEF InHand
  <2> QED
    BY <2>2, <2>3, <2>4
<1> QED
  BY <1>4, <1>5, <1>6, <1>7, <1>8 DEF Placed

(* A refused head is booked at once. *)
LEMMA RefusePlaced ==
  ASSUME TypeInv, Placed, NEW w \in Workers, UNCHANGED runVars, RefuseKind(w)
  PROVE  Placed'
<1> DEFINE r == RunOf(w)
           m == Head(queue[r])
<1>1. r \in Runs
  BY WorkerParts
<1>2. /\ listed' = listed /\ phase' = phase /\ held' = held
      /\ queue[r] # <<>> /\ queue' = [queue EXCEPT ![r] = Tail(@)]
  BY DEF RefuseKind, runVars
<1>3. /\ m \in listed[r] /\ outcome[r][m] = "none" /\ m \in Members
      /\ \A v \in Workers : RunOf(v) = r => held[v] # m
      /\ QueuedOnce'
  BY <1>1, <1>2, HeadLeaves
<1>4. /\ outcome'[r][m] = "skipped"
      /\ \A s \in Runs : \A x \in Members : (s # r \/ x # m) => outcome'[s][x] = outcome[s][x]
  BY <1>1, <1>3 DEF RefuseKind, TypeInv, TypeOK, QueueType
<1>5. HeldOnce'
  BY <1>2 DEF Placed, HeldOnce
<1>6. QueuedUntouched'
  <2> SUFFICES ASSUME NEW s \in Runs, NEW i \in 1..Len(queue'[s])
               PROVE  /\ queue'[s][i] \in listed[s] /\ outcome'[s][queue'[s][i]] = "none"
                      /\ \A v \in Workers : RunOf(v) = s => held[v] # queue'[s][i]
    BY <1>2 DEF QueuedUntouched, InHand
  <2>1. \A t \in Runs : \A j \in 1..Len(queue'[t]) :
          \E k \in 1..Len(queue[t]) :
            queue'[t][j] = queue[t][k] /\ (t = r => queue[t][k] # m)
    BY <1>1, <1>2, HeadLeaves
  <2>2. PICK k \in 1..Len(queue[s]) :
          queue'[s][i] = queue[s][k] /\ (s = r => queue[s][k] # m)
    BY <2>1
  <2>3. /\ queue[s][k] \in listed[s] /\ outcome[s][queue[s][k]] = "none"
        /\ \A v \in Workers : RunOf(v) = s => held[v] # queue[s][k]
    BY DEF Placed, QueuedUntouched, InHand
  <2>4. queue[s][k] \in Members
    BY <2>3 DEF TypeInv, TypeOK, RunType
  <2> QED
    BY <1>4, <2>2, <2>3, <2>4
<1>7. HeldUnsettled'
  <2> SUFFICES ASSUME NEW v \in Workers, held[v] # NoMember
               PROVE  held[v] \in listed[RunOf(v)] /\ outcome'[RunOf(v)][held[v]] = "none"
    BY <1>2 DEF HeldUnsettled
  <2>1. held[v] \in listed[RunOf(v)] /\ outcome[RunOf(v)][held[v]] = "none"
    BY DEF Placed, HeldUnsettled
  <2>2. RunOf(v) \in Runs /\ held[v] \in Members
    BY <2>1, WorkerParts DEF TypeInv, TypeOK, RunType
  <2> QED
    BY <1>3, <1>4, <2>1, <2>2
<1>8. NobodyLost'
  <2> SUFFICES ASSUME NEW s \in Runs, phase[s] = "running", NEW x \in listed[s]
               PROVE  outcome'[s][x] # "none" \/ InQueue(s, x)' \/ InHand(s, x)
    BY <1>2 DEF NobodyLost, InHand
  <2>1. x \in Members
    BY DEF TypeInv, TypeOK, RunType
  <2>2. outcome[s][x] # "none" \/ InQueue(s, x) \/ InHand(s, x)
    BY DEF Placed, NobodyLost
  <2>3. CASE s = r /\ x = m
    BY <1>4, <2>3
  <2>4. CASE ~(s = r /\ x = m)
    <3>1. InQueue(s, x) => InQueue(s, x)'
      BY <1>1, <1>2, <2>1, <2>4, HeadLeaves
    <3> QED
      BY <1>4, <2>1, <2>2, <2>4, <3>1
  <2> QED
    BY <2>3, <2>4
<1> QED
  BY <1>3, <1>5, <1>6, <1>7, <1>8 DEF Placed

(* Nothing moves when a step leaves queues, hands and results alone; a list  *)
(* may only be replaced where nothing is queued, held or running.            *)
LEMMA StillPlaced ==
  ASSUME Placed, UNCHANGED <<queue, outcome, held>>,
         \A r \in Runs : phase'[r] = "running" => phase[r] = "running",
         \A r \in Runs : \/ listed'[r] = listed[r]
                         \/ /\ queue[r] = <<>> /\ phase'[r] # "running"
                            /\ \A w \in Workers : RunOf(w) = r => held[w] = NoMember
  PROVE  Placed'
<1>1. HeldOnce' /\ QueuedOnce'
  BY DEF Placed, HeldOnce, QueuedOnce
<1>2. QueuedUntouched'
  <2> SUFFICES ASSUME NEW r \in Runs, NEW i \in 1..Len(queue[r])
               PROVE  /\ queue[r][i] \in listed'[r] /\ outcome[r][queue[r][i]] = "none"
                      /\ ~InHand(r, queue[r][i])
    BY DEF QueuedUntouched, InHand
  <2>1. queue[r] # <<>>
    OBVIOUS
  <2> QED
    BY <2>1 DEF Placed, QueuedUntouched
<1>3. HeldUnsettled'
  BY WorkerParts DEF Placed, HeldUnsettled
<1>4. NobodyLost'
  BY DEF Placed, NobodyLost, InQueue, InHand
<1> QED
  BY <1>1, <1>2, <1>3, <1>4 DEF Placed

(* Before its launch a run has nobody queued, booked or held. *)
LEMMA Untouched ==
  ASSUME TypeInv, Placement, NEW r \in Runs, phase[r] \in {"idle", "scheduled"}
  PROVE  /\ queue[r] = <<>> /\ \A m \in Members : outcome[r][m] = "none"
         /\ \A w \in Workers : RunOf(w) = r => pc[w] = "off" /\ held[w] = NoMember
  BY DEF Placement, Fresh, WorkersOf, HandsMatch, Holding

(* A trigger only hands over a list. *)
LEMMA SchedulePlacement ==
  ASSUME TypeInv, Placement, NEW r \in Runs, NEW c \in Copies, NEW S \in SUBSET Members,
         NEW A \in SUBSET Phones, Schedule(r, c, S, A)
  PROVE  Fresh' /\ Placed'
<1>1. /\ phase[r] = "idle" /\ phase' = [phase EXCEPT ![r] = "scheduled"]
      /\ listed' = [listed EXCEPT ![r] = S \ IdOnly]
      /\ UNCHANGED <<queue, outcome, held, pc>>
  BY DEF Schedule, queueVars
<1>2. /\ phase \in [Runs -> {"idle", "scheduled", "running", "finished"}]
      /\ listed \in [Runs -> SUBSET Members]
  BY DEF TypeInv, TypeOK, RunType
<1>3. Fresh'
  BY <1>1, <1>2 DEF Placement, Fresh
<1>4. queue[r] = <<>> /\ \A w \in Workers : RunOf(w) = r => held[w] = NoMember
  BY <1>1, Untouched
<1>5. Placed
  BY DEF Placed, Placement
<1>6. /\ phase'[r] # "running"
      /\ \A s \in Runs \ {r} : phase'[s] = phase[s] /\ listed'[s] = listed[s]
  BY <1>1, <1>2
<1>7. \A s \in Runs : phase'[s] = "running" => phase[s] = "running"
  BY <1>6
<1>8. \A s \in Runs : \/ listed'[s] = listed[s]
                      \/ /\ queue[s] = <<>> /\ phase'[s] # "running"
                         /\ \A w \in Workers : RunOf(w) = s => held[w] = NoMember
  BY <1>4, <1>6
<1>9. Placed'
  BY <1>1, <1>5, <1>7, <1>8, StillPlaced
<1> QED
  BY <1>3, <1>9

(* The launch puts everybody on the list into the queue, once. *)
LEMMA LaunchPlacement ==
  ASSUME TypeInv, Placement, NEW r \in Runs, Launch(r)
  PROVE  Fresh' /\ Placed'
<1>1. PICK q \in Orderings(listed[r]) : queue' = [queue EXCEPT ![r] = q]
  BY DEF Launch
<1>2. /\ phase[r] = "scheduled" /\ phase' = [phase EXCEPT ![r] = "running"]
      /\ UNCHANGED <<listed, outcome, held>>
      /\ pc' = [w \in Workers |-> IF RunOf(w) = r /\ PhoneOf(w) \in accs[r]
                                  THEN "new" ELSE pc[w]]
  BY DEF Launch
<1>3. /\ phase \in [Runs -> {"idle", "scheduled", "running", "finished"}]
      /\ queue \in [Runs -> Seq(Members)]
      /\ listed[r] \in SUBSET Members
  BY DEF TypeInv, TypeOK, RunType, QueueType
<1>4. /\ \A m \in Members : outcome[r][m] = "none"
      /\ \A w \in Workers : RunOf(w) = r => held[w] = NoMember
  BY <1>2, Untouched
<1>5. /\ Len(q) \in Nat
      /\ \A i, j \in 1..Len(q) : q[i] = q[j] => i = j
      /\ \A i \in 1..Len(q) : q[i] \in listed[r]
  BY <1>3, OrderingsType
<1>6. queue'[r] = q /\ \A s \in Runs \ {r} : queue'[s] = queue[s] /\ phase'[s] = phase[s]
  BY <1>1, <1>2, <1>3
<1>7. Fresh'
  BY <1>2, <1>3, <1>6 DEF Placement, Fresh, WorkersOf
<1>8. HeldOnce' /\ HeldUnsettled'
  BY <1>2 DEF Placement, HeldOnce, HeldUnsettled
<1>9. QueuedOnce'
  BY <1>5, <1>6 DEF Placement, QueuedOnce
<1>10. QueuedUntouched'
  <2> SUFFICES ASSUME NEW s \in Runs, NEW i \in 1..Len(queue'[s])
               PROVE  /\ queue'[s][i] \in listed[s] /\ outcome[s][queue'[s][i]] = "none"
                      /\ \A w \in Workers : RunOf(w) = s => held[w] # queue'[s][i]
    BY <1>2 DEF QueuedUntouched, InHand
  <2>1. CASE s = r
    <3>1. queue'[s][i] \in listed[r]
      BY <1>5, <1>6, <2>1
    <3> QED
      BY <1>3, <1>4, <2>1, <3>1, MembersAssumption
  <2>2. CASE s # r
    BY <1>6, <2>2 DEF Placement, QueuedUntouched, InHand
  <2> QED
    BY <2>1, <2>2
<1>11. NobodyLost'
  <2> SUFFICES ASSUME NEW s \in Runs, phase'[s] = "running", NEW m \in listed[s]
               PROVE  outcome[s][m] # "none" \/ InQueue(s, m)' \/ InHand(s, m)
    BY <1>2 DEF NobodyLost, InHand
  <2>1. CASE s = r
    <3>1. \E i \in 1..Len(q) : q[i] = m
      BY <1>3, <2>1, OrderingsOnto
    <3> QED
      BY <1>6, <2>1, <3>1 DEF InQueue
  <2>2. CASE s # r
    BY <1>6, <2>2 DEF Placement, NobodyLost, InQueue
  <2> QED
    BY <2>1, <2>2
<1> QED
  BY <1>7, <1>8, <1>9, <1>10, <1>11 DEF Placed

LEMMA PlacementParts == TypeInv => (Placement <=> Fresh /\ Placed)
  BY DEF TypeInv, Placement, Placed

(* A step of a worker, by its kind. *)
LEMMA WorkerPlacement ==
  ASSUME TypeInv, Placement, NEW w \in Workers, WorkerStep(w)
  PROVE  Fresh' /\ Placed'
<1>1. UNCHANGED runVars /\ pc[w] # "off" /\ PcStep(w) /\ Kinds(w)
  BY WorkerKinds
<1>2. Fresh'
  BY <1>1, FreshKept
<1>3. Placed
  BY PlacementParts
<1>4. CASE KeepKind(w)
  BY <1>1, <1>2, <1>3, <1>4, StillPlaced DEF KeepKind, queueVars, runVars
<1>5. CASE SettleKind(w)
  BY <1>1, <1>2, <1>3, <1>5, SettlePlaced
<1>6. CASE RequeueKind(w)
  BY <1>1, <1>2, <1>3, <1>6, RequeuePlaced
<1>7. CASE TakeKind(w)
  BY <1>1, <1>2, <1>3, <1>7, TakePlaced
<1>8. CASE RefuseKind(w)
  BY <1>1, <1>2, <1>3, <1>8, RefusePlaced
<1> QED
  BY <1>1, <1>4, <1>5, <1>6, <1>7, <1>8 DEF Kinds

(* A step of a run: triggered, launched or over. *)
LEMMA RunPlacement ==
  ASSUME TypeInv, Placement, NEW r \in Runs, Trigger(r) \/ RunStep(r)
  PROVE  Fresh' /\ Placed'
<1>1. CASE BotTrigger(r)
  <2>1. PICK F \in Filters, A \in PhoneChoices : Schedule(r, "main", scraped \cap F, A)
    BY <1>1 DEF BotTrigger
  <2>2. scraped \cap F \in SUBSET Members /\ A \in SUBSET Phones /\ "main" \in Copies
    BY PhonesAssumption DEF TypeInv, TypeOK, StoreType, Copies
  <2> QED
    BY <2>1, <2>2, SchedulePlacement
<1>2. CASE WebTriggerParallel(r) \/ WebTriggerSingle(r)
  <2>1. PICK A \in SUBSET Phones, F \in Filters : Schedule(r, "web", WebList(F), A)
    BY <1>2, PhonesAssumption DEF WebTriggerParallel, WebTriggerSingle, WebGate
  <2>2. WebList(F) \in SUBSET Members /\ "web" \in Copies
    BY DEF TypeInv, TypeOK, StoreType, Copies, WebList
  <2> QED
    BY <2>1, <2>2, SchedulePlacement
<1>3. CASE Launch(r)
  BY <1>3, LaunchPlacement
<1>4. CASE PrepFails(r) \/ Finish(r)
  <2>1. Over(r)
    BY <1>4 DEF PrepFails, Finish
  <2>2. /\ phase' = [phase EXCEPT ![r] = "finished"]
        /\ UNCHANGED <<listed, queue, outcome, held, pc>>
    BY <2>1 DEF Over, queueVars
  <2>3. phase \in [Runs -> {"idle", "scheduled", "running", "finished"}]
    BY DEF TypeInv, TypeOK, RunType
  <2>4. \A s \in Runs : phase'[s] = phase[s] \/ phase'[s] = "finished"
    BY <2>2, <2>3
  <2>5. Fresh'
    BY <2>2, <2>4 DEF Placement, Fresh
  <2>6. Placed'
    BY <2>2, <2>4, PlacementParts, StillPlaced
  <2> QED
    BY <2>5, <2>6
<1> QED
  BY <1>1, <1>2, <1>3, <1>4 DEF Trigger, RunStep

(* The buttons, and what goes on beside the runs, touch no member of a run. *)
LEMMA ButtonPlacement ==
  ASSUME TypeInv, Placement, WebStop \/ Outside \/ UNCHANGED vars
  PROVE  Fresh' /\ Placed'
<1>1. UNCHANGED <<runVars, queueVars>>
  BY OutsideKeeps DEF WebStop, vars
<1>2. \A w \in Workers : pc[w] = "off" => pc'[w] = "off"
  <2>1. CASE WebStop
    BY <2>1 DEF WebStop, Woken, Waiting
  <2>2. CASE UNCHANGED pc
    BY <2>2
  <2> QED
    BY <2>1, <2>2, OutsideKeeps DEF vars
<1>3. Fresh'
  BY <1>1, <1>2 DEF Placement, Fresh, WorkersOf, runVars, queueVars
<1>4. Placed'
  BY <1>1, PlacementParts, StillPlaced DEF runVars, queueVars
<1> QED
  BY <1>3, <1>4

LEMMA PlacementInit == Init => Placement
<1> SUFFICES ASSUME Init PROVE Placement
  OBVIOUS
<1>1. Fresh
  BY DEF Init, Fresh, WorkersOf
<1>2. HeldOnce /\ HeldUnsettled /\ HandsMatch
  BY DEF Init, HeldOnce, HeldUnsettled, HandsMatch, Holding
<1>3. QueuedOnce /\ QueuedUntouched /\ NobodyLost
  BY DEF Init, QueuedOnce, QueuedUntouched, NobodyLost
<1> QED
  BY <1>1, <1>2, <1>3 DEF Placement

LEMMA PlacementStep == TypeInv /\ TypeInv' /\ Placement /\ [Next]_vars => Placement'
<1> SUFFICES ASSUME TypeInv, TypeInv', Placement, [Next]_vars PROVE Placement'
  OBVIOUS
<1>1. CASE \E r \in Runs : Trigger(r) \/ RunStep(r)
  BY <1>1, RunPlacement DEF Placement, Placed, TypeInv
<1>2. CASE \E w \in Workers : WorkerStep(w)
  BY <1>2, WorkerPlacement DEF Placement, Placed, TypeInv
<1>3. CASE WebStop \/ Outside \/ UNCHANGED vars
  BY <1>3, ButtonPlacement DEF Placement, Placed, TypeInv
<1> QED
  BY <1>1, <1>2, <1>3, NextCases

LEMMA PlacementAlways == Spec => [](TypeInv /\ Placement)
<1>1. Init => TypeInv /\ Placement
  BY TypeInit, PlacementInit
<1>2. TypeInv /\ Placement /\ [Next]_vars => (TypeInv /\ Placement)'
  BY TypeStep, PlacementStep
<1> QED
  BY <1>1, <1>2, PTL DEF Spec

(* For any accounts, members and runs: nobody on a run's list is lost, and   *)
(* nobody is in two places at once, whatever Telegram answers and whoever    *)
(* presses Stop.                                                             *)
THEOREM PlacementCorrect == Spec => []Placement
<1>1. TypeInv /\ Placement => Placement
  OBVIOUS
<1> QED
  BY <1>1, PlacementAlways, PTL

-----------------------------------------------------------------------------
(* Stop *)

(* A run that was told to stop and whose stop nothing withdrew still sees it *)
(* wherever the code looks: in the event of its copy or in its atk_state.    *)
StopInv == \A r \in stopHeld : r \in Active /\ SendStop(r)

(* No step of a worker withdraws a stop; the burnt-list guard can set one.   *)
LEMMA WorkerControl ==
  ASSUME TypeInv, NEW w \in Workers, WorkerStep(w)
  PROVE  /\ UNCHANGED <<stopFlags, stopHeld>>
         /\ \A c \in Copies : stopEvent[c] => stopEvent'[c]
<1>1. CASE InviteMissing(w)
  <2>1. stopEvent \in [Copies -> BOOLEAN]
    BY DEF TypeInv, TypeOK, ControlType
  <2>2. UNCHANGED <<stopFlags, stopHeld>>
    BY <1>1 DEF InviteMissing
  <2>3. PICK b \in BOOLEAN : stopEvent' = [stopEvent EXCEPT ![copy[RunOf(w)]] = b \/ @]
    BY <1>1 DEF InviteMissing
  <2>4. ASSUME NEW c \in Copies, stopEvent[c] PROVE stopEvent'[c]
    BY <2>1, <2>3, <2>4
  <2> QED
    BY <2>2, <2>4
<1>2. CASE StartStep(w) \/ LoopStep(w)
  BY <1>2 DEF StartStep, NoSession, BeginWorker, Connect, LoopStep, TimerFires,
     LeaveLoop, TakeRefused, Take, CloseWorker, controlVars
<1>3. CASE TryStep(w)
  BY <1>3 DEF TryStep, Resolved, Unresolved, PeerFlood, ThrottleStopped, SendInvite,
     controlVars
<1>4. CASE AnswerStep(w) /\ ~InviteMissing(w)
  BY <1>4 DEF AnswerStep, InviteAdded, InviteFloodWait, AlreadyParticipant,
     PrivacyRestricted, PeerIdInvalid, ChatForbidden, TooManyChannels, InviteError,
     controlVars
<1> QED
  BY <1>1, <1>2, <1>3, <1>4 DEF WorkerStep

(* Starting and ending runs withdraw only the stops they take off the list.  *)
LEMMA RunStop ==
  ASSUME TypeInv, StopInv, NEW r \in Runs, Trigger(r) \/ RunStep(r)
  PROVE  StopInv'
<1>0. /\ phase \in [Runs -> {"idle", "scheduled", "running", "finished"}]
      /\ copy \in [Runs -> Copies] /\ stopHeld \subseteq Runs
      /\ stopEvent \in [Copies -> BOOLEAN]
  BY DEF TypeInv, TypeOK, RunType, ControlType
<1>1. CASE Trigger(r)
  <2>1. /\ phase[r] = "idle" /\ phase' = [phase EXCEPT ![r] = "scheduled"]
        /\ UNCHANGED stopEvent
        /\ \A s \in Runs \ {r} : copy'[s] = copy[s]
    BY <1>0, <1>1 DEF Trigger, BotTrigger, WebTriggerParallel, WebTriggerSingle, WebGate, Schedule
  <2>2. r \notin stopHeld
    BY <2>1 DEF StopInv, Active
  <2>3. \/ UNCHANGED <<stopHeld, stopFlags>>
        \/ stopHeld' = stopHeld \ RunsIn("main")
    BY <1>1 DEF Trigger, BotTrigger, WebTriggerParallel, WebTriggerSingle, WebGate
  <2> SUFFICES ASSUME NEW s \in stopHeld' PROVE s \in Active' /\ SendStop(s)'
    BY DEF StopInv
  <2>4. s \in Runs /\ s \in stopHeld /\ s # r /\ s \in Active /\ SendStop(s)
    BY <1>0, <2>2, <2>3 DEF StopInv
  <2>5. s \in Active'
    BY <1>0, <2>1, <2>4 DEF Active
  <2>6. SendStop(s)'
    BY <2>1, <2>3, <2>4 DEF SendStop, RunsIn
  <2> QED
    BY <2>5, <2>6
<1>2. CASE Launch(r)
  <2>1. /\ phase' = [phase EXCEPT ![r] = "running"] /\ copy' = copy
        /\ stopEvent' = [stopEvent EXCEPT ![copy[r]] = FALSE]
        /\ stopFlags' = IF copy[r] = "main" THEN {} ELSE stopFlags
        /\ stopHeld' = stopHeld \ RunsIn(copy[r])
    BY <1>2 DEF Launch, ClearedEvent
  <2> SUFFICES ASSUME NEW s \in stopHeld' PROVE s \in Active' /\ SendStop(s)'
    BY DEF StopInv
  <2>2. s \in Runs /\ s \in stopHeld /\ copy[s] # copy[r] /\ s \in Active /\ SendStop(s)
    BY <1>0, <2>1 DEF StopInv, RunsIn
  <2>3. s \in Active'
    BY <1>0, <2>1, <2>2 DEF Active
  <2>4. SendStop(s)'
    BY <1>0, <2>1, <2>2 DEF SendStop
  <2> QED
    BY <2>3, <2>4
<1>3. CASE PrepFails(r) \/ Finish(r)
  <2>1. /\ phase' = [phase EXCEPT ![r] = "finished"] /\ stopHeld' = stopHeld \ {r}
        /\ UNCHANGED <<copy, stopEvent, stopFlags>>
    BY <1>3 DEF PrepFails, Finish, Over
  <2> QED
    BY <1>0, <2>1 DEF StopInv, SendStop, Active
<1> QED
  BY <1>1, <1>2, <1>3 DEF RunStep

LEMMA StopStep == TypeInv /\ StopInv /\ [Next]_vars => StopInv'
<1> SUFFICES ASSUME TypeInv, StopInv, [Next]_vars PROVE StopInv'
  OBVIOUS
<1>0. copy \in [Runs -> Copies] /\ stopHeld \subseteq Runs
  BY DEF TypeInv, TypeOK, RunType, ControlType
<1>1. CASE \E r \in Runs : Trigger(r) \/ RunStep(r)
  BY <1>1, RunStop
<1>2. CASE \E w \in Workers : WorkerStep(w)
  <2>1. PICK w \in Workers : WorkerStep(w)
    BY <1>2
  <2>2. UNCHANGED <<phase, copy>>
    BY <2>1, WorkerKinds DEF runVars
  <2>3. /\ UNCHANGED <<stopFlags, stopHeld>>
        /\ \A c \in Copies : stopEvent[c] => stopEvent'[c]
    BY <2>1, WorkerControl
  <2> QED
    BY <1>0, <2>2, <2>3 DEF StopInv, Active, SendStop
<1>3. CASE WebStop
  <2>1. /\ stopEvent'["web"] /\ stopFlags' = {"requested", "parallel"}
        /\ UNCHANGED <<phase, copy>> /\ stopHeld' = stopHeld \cup Active
    BY <1>3 DEF WebStop, runVars, TypeInv, TypeOK, ControlType, Copies
  <2>2. Active \subseteq Runs
    BY DEF Active
  <2> QED
    BY <1>0, <2>1, <2>2 DEF StopInv, Active, SendStop, Copies
<1>4. CASE BotStopOp \/ BotHome \/ DialogClears
  BY <1>0, <1>4 DEF BotStopOp, BotHome, DialogClears, ClearAtkState, RunsIn, StopInv, Active,
     SendStop, runVars
<1>5. CASE OtherJob \/ CacheStep \/ (\E p \in Phones : WriteCount(p)) \/ UNCHANGED vars
  <2>1. UNCHANGED <<phase, copy, stopEvent, stopFlags, stopHeld>>
    BY <1>5 DEF OtherJob, CacheStep, CacheReloaded, MemberLeft, WriteCount, vars, runVars,
       controlVars
  <2> QED
    BY <2>1 DEF StopInv, Active, SendStop
<1> QED
  BY <1>1, <1>2, <1>3, <1>4, <1>5, NextCases DEF Outside

(* A member is taken, and an invite sent, only where no stop is seen. *)
LEMMA StopSeen ==
  ASSUME TypeInv, [Next]_vars, NEW w \in Workers, TakesMember(w) \/ SendsInvite(w)
  PROVE  ~SendStop(RunOf(w))
<1> USE DEF TakesMember, SendsInvite
<1>0. RunOf(w) \in Runs /\ pc \in [Workers -> PCs]
  BY WorkerParts DEF TypeInv, TypeOK, QueueType
<1>1. CASE WorkerStep(w)
  <2>1. ~StartStep(w)
    BY DEF StartStep, NoSession, BeginWorker, Connect
  <2>2. CASE LoopStep(w)
    BY <1>0, <2>2 DEF LoopStep, TimerFires, LeaveLoop, TakeRefused, Take, CloseWorker,
       MayTake, LoopStop, SendStop, GoTo, Waiting
  <2>3. CASE TryStep(w)
    BY <1>0, <2>3 DEF TryStep, Resolved, Unresolved, PeerFlood, ThrottleStopped, SendInvite,
       GoTo
  <2>4. ~AnswerStep(w)
    BY DEF AnswerStep, InviteMissing, InviteAdded, InviteFloodWait, AlreadyParticipant,
       PrivacyRestricted, PeerIdInvalid, ChatForbidden, TooManyChannels, InviteError
  <2> QED
    BY <1>1, <2>1, <2>2, <2>3, <2>4 DEF WorkerStep
<1>2. CASE \E v \in Workers \ {w} : WorkerStep(v)
  <2>1. PICK v \in Workers \ {w} : WorkerStep(v)
    BY <1>2
  <2>2. PcStep(v)
    BY <2>1, WorkerKinds
  <2> QED
    BY <2>1, <2>2 DEF PcStep, Waiting
<1>3. CASE \E r \in Runs : Trigger(r) \/ RunStep(r)
  <2>1. pc' = pc \/ \E r \in Runs : Launch(r)
    BY <1>3 DEF Trigger, BotTrigger, WebTriggerParallel, WebTriggerSingle, WebGate,
       Schedule, RunStep, PrepFails, Finish, Over
  <2>2. pc'[w] \in {"new", pc[w]}
    BY <1>0, <2>1 DEF Launch
  <2> QED
    BY <2>2
<1>4. CASE WebStop
  BY <1>4 DEF WebStop, Woken, StoppedAt
<1>5. CASE Outside \/ UNCHANGED vars
  <2>1. pc' = pc
    BY <1>5, OutsideKeeps DEF vars
  <2> QED
    BY <2>1
<1> QED
  BY <1>1, <1>2, <1>3, <1>4, <1>5, NextCases

(* After /api/add/stop no active run takes another member or sends another   *)
(* invite, for any number of runs and accounts, until something withdraws    *)
(* the stop.                                                                 *)
THEOREM StopCorrect == Spec => StopEffective
<1>1. Init => TypeInv /\ StopInv
  BY TypeInit DEF Init, StopInv
<1>2. TypeInv /\ StopInv /\ [Next]_vars => (TypeInv /\ StopInv)'
  BY TypeStep, StopStep
<1>3. TypeInv /\ StopInv /\ [Next]_vars =>
        [\A w \in Workers : RunOf(w) \in stopHeld => ~TakesMember(w) /\ ~SendsInvite(w)]_vars
  BY StopSeen DEF StopInv
<1> QED
  BY <1>1, <1>2, <1>3, PTL DEF Spec, StopEffective

-----------------------------------------------------------------------------
(* The engine implements the ledger *)

(* The workers of a run that is over rest. *)
Rested ==
  \A w \in Workers : phase[RunOf(w)] = "finished" => pc[w] \in {"off", "done"}

LEMMA RestedStep == TypeInv /\ Rested /\ [Next]_vars => Rested'
<1> SUFFICES ASSUME TypeInv, Rested, [Next]_vars, NEW v \in Workers,
                    phase'[RunOf(v)] = "finished"
             PROVE  pc'[v] \in {"off", "done"}
  BY DEF Rested
<1>0. /\ phase \in [Runs -> {"idle", "scheduled", "running", "finished"}]
      /\ RunOf(v) \in Runs /\ PhoneOf(v) \in Phones /\ pc \in [Workers -> PCs]
      /\ v = <<RunOf(v), PhoneOf(v)>>
  BY DEF TypeInv, TypeOK, RunType, QueueType, Workers, RunOf, PhoneOf
<1>1. CASE \E r \in Runs : Trigger(r) \/ Launch(r)
  <2>1. PICK r \in Runs : Trigger(r) \/ Launch(r)
    BY <1>1
  <2>2. phase'[r] \in {"scheduled", "running"} /\ \A s \in Runs \ {r} : phase'[s] = phase[s]
    BY <1>0, <2>1 DEF Trigger, BotTrigger, WebTriggerParallel, WebTriggerSingle, WebGate,
       Schedule, Launch
  <2>3. RunOf(v) # r => pc'[v] = pc[v]
    BY <2>1 DEF Trigger, BotTrigger, WebTriggerParallel, WebTriggerSingle, WebGate,
       Schedule, Launch
  <2> QED
    BY <1>0, <2>2, <2>3 DEF Rested
<1>2. CASE \E r \in Runs : PrepFails(r) \/ Finish(r)
  <2>1. PICK r \in Runs : PrepFails(r) \/ Finish(r)
    BY <1>2
  <2>2. pc' = pc /\ \A s \in Runs \ {r} : phase'[s] = phase[s]
    BY <1>0, <2>1 DEF PrepFails, Finish, Over
  <2>3. CASE RunOf(v) = r
    BY <1>0, <2>1, <2>2, <2>3 DEF PrepFails, Finish, TypeInv, Asleep
  <2> QED
    BY <1>0, <2>2, <2>3 DEF Rested
<1>3. CASE \E w \in Workers : WorkerStep(w)
  <2>1. PICK w \in Workers : WorkerStep(w)
    BY <1>3
  <2>2. UNCHANGED phase /\ pc[w] \notin {"off", "done"} /\ PcStep(w)
    BY <2>1, WorkerKinds DEF runVars
  <2> QED
    BY <2>2 DEF Rested, PcStep, Waiting
<1>4. CASE WebStop \/ Outside \/ UNCHANGED vars
  <2>1. UNCHANGED phase
    BY <1>4, OutsideKeeps DEF WebStop, vars, runVars
  <2>2. UNCHANGED pc \/ pc' = Woken("web")
    BY <1>4, OutsideKeeps DEF WebStop, vars
  <2> QED
    BY <1>0, <2>1, <2>2 DEF Rested, Woken, Waiting
<1> QED
  BY <1>1, <1>2, <1>3, <1>4, NextCases DEF RunStep

(* Where a member is, point by point. *)
LEMMA PlaceAt ==
  ASSUME NEW r \in Runs, NEW m \in Members
  PROVE  /\ outcome[r][m] # "none" => Place[r][m] = outcome[r][m]
         /\ outcome[r][m] = "none" /\ InHand(r, m) => Place[r][m] = "claimed"
         /\ outcome[r][m] = "none" /\ ~InHand(r, m) /\ m \in listed[r] => Place[r][m] = "queued"
         /\ outcome[r][m] = "none" /\ ~InHand(r, m) /\ m \notin listed[r] => Place[r][m] = "absent"
  BY DEF Place

(* A step that changes the place of one member only is a move of the ledger. *)
LEMMA OneMoves ==
  ASSUME NEW r \in Runs, NEW m \in Members,
         \A s \in Runs : \A x \in Members : (s # r \/ x # m) =>
           /\ outcome'[s][x] = outcome[s][x]
           /\ InHand(s, x)' = InHand(s, x)
           /\ listed'[s] = listed[s]
  PROVE  Place' = [Place EXCEPT ![r][m] = Place'[r][m]]
<1>1. \A s \in Runs : \A x \in Members : (s # r \/ x # m) => Place'[s][x] = Place[s][x]
  BY DEF Place
<1>2. /\ Place = [s \in Runs |-> [x \in Members |-> Place[s][x]]]
      /\ Place' = [s \in Runs |-> [x \in Members |-> Place'[s][x]]]
  BY DEF Place
<1> HIDE DEF Place
<1> QED
  BY <1>1, <1>2

(* A step that changes no result, no hand and no list changes no place. *)
LEMMA NobodyMoves ==
  ASSUME UNCHANGED <<outcome, held, listed>>
  PROVE  Place' = Place
  BY DEF Place, InHand

(* A worker with its run at work, and what InHand says when one hand changes. *)
LEMMA HandChanges ==
  ASSUME TypeInv, Placement, NEW w \in Workers, NEW m \in Members,
         \/ held' = [held EXCEPT ![w] = m] /\ held[w] = NoMember
         \/ held' = [held EXCEPT ![w] = NoMember] /\ held[w] = m
  PROVE  \A s \in Runs : \A x \in Members : (s # RunOf(w) \/ x # m) =>
           InHand(s, x)' = InHand(s, x)
<1> SUFFICES ASSUME NEW s \in Runs, NEW x \in Members, s # RunOf(w) \/ x # m
             PROVE  InHand(s, x)' = InHand(s, x)
  OBVIOUS
<1>1. /\ \A v \in Workers \ {w} : held'[v] = held[v]
      /\ held'[w] \in {m, NoMember} /\ held[w] \in {m, NoMember}
  BY DEF TypeInv, TypeOK, QueueType
<1>2. x # NoMember
  BY MembersAssumption
<1>3. \A v \in Workers : (RunOf(v) = s /\ held'[v] = x) = (RunOf(v) = s /\ held[v] = x)
  BY <1>1, <1>2
<1> QED
  BY <1>3 DEF InHand

LEMMA SettleLedger ==
  ASSUME TypeInv, Placement, NEW w \in Workers, phase[RunOf(w)] = "running",
         UNCHANGED runVars, SettleKind(w)
  PROVE  \E s \in Runs : Ledger!LedgerMove(s)
<1> DEFINE r == RunOf(w)
<1>1. PICK o \in Results : Settle(w, o)
  BY DEF SettleKind
<1>2. PICK m \in Members : r \in Runs /\ m = held[w] /\ m # NoMember
  BY WorkerParts, HoldingMember, MembersAssumption DEF SettleKind
<1>3. /\ held' = [held EXCEPT ![w] = NoMember]
      /\ outcome' = [outcome EXCEPT ![r][m] = o]
      /\ UNCHANGED <<listed, phase>>
  BY <1>1, <1>2 DEF Settle, runVars
<1>4. outcome \in [Runs -> [Members -> Results \cup {"none"}]]
  BY DEF TypeInv, TypeOK, QueueType
<1>5. Place[r][m] = "claimed"
  BY <1>2, PlaceAt DEF Placement, HeldUnsettled, InHand
<1>6. outcome'[r][m] = o /\ o # "none"
  BY <1>2, <1>3, <1>4 DEF Results
<1>7. Place'[r][m] = o
  BY <1>2, <1>6 DEF Place
<1>8. \A s \in Runs : \A x \in Members : (s # r \/ x # m) =>
        /\ outcome'[s][x] = outcome[s][x]
        /\ InHand(s, x)' = InHand(s, x)
        /\ listed'[s] = listed[s]
  <2>1. \A s \in Runs : \A x \in Members : (s # r \/ x # m) =>
          InHand(s, x)' = InHand(s, x)
    BY <1>2, <1>3, HandChanges
  <2> QED
    BY <1>2, <1>3, <1>4, <2>1
<1>9. Place' = [Place EXCEPT ![r][m] = o]
  BY <1>2, <1>3, <1>7, <1>8, OneMoves
<1>10. Ledger!Book(r, m, o)
  BY <1>3, <1>5, <1>9 DEF Ledger!Book, Ledger!Move
<1> QED
  BY <1>2, <1>10 DEF Ledger!LedgerMove, Ledger!Results, Results

LEMMA RequeueLedger ==
  ASSUME TypeInv, Placement, NEW w \in Workers, phase[RunOf(w)] = "running",
         UNCHANGED runVars, RequeueKind(w)
  PROVE  \E s \in Runs : Ledger!LedgerMove(s)
<1> DEFINE r == RunOf(w)
<1>1. PICK m \in Members : r \in Runs /\ m = held[w] /\ m # NoMember
  BY WorkerParts, HoldingMember, MembersAssumption DEF RequeueKind
<1>2. /\ held' = [held EXCEPT ![w] = NoMember]
      /\ UNCHANGED <<listed, phase, outcome>>
  BY DEF RequeueKind, Requeue, runVars
<1>3. m \in listed[r] /\ outcome[r][m] = "none"
  BY <1>1 DEF Placement, HeldUnsettled
<1>4. Place[r][m] = "claimed"
  BY <1>1, <1>3, PlaceAt DEF InHand
<1>5. ~InHand(r, m)'
  <2> SUFFICES ASSUME NEW v \in Workers, RunOf(v) = r, held'[v] = m PROVE FALSE
    BY DEF InHand
  <2>1. v # w /\ held[v] = m
    BY <1>1, <1>2 DEF TypeInv, TypeOK, QueueType
  <2> QED
    BY <1>1, <2>1 DEF Placement, HeldOnce
<1>6. Place'[r][m] = "queued"
  BY <1>1, <1>2, <1>3, <1>5 DEF Place
<1>7. \A s \in Runs : \A x \in Members : (s # r \/ x # m) => InHand(s, x)' = InHand(s, x)
  BY <1>1, <1>2, HandChanges
<1>8. Place' = [Place EXCEPT ![r][m] = "queued"]
  BY <1>1, <1>2, <1>6, <1>7, OneMoves
<1>9. Ledger!Return(r, m)
  BY <1>2, <1>4, <1>8 DEF Ledger!Return, Ledger!Move
<1> QED
  BY <1>1, <1>9 DEF Ledger!LedgerMove

LEMMA TakeLedger ==
  ASSUME TypeInv, Placement, NEW w \in Workers, phase[RunOf(w)] = "running",
         UNCHANGED runVars, TakeKind(w) \/ RefuseKind(w)
  PROVE  \E s \in Runs : Ledger!LedgerMove(s)
<1> DEFINE r == RunOf(w)
<1>0. PICK m : m = Head(queue[r])
  OBVIOUS
<1>1. r \in Runs /\ UNCHANGED <<listed, phase>> /\ queue[r] # <<>>
      /\ queue' = [queue EXCEPT ![r] = Tail(@)]
  BY WorkerParts DEF runVars, TakeKind, RefuseKind
<1>2. /\ m \in listed[r] /\ outcome[r][m] = "none" /\ m \in Members
      /\ \A v \in Workers : RunOf(v) = r => held[v] # m
  BY <1>0, <1>1, HeadLeaves, PlacementParts
<1>3. Place[r][m] = "queued"
  BY <1>1, <1>2, PlaceAt DEF InHand
<1>4. CASE TakeKind(w)
  <2>1. held' = [held EXCEPT ![w] = m] /\ held[w] = NoMember /\ outcome' = outcome
    BY <1>0, <1>4 DEF TakeKind, TypeInv, HandsMatch
  <2>2. InHand(r, m)'
    BY <2>1 DEF InHand, TypeInv, TypeOK, QueueType
  <2>3. Place'[r][m] = "claimed"
    BY <1>1, <1>2, <2>1, <2>2 DEF Place
  <2>4. \A s \in Runs : \A x \in Members : (s # r \/ x # m) => InHand(s, x)' = InHand(s, x)
    BY <1>2, <2>1, HandChanges
  <2>5. Place' = [Place EXCEPT ![r][m] = "claimed"]
    BY <1>1, <1>2, <2>1, <2>3, <2>4, OneMoves
  <2>6. Ledger!Claim(r, m)
    BY <1>1, <1>3, <2>5 DEF Ledger!Claim, Ledger!Move
  <2> QED
    BY <1>1, <1>2, <2>6 DEF Ledger!LedgerMove
<1>5. CASE RefuseKind(w)
  <2>1. held' = held /\ outcome' = [outcome EXCEPT ![r][m] = "skipped"]
        /\ outcome \in [Runs -> [Members -> Results \cup {"none"}]]
    BY <1>0, <1>5 DEF RefuseKind, TypeInv, TypeOK, QueueType
  <2>2. outcome'[r][m] = "skipped"
    BY <1>1, <1>2, <2>1
  <2>3. Place'[r][m] = "skipped"
    BY <1>1, <1>2, <2>2 DEF Place
  <2>4. \A s \in Runs : \A x \in Members : (s # r \/ x # m) =>
          /\ outcome'[s][x] = outcome[s][x]
          /\ InHand(s, x)' = InHand(s, x)
          /\ listed'[s] = listed[s]
    BY <1>1, <1>2, <2>1 DEF InHand
  <2>5. Place' = [Place EXCEPT ![r][m] = "skipped"]
    <3>1. Place' = [Place EXCEPT ![r][m] = Place'[r][m]]
      BY <1>1, <1>2, <2>4, OneMoves
    <3> QED
      BY <2>3, <3>1
  <2>6. Ledger!SkipUntried(r, m)
    BY <1>1, <1>3, <2>5 DEF Ledger!SkipUntried, Ledger!Move
  <2> QED
    BY <1>1, <1>2, <2>6 DEF Ledger!LedgerMove
<1> QED
  BY <1>4, <1>5

(* A worker moves members as the ledger allows, and only while its run works. *)
LEMMA WorkerLedger ==
  ASSUME TypeInv, Placement, Rested, NEW w \in Workers, WorkerStep(w)
  PROVE  (\E s \in Runs : Ledger!LedgerMove(s)) \/ UNCHANGED <<Place, phase>>
<1>1. UNCHANGED runVars /\ pc[w] \notin {"off", "done"} /\ PcStep(w) /\ Kinds(w)
  BY WorkerKinds
<1>2. phase[RunOf(w)] = "running"
  BY <1>1, WorkerParts DEF TypeInv, TypeOK, RunType, Asleep, Rested
<1>3. CASE KeepKind(w)
  BY <1>1, <1>3, NobodyMoves DEF KeepKind, queueVars, runVars
<1>4. CASE ~KeepKind(w)
  BY <1>1, <1>2, <1>4, SettleLedger, RequeueLedger, TakeLedger DEF Kinds
<1> QED
  BY <1>3, <1>4

(* Handing a list over is the ledger's Receive. *)
LEMMA ScheduleLedger ==
  ASSUME TypeInv, Placement, NEW r \in Runs, NEW c \in Copies, NEW S \in SUBSET Members,
         NEW A \in SUBSET Phones, Schedule(r, c, S, A)
  PROVE  \E s \in Runs : Ledger!LedgerMove(s)
<1> DEFINE T == S \ IdOnly
<1>1. /\ phase[r] = "idle" /\ phase' = [phase EXCEPT ![r] = "scheduled"]
      /\ listed' = [listed EXCEPT ![r] = T] /\ UNCHANGED <<outcome, held>>
      /\ listed \in [Runs -> SUBSET Members]
  BY DEF Schedule, queueVars, TypeInv, TypeOK, RunType
<1>2. \A m \in Members : outcome[r][m] = "none" /\ ~InHand(r, m)
  BY <1>1, Untouched, MembersAssumption DEF InHand
<1>3. \A m \in Members : ~InHand(r, m)'
  BY <1>1, <1>2 DEF InHand
<1>4. listed'[r] = T /\ \A s \in Runs \ {r} : listed'[s] = listed[s]
  BY <1>1
<1>5. \A m \in Members : Place'[r][m] = IF m \in T THEN "queued" ELSE "absent"
  BY <1>1, <1>2, <1>3, <1>4 DEF Place
<1>6. \A s \in Runs \ {r} : \A m \in Members : Place'[s][m] = Place[s][m]
  BY <1>1, <1>4 DEF Place, InHand
<1>7. /\ Place = [s \in Runs |-> [x \in Members |-> Place[s][x]]]
      /\ Place' = [s \in Runs |-> [x \in Members |-> Place'[s][x]]]
  BY DEF Place
<1>8. Place' = [Place EXCEPT ![r] = [m \in Members |-> IF m \in T THEN "queued" ELSE "absent"]]
  <2> HIDE DEF Place, T
  <2> QED
    BY <1>5, <1>6, <1>7
<1>9. Ledger!Receive(r, T)
  BY <1>1, <1>8 DEF Ledger!Receive
<1> QED
  BY <1>9 DEF Ledger!LedgerMove

LEMMA RunLedger ==
  ASSUME TypeInv, Placement, NEW r \in Runs, Trigger(r) \/ RunStep(r)
  PROVE  \E s \in Runs : Ledger!LedgerMove(s)
<1>1. CASE BotTrigger(r)
  <2>1. PICK F \in Filters, A \in PhoneChoices : Schedule(r, "main", scraped \cap F, A)
    BY <1>1 DEF BotTrigger
  <2>2. scraped \cap F \in SUBSET Members /\ A \in SUBSET Phones /\ "main" \in Copies
    BY PhonesAssumption DEF TypeInv, TypeOK, StoreType, Copies
  <2> QED
    BY <2>1, <2>2, ScheduleLedger
<1>2. CASE WebTriggerParallel(r) \/ WebTriggerSingle(r)
  <2>1. PICK A \in SUBSET Phones, F \in Filters : Schedule(r, "web", WebList(F), A)
    BY <1>2, PhonesAssumption DEF WebTriggerParallel, WebTriggerSingle, WebGate
  <2>2. WebList(F) \in SUBSET Members /\ "web" \in Copies
    BY DEF TypeInv, TypeOK, StoreType, Copies, WebList
  <2> QED
    BY <2>1, <2>2, ScheduleLedger
<1>3. CASE Launch(r)
  <2>1. phase[r] = "scheduled" /\ phase' = [phase EXCEPT ![r] = "running"]
        /\ UNCHANGED <<outcome, held, listed>>
    BY <1>3 DEF Launch
  <2>2. Ledger!Begin(r)
    BY <2>1, NobodyMoves DEF Ledger!Begin
  <2> QED
    BY <2>2 DEF Ledger!LedgerMove
<1>4. CASE PrepFails(r) \/ Finish(r)
  <2>1. /\ phase' = [phase EXCEPT ![r] = "finished"]
        /\ UNCHANGED <<outcome, held, listed>>
        /\ phase[r] \in {"scheduled", "running"}
    BY <1>4 DEF PrepFails, Finish, Over, queueVars
  <2>2. \A w \in Workers : RunOf(w) = r => held[w] = NoMember
    <3>1. CASE PrepFails(r)
      BY <3>1, Untouched DEF PrepFails
    <3>2. CASE Finish(r)
      <4> SUFFICES ASSUME NEW w \in Workers, RunOf(w) = r PROVE held[w] = NoMember
        OBVIOUS
      <4>1. w = <<r, PhoneOf(w)>> /\ PhoneOf(w) \in Phones
        BY DEF Workers, RunOf, PhoneOf
      <4>2. pc[w] \in {"off", "done"}
        BY <3>2, <4>1 DEF Finish
      <4> QED
        BY <4>2 DEF TypeInv, HandsMatch, Holding
    <3> QED
      BY <1>4, <3>1, <3>2
  <2>3. \A m \in Members : ~InHand(r, m)
    BY <2>2, MembersAssumption DEF InHand
  <2>4. \A m \in Members : Place[r][m] # "claimed"
    BY <2>3 DEF Place, TypeInv, TypeOK, QueueType, Results
  <2>5. Ledger!End(r)
    BY <2>1, <2>4, NobodyMoves DEF Ledger!End
  <2> QED
    BY <2>5 DEF Ledger!LedgerMove
<1> QED
  BY <1>1, <1>2, <1>3, <1>4 DEF Trigger, RunStep

(* The engine of bot.py implements the ledger, for any accounts, members and *)
(* runs: every step is a step of the ledger or changes nothing in it.        *)
THEOREM LedgerCorrect == Spec => ImplementsLedger
<1>1. Init => TypeInv /\ Placement /\ Rested
  BY TypeInit, PlacementInit DEF Init, Rested
<1>2. TypeInv /\ Placement /\ Rested /\ [Next]_vars => (TypeInv /\ Placement /\ Rested)'
  BY TypeStep, PlacementStep, RestedStep
<1>3. Init => Ledger!LedgerInit
  <2> SUFFICES ASSUME Init PROVE Ledger!LedgerInit
    OBVIOUS
  <2>1. \A r \in Runs : \A m \in Members : ~InHand(r, m)
    BY MembersAssumption DEF Init, InHand
  <2>2. Place = [r \in Runs |-> [m \in Members |-> "absent"]]
    BY <2>1 DEF Init, Place
  <2> QED
    BY <2>2 DEF Init, Ledger!LedgerInit
<1>4. TypeInv /\ Placement /\ Rested /\ [Next]_vars => [Ledger!LedgerNext]_<<Place, phase>>
  <2> SUFFICES ASSUME TypeInv, Placement, Rested, [Next]_vars
               PROVE  (\E r \in Runs : Ledger!LedgerMove(r)) \/ UNCHANGED <<Place, phase>>
    BY DEF Ledger!LedgerNext
  <2>1. CASE \E r \in Runs : Trigger(r) \/ RunStep(r)
    BY <2>1, RunLedger
  <2>2. CASE \E w \in Workers : WorkerStep(w)
    BY <2>2, WorkerLedger
  <2>3. CASE WebStop \/ Outside \/ UNCHANGED vars
    <3>1. UNCHANGED <<outcome, held, listed, phase>>
      BY <2>3, OutsideKeeps DEF WebStop, vars, runVars, queueVars
    <3> QED
      BY <3>1, NobodyMoves
  <2> QED
    BY <2>1, <2>2, <2>3, NextCases
<1> QED
  BY <1>1, <1>2, <1>3, <1>4, PTL DEF Spec, ImplementsLedger, Ledger!LedgerSpec
=============================================================================
