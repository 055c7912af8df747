-------------------------- MODULE AddRunSafetyProofs --------------------------
(***************************************************************************)
(* More proofs about the add engine, for every set of runs, accounts and   *)
(* members: the gate of the mini app, stops that are left over, the        *)
(* counters of a run, the recorded counts, and repeats.  The               *)
(* types, the placement of the members and the five kinds of worker step   *)
(* come from AddRunProofs.                                                 *)
(***************************************************************************)
EXTENDS AddRunProofs

(* What a step of a worker does to the controls: no flag changes, nobody but *)
(* the guard tells a run to stop, and an event it sets is told to every run  *)
(* at work in that copy.                                                     *)
LEMMA WorkerTold ==
  ASSUME TypeInv, NEW w \in Workers, WorkerStep(w)
  PROVE  /\ UNCHANGED <<stopFlags, gateVars>>
         /\ \A s \in Runs : stopAsked'[s] \in {stopAsked[s], stopAsked[s] \cup {"event"}}
         /\ \A s \in Runs : phase[s] = "running" /\ stopEvent'[copy[s]] =>
              stopEvent[copy[s]] \/ stopAsked'[s] # {}
<1>1. CASE InviteMissing(w)
  <2> DEFINE r == RunOf(w)
             abort == fails[r] + 1 >= MaxFails /\ total[r]["added"] = 0
  <2>1. /\ UNCHANGED <<stopFlags, gateVars>>
        /\ stopEvent' = [stopEvent EXCEPT ![copy[r]] = abort \/ @]
        /\ stopAsked' =
             Told({s \in RunsIn(copy[r]) : abort /\ phase[s] = "running"}, "event")
    BY <1>1 DEF InviteMissing
  <2>2. /\ stopEvent \in [Copies -> BOOLEAN]
        /\ stopAsked \in [Runs -> SUBSET {"event", "menu"}]
        /\ copy \in [Runs -> Copies]
    BY DEF TypeInv, TypeOK, RunType, ControlType
  <2> HIDE DEF abort
  <2>3. \A s \in Runs : stopAsked'[s] = IF copy[s] = copy[r] /\ abort /\ phase[s] = "running"
                                        THEN stopAsked[s] \cup {"event"} ELSE stopAsked[s]
    BY <2>1 DEF Told, RunsIn
  <2>4. ASSUME NEW s \in Runs, stopEvent'[copy[s]], ~stopEvent[copy[s]]
        PROVE  copy[s] = copy[r] /\ abort
    BY <2>1, <2>2, <2>4
  <2> QED
    BY <2>1, <2>3, <2>4
<1>2. CASE ~InviteMissing(w)
  <2>1. UNCHANGED controlVars
    BY <1>2 DEF WorkerStep, StartStep, NoSession, BeginWorker, Connect, LoopStep,
       TimerFires, LeaveLoop, TakeRefused, Take, CloseWorker, TryStep, Resolved,
       Unresolved, PeerFlood, ThrottleStopped, SendInvite, AnswerStep, InviteAdded,
       InviteFloodWait, AlreadyParticipant, PrivacyRestricted, PeerIdInvalid,
       ChatForbidden, TooManyChannels, InviteError
  <2> QED
    BY <2>1 DEF controlVars
<1> QED
  BY <1>1, <1>2

-----------------------------------------------------------------------------
(* The gate of the mini app *)

(* The runs of the mini app that still have the flag they set: there is at   *)
(* most one, and the flag stands.                                            *)
Covered == (Active \cap RunsIn("web")) \ exposed
GateInv == \A r \in Covered : addInProgress /\ \A s \in Covered : s = r

(* Whoever lowers the flag leaves no run covered by it. *)
LEMMA LoweredExposes ==
  ASSUME NEW S, LowerGate(S), Active' \subseteq Active \ S, RunsIn("web")' = RunsIn("web")
  PROVE  Covered' = {}
  BY DEF LowerGate, Covered

(* As long as no run becomes covered and the flag is not lowered, GateInv    *)
(* stands.                                                                   *)
LEMMA GateStays ==
  ASSUME GateInv, Covered' \subseteq Covered, addInProgress => addInProgress'
  PROVE  GateInv'
  BY DEF GateInv

LEMMA GateStep == TypeInv /\ GateInv /\ [Next]_vars => GateInv'
<1> SUFFICES ASSUME TypeInv, GateInv, [Next]_vars PROVE GateInv'
  OBVIOUS
<1>0. /\ phase \in [Runs -> {"idle", "scheduled", "running", "finished"}]
      /\ copy \in [Runs -> Copies] /\ addInProgress \in BOOLEAN
      /\ exposed \subseteq Active \cap RunsIn("web")
  BY DEF TypeInv, TypeOK, RunType, ControlType, ExposedAtWork
<1>1. CASE \E x \in Runs : BotTrigger(x)
  <2>1. PICK x \in Runs : BotTrigger(x)
    BY <1>1
  <2>2. /\ phase[x] = "idle" /\ phase' = [phase EXCEPT ![x] = "scheduled"]
        /\ copy' = [copy EXCEPT ![x] = "main"] /\ UNCHANGED <<addInProgress, exposed>>
    BY <2>1 DEF BotTrigger, Schedule
  <2>3. Covered' \subseteq Covered
    BY <1>0, <2>2 DEF Covered, Active, RunsIn
  <2> QED
    BY <2>2, <2>3, GateStays
<1>2. CASE \E x \in Runs : WebTriggerParallel(x) \/ WebTriggerSingle(x)
  <2>1. PICK x \in Runs : WebTriggerParallel(x) \/ WebTriggerSingle(x)
    BY <1>2
  <2>2. /\ phase' = [phase EXCEPT ![x] = "scheduled"] /\ copy' = [copy EXCEPT ![x] = "web"]
        /\ addInProgress' /\ ~addInProgress /\ UNCHANGED exposed
    BY <2>1 DEF WebTriggerParallel, WebTriggerSingle, WebGate, GateOpen, Schedule
  <2>3. Covered = {}
    BY <2>2 DEF GateInv
  <2>4. Covered' \subseteq {x}
    BY <1>0, <2>2, <2>3 DEF Covered, Active, RunsIn
  <2> QED
    BY <2>2, <2>4 DEF GateInv
<1>3. CASE \E x \in Runs : Launch(x)
  <2>1. PICK x \in Runs : Launch(x)
    BY <1>3
  <2>2. /\ phase[x] = "scheduled" /\ phase' = [phase EXCEPT ![x] = "running"]
        /\ addInProgress' = (addInProgress \/ copy[x] = "web")
        /\ UNCHANGED <<copy, exposed>>
    BY <2>1 DEF Launch
  <2>3. Covered' \subseteq Covered
    BY <1>0, <2>2 DEF Covered, Active, RunsIn
  <2> QED
    BY <2>2, <2>3, GateStays
<1>4. CASE \E x \in Runs : PrepFails(x) \/ Finish(x)
  <2>1. PICK x \in Runs : PrepFails(x) \/ Finish(x)
    BY <1>4
  <2>2. /\ phase' = [phase EXCEPT ![x] = "finished"] /\ UNCHANGED copy
        /\ IF copy[x] = "web" THEN LowerGate({x}) ELSE UNCHANGED <<addInProgress, exposed>>
    BY <2>1 DEF PrepFails, Finish, Over
  <2>3. Active' \subseteq Active \ {x} /\ RunsIn("web")' = RunsIn("web")
    BY <1>0, <2>2 DEF Active, RunsIn
  <2>4. CASE copy[x] = "web"
    <3>1. Covered' = {}
      BY <2>2, <2>3, <2>4, LoweredExposes
    <3> QED
      BY <3>1 DEF GateInv
  <2>5. CASE copy[x] # "web"
    <3>1. Covered' \subseteq Covered
      BY <2>2, <2>3, <2>5 DEF Covered
    <3> QED
      BY <2>2, <2>5, <3>1, GateStays
  <2> QED
    BY <2>4, <2>5
<1>5. CASE \E w \in Workers : WorkerStep(w)
  <2>1. PICK w \in Workers : WorkerStep(w)
    BY <1>5
  <2>2. UNCHANGED <<phase, copy, addInProgress, exposed>>
    BY <2>1, WorkerKinds, WorkerTold DEF runVars, gateVars
  <2> QED
    BY <2>2, GateStays DEF Covered, Active, RunsIn
<1>6. CASE WebStop \/ Outside \/ UNCHANGED vars
  <2>1. UNCHANGED <<phase, copy>>
    BY <1>6, OutsideKeeps DEF WebStop, vars, runVars
  <2>2. Active' = Active /\ RunsIn("web")' = RunsIn("web")
    BY <2>1 DEF Active, RunsIn
  <2>3. CASE LowerGate({})
    <3>1. Covered' = {}
      BY <2>2, <2>3, LoweredExposes
    <3> QED
      BY <3>1 DEF GateInv
  <2>4. CASE ~LowerGate({})
    <3>1. UNCHANGED exposed /\ (addInProgress => addInProgress')
      BY <1>6, <2>4 DEF WebStop, Outside, BotStopOp, BotHome, DialogClears, ClearAtkState,
         OtherJob, CacheStep, CacheReloaded, MemberLeft, WriteCount, vars, controlVars, gateVars
    <3>2. Covered' \subseteq Covered
      BY <2>2, <3>1 DEF Covered
    <3> QED
      BY <3>1, <3>2, GateStays
  <2> QED
    BY <2>3, <2>4
<1> QED
  BY <1>1, <1>2, <1>3, <1>4, <1>5, <1>6, NextCases DEF Trigger, RunStep

(* Of two jobs of the mini app that are at work at once, one has lost its    *)
(* flag to somebody else, however many are asked for and whatever the bot,   *)
(* the other jobs and the workers do.                                        *)
THEOREM GateCorrect == Spec => []OneWebRun
<1>1. Init => GateInv
  BY DEF Init, GateInv, Covered, Active
<1>2. GateInv => OneWebRun
  BY DEF GateInv, Covered, OneWebRun
<1> QED
  BY <1>1, <1>2, GateStep, TypeAlways, PTL DEF Spec

-----------------------------------------------------------------------------
(* Stops that are left over *)

LEMMA GhostStep == TypeInv /\ NoGhostStop /\ [Next]_vars => NoGhostStop'
<1> SUFFICES ASSUME TypeInv, NoGhostStop, [Next]_vars, NEW r \in Runs,
                    phase'[r] = "running", LoopStop(r)'
             PROVE  stopAsked'[r] # {}
  BY DEF NoGhostStop
<1>0. /\ phase \in [Runs -> {"idle", "scheduled", "running", "finished"}]
      /\ copy \in [Runs -> Copies] /\ stopEvent \in [Copies -> BOOLEAN]
      /\ stopFlags \subseteq {"requested", "parallel"}
      /\ stopAsked \in [Runs -> SUBSET {"event", "menu"}]
  BY DEF TypeInv, TypeOK, RunType, ControlType
<1>1. CASE \E x \in Runs : Trigger(x)
  <2>1. PICK x \in Runs : Trigger(x)
    BY <1>1
  <2>2. /\ phase' = [phase EXCEPT ![x] = "scheduled"]
        /\ \A s \in Runs \ {x} : copy'[s] = copy[s]
        /\ UNCHANGED <<stopEvent, stopAsked>> /\ stopFlags' \subseteq stopFlags
    BY <1>0, <2>1 DEF Trigger, BotTrigger, WebTriggerParallel, WebTriggerSingle, WebGate, Schedule
  <2>3. r # x /\ phase[r] = "running" /\ LoopStop(r)
    BY <1>0, <2>2 DEF LoopStop
  <2> QED
    BY <2>2, <2>3 DEF NoGhostStop
<1>2. CASE \E x \in Runs : Launch(x)
  <2>1. PICK x \in Runs : Launch(x)
    BY <1>2
  <2>2. /\ phase' = [phase EXCEPT ![x] = "running"] /\ UNCHANGED <<copy, stopAsked>>
        /\ stopEvent' = [stopEvent EXCEPT ![copy[x]] = FALSE]
        /\ stopFlags' = IF copy[x] = "main" THEN {} ELSE stopFlags
    BY <2>1 DEF Launch, ClearedEvent
  <2>3. ~LoopStop(x)'
    BY <1>0, <2>2 DEF LoopStop
  <2>4. r # x /\ phase[r] = "running" /\ LoopStop(r)
    BY <1>0, <2>2, <2>3 DEF LoopStop
  <2> QED
    BY <2>2, <2>4 DEF NoGhostStop
<1>3. CASE \E x \in Runs : PrepFails(x) \/ Finish(x)
  <2>1. PICK x \in Runs : PrepFails(x) \/ Finish(x)
    BY <1>3
  <2>2. /\ phase' = [phase EXCEPT ![x] = "finished"]
        /\ stopAsked' = [stopAsked EXCEPT ![x] = {}]
        /\ UNCHANGED <<copy, stopEvent, stopFlags>>
    BY <2>1 DEF PrepFails, Finish, Over
  <2>3. phase[r] = "running" /\ LoopStop(r) /\ r # x
    BY <1>0, <2>2 DEF LoopStop
  <2> QED
    BY <1>0, <2>2, <2>3 DEF NoGhostStop
<1>4. CASE \E w \in Workers : WorkerStep(w)
  <2>1. PICK w \in Workers : WorkerStep(w)
    BY <1>4
  <2>2. UNCHANGED <<phase, copy, stopFlags>>
    BY <2>1, WorkerKinds, WorkerTold DEF runVars
  <2>3. /\ stopAsked'[r] \in {stopAsked[r], stopAsked[r] \cup {"event"}}
        /\ stopEvent'[copy[r]] => stopEvent[copy[r]] \/ stopAsked'[r] # {}
    BY <2>1, <2>2, WorkerTold
  <2> QED
    BY <2>2, <2>3 DEF NoGhostStop, LoopStop
<1>5. CASE WebStop
  <2>1. UNCHANGED phase /\ stopAsked' = Told(Active, "event")
    BY <1>5 DEF WebStop, runVars
  <2>2. r \in Active
    BY <2>1 DEF Active
  <2> QED
    BY <2>1, <2>2 DEF Told
<1>6. CASE BotStopOp \/ BotHome \/ DialogClears
  <2>1. /\ UNCHANGED <<phase, copy, stopEvent>> /\ stopFlags' = {}
        /\ stopAsked' \in {stopAsked, Told(Active, "menu")}
    BY <1>6 DEF BotStopOp, BotHome, DialogClears, ClearAtkState, runVars
  <2>2. phase[r] = "running" /\ LoopStop(r)
    BY <2>1 DEF LoopStop
  <2> QED
    BY <2>1, <2>2 DEF NoGhostStop, Told
<1>7. CASE OtherJob \/ CacheStep \/ (\E p \in Phones : WriteCount(p)) \/ UNCHANGED vars
  <2>1. UNCHANGED <<phase, copy, stopAsked, stopEvent, stopFlags>>
    BY <1>7 DEF OtherJob, CacheStep, CacheReloaded, MemberLeft, WriteCount, runVars,
       controlVars, vars
  <2> QED
    BY <2>1 DEF NoGhostStop, LoopStop
<1> QED
  BY <1>1, <1>2, <1>3, <1>4, <1>5, <1>6, <1>7, NextCases DEF RunStep, Outside

(* A run at work that sees a stop was told to stop while it was active: no   *)
(* stop outlives reset_stop_event, whichever copy the runs execute in.       *)
THEOREM GhostCorrect == Spec => []NoGhostStop
<1>1. Init => NoGhostStop
  BY DEF Init, NoGhostStop
<1> QED
  BY <1>1, GhostStep, TypeAlways, PTL DEF Spec

-----------------------------------------------------------------------------
(* The counters add up *)

Booked(r) == total[r]["added"] + total[r]["failed"] + total[r]["skipped"]
Hands(r) == {w \in WorkersOf(r) : held[w] # NoMember}
Counted(r) == Booked(r) + Len(queue[r]) + Cardinality(Hands(r))

(* The inductive invariant: a run that has not begun has booked nothing, the *)
(* hands of a run are finitely many although its accounts need not be, and   *)
(* the counters of a run at work add up.                                     *)
Unbooked ==
  \A r \in Runs : phase[r] \in {"idle", "scheduled"} => Booked(r) = 0
HandsFinite == \A r \in Runs : IsFiniteSet(Hands(r))
CountInv == Unbooked /\ HandsFinite /\ Conservation

(* The numbers that Conservation adds are natural numbers. *)
LEMMA CountTypes ==
  ASSUME TypeInv, NEW r \in Runs
  PROVE  /\ Booked(r) \in Nat /\ Len(queue[r]) \in Nat
         /\ \A o \in Results : total[r][o] \in Nat
<1>1. \A o \in Results : total[r][o] \in Nat
  BY DEF TypeInv, TypeOK, QueueType
<1>2. queue[r] \in Seq(Members)
  BY DEF TypeInv, TypeOK, QueueType
<1> QED
  BY <1>1, <1>2 DEF Booked, Results

(* Booking one more result adds one. *)
LEMMA BookedOne ==
  ASSUME TypeInv, NEW r \in Runs, NEW o \in Results,
         total' = [total EXCEPT ![r][o] = @ + 1]
  PROVE  Booked(r)' = Booked(r) + 1 /\ \A s \in Runs \ {r} : Booked(s)' = Booked(s)
<1>1. total \in [Runs -> [Results -> Nat]]
  BY DEF TypeInv, TypeOK, QueueType
<1>2. /\ total[r]["added"] \in Nat /\ total[r]["failed"] \in Nat /\ total[r]["skipped"] \in Nat
      /\ \A q \in Results : total'[r][q] = IF q = o THEN total[r][q] + 1 ELSE total[r][q]
      /\ \A s \in Runs \ {r} : total'[s] = total[s]
  BY <1>1 DEF Results
<1>3. Booked(r)' = Booked(r) + 1
  <2>1. CASE o = "added"
    BY <1>2, <2>1 DEF Booked, Results
  <2>2. CASE o = "failed"
    BY <1>2, <2>2 DEF Booked, Results
  <2>3. CASE o = "skipped"
    BY <1>2, <2>3 DEF Booked, Results
  <2> QED
    BY <2>1, <2>2, <2>3 DEF Results
<1> QED
  BY <1>2, <1>3 DEF Booked

(* One worker of r fills or empties its hand: nobody else's hands change. *)
LEMMA HandsStep ==
  ASSUME TypeInv, HandsFinite, NEW w \in Workers, NEW m \in Members \cup {NoMember},
         held' = [held EXCEPT ![w] = m]
  PROVE  /\ HandsFinite'
         /\ \A s \in Runs \ {RunOf(w)} : Hands(s)' = Hands(s)
         /\ held[w] # NoMember /\ m = NoMember =>
              Cardinality(Hands(RunOf(w))') = Cardinality(Hands(RunOf(w))) - 1
         /\ held[w] = NoMember /\ m # NoMember =>
              Cardinality(Hands(RunOf(w))') = Cardinality(Hands(RunOf(w))) + 1
<1> DEFINE r == RunOf(w)
<1>1. r \in Runs /\ w \in WorkersOf(r) /\ IsFiniteSet(Hands(r))
  BY WorkerParts DEF WorkersOf, HandsFinite
<1>2. held' = [held EXCEPT ![w] = m] /\ held \in [Workers -> Members \cup {NoMember}]
  BY DEF TypeInv, TypeOK, QueueType
<1>3. \A s \in Runs \ {r} : Hands(s)' = Hands(s)
  BY <1>2 DEF Hands, WorkersOf
<1>4. m = NoMember => Hands(r)' = Hands(r) \ {w}
  BY <1>2 DEF Hands, WorkersOf
<1>5. m # NoMember => Hands(r)' = Hands(r) \cup {w}
  BY <1>1, <1>2 DEF Hands, WorkersOf
<1>6. IsFiniteSet(Hands(r)')
  BY <1>1, <1>4, <1>5, FS_AddElement, FS_RemoveElement
<1>7. HandsFinite'
  BY <1>3, <1>6 DEF HandsFinite
<1>8. (held[w] # NoMember) = (w \in Hands(r))
  BY <1>1 DEF Hands
<1>9. /\ Cardinality(Hands(r) \ {w}) =
            IF w \in Hands(r) THEN Cardinality(Hands(r)) - 1 ELSE Cardinality(Hands(r))
      /\ Cardinality(Hands(r) \cup {w}) =
            IF w \in Hands(r) THEN Cardinality(Hands(r)) ELSE Cardinality(Hands(r)) + 1
  BY <1>1, FS_AddElement, FS_RemoveElement
<1> QED
  BY <1>3, <1>4, <1>5, <1>7, <1>8, <1>9

(* Whatever a worker does with the members of its run, the sum is kept. *)
LEMMA KindsCount ==
  ASSUME TypeInv, HandsFinite, NEW w \in Workers, PcStep(w), Kinds(w)
  PROVE  HandsFinite' /\ \A s \in Runs : Counted(s)' = Counted(s)
<1> DEFINE r == RunOf(w)
           m == held[w]
<1>1. r \in Runs /\ NoMember \in Members \cup {NoMember} /\ NoMember \notin Members
  BY WorkerParts, MembersAssumption
<1>2. /\ Booked(r) \in Nat /\ Len(queue[r]) \in Nat /\ Cardinality(Hands(r)) \in Nat
      /\ queue \in [Runs -> Seq(Members)] /\ queue[r] \in Seq(Members)
  BY <1>1, CountTypes, FS_CardinalityType DEF HandsFinite, TypeInv, TypeOK, QueueType
<1>3. (held[w] # NoMember) = (pc[w] \in Holding)
  BY DEF TypeInv, HandsMatch
<1>4. CASE KeepKind(w)
  BY <1>4 DEF KeepKind, queueVars, Booked, Hands, HandsFinite, Counted
<1>5. CASE SettleKind(w)
  <2>1. PICK o \in Results : Settle(w, o)
    BY <1>5 DEF SettleKind
  <2>2. /\ held[w] # NoMember /\ held' = [held EXCEPT ![w] = NoMember] /\ queue' = queue
        /\ total' = [total EXCEPT ![r][o] = @ + 1]
    BY <1>3, <1>5, <2>1 DEF SettleKind, Settle
  <2>3. /\ HandsFinite' /\ \A s \in Runs \ {r} : Hands(s)' = Hands(s)
        /\ Cardinality(Hands(r)') = Cardinality(Hands(r)) - 1
    BY <1>1, <2>2, HandsStep
  <2>4. Booked(r)' = Booked(r) + 1 /\ \A s \in Runs \ {r} : Booked(s)' = Booked(s)
    BY <1>1, <2>2, BookedOne
  <2>5. Counted(r)' = Counted(r)
    BY <1>2, <2>2, <2>3, <2>4 DEF Counted
  <2> QED
    BY <2>2, <2>3, <2>4, <2>5 DEF Counted
<1>6. CASE RequeueKind(w)
  <2>1. /\ held[w] # NoMember /\ held' = [held EXCEPT ![w] = NoMember] /\ total' = total
        /\ queue' = [queue EXCEPT ![r] = Append(@, m)] /\ m \in Members
    BY <1>3, <1>6, HoldingMember DEF RequeueKind, Requeue
  <2>2. /\ HandsFinite' /\ \A s \in Runs \ {r} : Hands(s)' = Hands(s)
        /\ Cardinality(Hands(r)') = Cardinality(Hands(r)) - 1
    BY <1>1, <2>1, HandsStep
  <2>3. Len(queue'[r]) = Len(queue[r]) + 1 /\ \A s \in Runs \ {r} : queue'[s] = queue[s]
    BY <1>1, <1>2, <2>1, AppendProperties
  <2>4. \A s \in Runs : Booked(s)' = Booked(s)
    BY <2>1 DEF Booked
  <2>5. Counted(r)' = Counted(r)
    BY <1>1, <1>2, <2>2, <2>3, <2>4 DEF Counted
  <2> QED
    BY <2>2, <2>3, <2>4, <2>5 DEF Counted
<1>7. ASSUME queue[r] # <<>>, queue' = [queue EXCEPT ![r] = Tail(@)]
      PROVE  /\ Len(queue'[r]) = Len(queue[r]) - 1 /\ Head(queue[r]) \in Members
             /\ \A s \in Runs \ {r} : queue'[s] = queue[s]
  BY <1>1, <1>2, <1>7, HeadTailProperties
<1>8. CASE TakeKind(w)
  <2>1. /\ held[w] = NoMember /\ held' = [held EXCEPT ![w] = Head(queue[r])] /\ total' = total
        /\ queue[r] # <<>> /\ queue' = [queue EXCEPT ![r] = Tail(@)]
    BY <1>3, <1>8 DEF TakeKind
  <2>2. /\ HandsFinite' /\ \A s \in Runs \ {r} : Hands(s)' = Hands(s)
        /\ Cardinality(Hands(r)') = Cardinality(Hands(r)) + 1
    BY <1>1, <1>7, <2>1, HandsStep
  <2>3. \A s \in Runs : Booked(s)' = Booked(s)
    BY <2>1 DEF Booked
  <2>4. Len(queue'[r]) = Len(queue[r]) - 1 /\ \A s \in Runs \ {r} : queue'[s] = queue[s]
    BY <1>7, <2>1
  <2>5. Counted(r)' = Counted(r)
    BY <1>1, <1>2, <2>2, <2>3, <2>4 DEF Counted
  <2> QED
    BY <2>2, <2>3, <2>4, <2>5 DEF Counted
<1>9. CASE RefuseKind(w)
  <2>1. /\ held' = held /\ queue[r] # <<>> /\ queue' = [queue EXCEPT ![r] = Tail(@)]
        /\ total' = [total EXCEPT ![r]["skipped"] = @ + 1]
    BY <1>9 DEF RefuseKind
  <2>2. Booked(r)' = Booked(r) + 1 /\ \A s \in Runs \ {r} : Booked(s)' = Booked(s)
    BY <1>1, <2>1, BookedOne DEF Results
  <2>3. HandsFinite' /\ \A s \in Runs : Hands(s)' = Hands(s)
    BY <2>1 DEF HandsFinite, Hands
  <2>4. Len(queue'[r]) = Len(queue[r]) - 1 /\ \A s \in Runs \ {r} : queue'[s] = queue[s]
    BY <1>7, <2>1
  <2>5. Counted(r)' = Counted(r)
    BY <1>1, <1>2, <2>2, <2>3, <2>4 DEF Counted
  <2> QED
    BY <2>2, <2>3, <2>4, <2>5 DEF Counted
<1> QED
  BY <1>4, <1>5, <1>6, <1>8, <1>9 DEF Kinds

(* A run that has not begun has empty hands. *)
LEMMA NoHands ==
  ASSUME TypeInv, NEW r \in Runs, phase[r] \in {"idle", "scheduled"}
  PROVE  Hands(r) = {} /\ Cardinality(Hands(r)) = 0
<1>1. \A w \in WorkersOf(r) : held[w] = NoMember
  BY DEF TypeInv, Asleep, HandsMatch, WorkersOf, Holding
<1>2. Hands(r) = {}
  BY <1>1 DEF Hands
<1> QED
  BY <1>2, FS_EmptySet

(* Conservation in terms of Counted, in this state and in the next. *)
LEMMA ConservationCounted ==
  /\ Conservation <=>
       \A r \in Runs : phase[r] = "running" => Cardinality(listed[r]) = Counted(r)
  /\ Conservation' <=>
       \A r \in Runs : phase'[r] = "running" => Cardinality(listed'[r]) = Counted(r)'
  BY DEF Conservation, Counted, Booked, Hands

LEMMA CountStep == TypeInv /\ CountInv /\ [Next]_vars => CountInv'
<1> SUFFICES ASSUME TypeInv, CountInv, [Next]_vars PROVE CountInv'
  OBVIOUS
<1>0. /\ phase \in [Runs -> {"idle", "scheduled", "running", "finished"}]
      /\ listed \in [Runs -> SUBSET Members] /\ queue \in [Runs -> Seq(Members)]
  BY DEF TypeInv, TypeOK, RunType, QueueType
<1>1. CASE \E x \in Runs : Trigger(x) \/ PrepFails(x) \/ Finish(x)
  <2>1. PICK x \in Runs : Trigger(x) \/ PrepFails(x) \/ Finish(x)
    BY <1>1
  <2>2. /\ UNCHANGED <<queue, total, held>>
        /\ \A s \in Runs \ {x} : phase'[s] = phase[s] /\ listed'[s] = listed[s]
        /\ \/ phase[x] = "idle" /\ phase'[x] = "scheduled"
           \/ phase'[x] = "finished"
    BY <1>0, <2>1 DEF Trigger, BotTrigger, WebTriggerParallel, WebTriggerSingle, WebGate,
       Schedule, PrepFails, Finish, Over, queueVars
  <2> QED
    BY <2>2 DEF CountInv, Unbooked, HandsFinite, Conservation, Booked, Hands
<1>2. CASE \E x \in Runs : Launch(x)
  <2>1. PICK x \in Runs : Launch(x)
    BY <1>2
  <2>2. PICK q \in Orderings(listed[x]) : queue' = [queue EXCEPT ![x] = q]
    BY <2>1 DEF Launch
  <2>3. /\ phase[x] = "scheduled" /\ phase' = [phase EXCEPT ![x] = "running"]
        /\ UNCHANGED <<listed, total, held>>
    BY <2>1 DEF Launch
  <2>4. Len(queue'[x]) = Cardinality(listed[x]) /\ Cardinality(listed[x]) \in Nat
    BY <1>0, <2>2, OrderingsType
  <2>5. \A s \in Runs : Booked(s)' = Booked(s) /\ Hands(s)' = Hands(s)
    BY <2>3 DEF Booked, Hands
  <2>6. Booked(x) = 0 /\ Cardinality(Hands(x)) = 0
    BY <2>3, NoHands DEF CountInv, Unbooked
  <2>7. \A s \in Runs \ {x} : queue'[s] = queue[s] /\ phase'[s] = phase[s]
    BY <1>0, <2>2, <2>3
  <2>8. Unbooked' /\ HandsFinite'
    BY <1>0, <2>3, <2>5, <2>7 DEF CountInv, Unbooked, HandsFinite
  <2>9. Counted(x)' = Cardinality(listed[x])
    BY <2>4, <2>5, <2>6 DEF Counted
  <2>10. \A s \in Runs \ {x} : Counted(s)' = Counted(s)
    BY <2>5, <2>7 DEF Counted
  <2>11. Conservation'
    BY <2>3, <2>7, <2>9, <2>10, ConservationCounted DEF CountInv
  <2> QED
    BY <2>8, <2>11 DEF CountInv
<1>3. CASE \E w \in Workers : WorkerStep(w)
  <2>1. PICK w \in Workers : WorkerStep(w)
    BY <1>3
  <2>2. UNCHANGED <<phase, listed>> /\ pc[w] # "off" /\ PcStep(w) /\ Kinds(w)
    BY <2>1, WorkerKinds DEF runVars
  <2>3. phase[RunOf(w)] \notin {"idle", "scheduled"}
    BY <2>2 DEF TypeInv, Asleep
  <2>4. HandsFinite' /\ \A s \in Runs : Counted(s)' = Counted(s)
    BY <2>2, KindsCount DEF CountInv
  <2>5. \A s \in Runs \ {RunOf(w)} : total'[s] = total[s]
    BY <2>2 DEF Kinds, KeepKind, SettleKind, RequeueKind, TakeKind, RefuseKind, Settle,
       Requeue, queueVars, TypeInv, TypeOK, QueueType
  <2>6. Unbooked'
    BY <2>2, <2>3, <2>5 DEF CountInv, Unbooked, Booked
  <2>7. Conservation'
    BY <2>2, <2>4, ConservationCounted DEF CountInv
  <2> QED
    BY <2>4, <2>6, <2>7 DEF CountInv
<1>4. CASE WebStop \/ Outside \/ UNCHANGED vars
  <2>1. UNCHANGED <<phase, listed, queue, total, held>>
    BY <1>4, OutsideKeeps DEF WebStop, vars, runVars, queueVars
  <2> QED
    BY <2>1 DEF CountInv, Unbooked, HandsFinite, Conservation, Booked, Hands
<1> QED
  BY <1>1, <1>2, <1>3, <1>4, NextCases DEF RunStep

(* The counters of a run at work add up to its list at every moment, for any *)
(* list, any number of accounts and any answers of Telegram.                 *)
THEOREM ConservationCorrect == Spec => []Conservation
<1>1. Init => CountInv
  <2> SUFFICES ASSUME Init PROVE CountInv
    OBVIOUS
  <2>1. \A r \in Runs : Hands(r) = {}
    BY DEF Init, Hands, WorkersOf
  <2>2. HandsFinite
    BY <2>1, FS_EmptySet DEF HandsFinite
  <2>3. Unbooked /\ Conservation
    BY DEF Init, Unbooked, Booked, Results, Conservation
  <2> QED
    BY <2>2, <2>3 DEF CountInv
<1>2. CountInv => Conservation
  BY DEF CountInv
<1> QED
  BY <1>1, <1>2, CountStep, TypeAlways, PTL DEF Spec

-----------------------------------------------------------------------------
(* One run at a time *)

(* The hypothesis of the claim below: runs follow one another.  The code     *)
(* does not enforce it (a run of the bot may go on beside another), and of   *)
(* runs that overlap it is not made.                                         *)
OneActive == \A r, s \in Active : r = s

(* Only a worker whose run works takes a step. *)
LEMMA WorkerRuns ==
  ASSUME TypeInv, Rested, NEW w \in Workers, pc[w] \notin {"off", "done"}
  PROVE  phase[RunOf(w)] = "running" /\ RunOf(w) \in Active
<1>1. RunOf(w) \in Runs /\ phase \in [Runs -> {"idle", "scheduled", "running", "finished"}]
  BY WorkerParts DEF TypeInv, TypeOK, RunType
<1> QED
  BY <1>1 DEF TypeInv, Asleep, Rested, Active

(* So two workers on the move belong to one run, and two of them on the same *)
(* account are one worker.                                                   *)
LEMMA SameRun ==
  ASSUME TypeInv, Rested, OneActive, NEW v \in Workers, NEW w \in Workers,
         pc[v] \notin {"off", "done"}, pc[w] \notin {"off", "done"}
  PROVE  RunOf(v) = RunOf(w) /\ (PhoneOf(v) = PhoneOf(w) => v = w)
<1>1. RunOf(v) = RunOf(w)
  BY WorkerRuns DEF OneActive
<1> QED
  BY <1>1 DEF Workers, RunOf, PhoneOf

(* What a step of a worker does to another one: nothing, or it wakes it.     *)
LEMMA OtherPc ==
  ASSUME TypeInv, NEW w \in Workers, NEW v \in Workers \ {w}, WorkerStep(w)
  PROVE  pc'[v] = pc[v] \/ (pc[v] \in Waiting /\ pc'[v] \in {"closing", "done"})
<1>0. pc \in [Workers -> PCs]
  BY DEF TypeInv, TypeOK, QueueType
<1>1. CASE InviteMissing(w)
  <2>1. CASE GoWait(w, "delay")
    BY <1>0, <2>1 DEF GoWait, GoTo
  <2>2. CASE \E c : pc' = [Woken(c) EXCEPT ![w] = "closing"]
    BY <1>0, <2>2 DEF Woken, StoppedAt
  <2> QED
    BY <1>1, <2>1, <2>2 DEF InviteMissing
<1>2. CASE StartStep(w) \/ LoopStep(w)
  BY <1>0, <1>2 DEF StartStep, NoSession, BeginWorker, Connect, LoopStep, TimerFires,
     LeaveLoop, TakeRefused, Take, CloseWorker, GoWait, GoTo
<1>3. CASE TryStep(w)
  BY <1>0, <1>3 DEF TryStep, Resolved, Unresolved, PeerFlood, ThrottleStopped, SendInvite,
     GoWait, GoTo
<1>4. CASE AnswerStep(w) /\ ~InviteMissing(w)
  BY <1>0, <1>4 DEF AnswerStep, InviteAdded, InviteFloodWait, AlreadyParticipant,
     PrivacyRestricted, PeerIdInvalid, ChatForbidden, TooManyChannels, InviteError, GoWait, GoTo
<1> QED
  BY <1>1, <1>2, <1>3, <1>4 DEF WorkerStep

-----------------------------------------------------------------------------
(* Nobody on record is invited *)

(* Whoever is on record is known to the run, through blocked_ids or because  *)
(* the run itself put them there, and so nobody in a hand is on record.      *)
OnRecord == addedDb \cup doNotAdd
RecordKnown ==
  \A r \in Runs : phase[r] = "running" =>
    \A m \in OnRecord : m \in blocked[r] \/ outcome[r][m] # "none"
HandsOffRecord == \A w \in Workers : pc[w] \in Holding => held[w] \notin OnRecord
RecordInv == RecordKnown /\ HandsOffRecord

(* Known members stay known. *)
LEMMA BlockedGrows ==
  ASSUME TypeInv, NEW w \in Workers, WorkerStep(w)
  PROVE  \A s \in Runs : blocked[s] \subseteq blocked'[s]
<1>0. blocked \in [Runs -> SUBSET Members]
  BY DEF TypeInv, TypeOK, WorkerType
<1>1. CASE \/ InviteMissing(w) \/ InviteAdded(w) \/ AlreadyParticipant(w)
           \/ PrivacyRestricted(w) \/ PeerIdInvalid(w)
  <2>1. PICK rs, m : BlockFor(rs, m)
    BY <1>1 DEF InviteMissing, InviteAdded, AlreadyParticipant, PrivacyRestricted, PeerIdInvalid
  <2> QED
    BY <1>0, <2>1 DEF BlockFor
<1>2. CASE UNCHANGED blocked
  BY <1>2
<1> QED
  BY <1>1, <1>2 DEF WorkerStep, StartStep, NoSession, BeginWorker, Connect, LoopStep,
     TimerFires, LeaveLoop, TakeRefused, Take, CloseWorker, TryStep, Resolved, Unresolved,
     PeerFlood, ThrottleStopped, SendInvite, AnswerStep, InviteFloodWait, ChatForbidden,
     TooManyChannels, InviteError

(* Results stay booked. *)
LEMMA OutcomeGrows ==
  ASSUME TypeInv, NEW w \in Workers, Kinds(w)
  PROVE  \A s \in Runs : \A m \in Members : outcome[s][m] # "none" => outcome'[s][m] # "none"
<1>0. outcome \in [Runs -> [Members -> Results \cup {"none"}]]
  BY DEF TypeInv, TypeOK, QueueType
<1>1. CASE SettleKind(w)
  <2>1. PICK o \in Results : Settle(w, o)
    BY <1>1 DEF SettleKind
  <2> QED
    BY <1>0, <2>1 DEF Settle, Results
<1>2. CASE RefuseKind(w)
  BY <1>0, <1>2 DEF RefuseKind
<1>3. CASE KeepKind(w) \/ RequeueKind(w) \/ TakeKind(w)
  BY <1>3 DEF KeepKind, RequeueKind, Requeue, TakeKind, queueVars
<1> QED
  BY <1>1, <1>2, <1>3 DEF Kinds

(* A worker puts on record only the member for whom it books a result. *)
LEMMA WorkerRecord ==
  ASSUME TypeInv, NEW w \in Workers, WorkerStep(w)
  PROVE  \/ OnRecord' = OnRecord
         \/ /\ pc[w] = "invite" /\ OnRecord' = OnRecord \cup {held[w]}
            /\ \E o \in Results : Settle(w, o)
<1>1. CASE \/ InviteMissing(w) \/ InviteAdded(w) \/ AlreadyParticipant(w)
           \/ PrivacyRestricted(w) \/ PeerIdInvalid(w) \/ TooManyChannels(w)
  <2>1. /\ pc[w] = "invite"
        /\ Settle(w, "added") \/ Settle(w, "skipped")
        /\ NeverAddAgain(held[w]) \/ MarkAdded(held[w])
    BY <1>1 DEF InviteMissing, InviteAdded, AlreadyParticipant, PrivacyRestricted,
       PeerIdInvalid, TooManyChannels
  <2>2. OnRecord' = OnRecord \cup {held[w]}
    BY <2>1 DEF NeverAddAgain, MarkAdded, OnRecord
  <2>3. \E o \in Results : Settle(w, o)
    <3>1. "added" \in Results /\ "skipped" \in Results
      BY DEF Results
    <3> QED
      BY <2>1, <3>1
  <2> QED
    BY <2>1, <2>2, <2>3
<1>2. CASE UNCHANGED <<addedDb, doNotAdd>>
  BY <1>2 DEF OnRecord
<1> QED
  BY <1>1, <1>2 DEF WorkerStep, StartStep, NoSession, BeginWorker, Connect, LoopStep,
     TimerFires, LeaveLoop, TakeRefused, Take, CloseWorker, TryStep, Resolved, Unresolved,
     PeerFlood, ThrottleStopped, SendInvite, AnswerStep, InviteFloodWait, ChatForbidden,
     InviteError, storeVars

(* A worker whose hand fills has taken the head of the queue, and that       *)
(* member was not refused.                                                   *)
LEMMA HandFills ==
  ASSUME TypeInv, NEW w \in Workers, WorkerStep(w), pc[w] \notin Holding, pc'[w] \in Holding
  PROVE  Take(w)
<1>1. CASE StartStep(w) \/ (LoopStep(w) /\ ~Take(w))
  <2>1. CASE TakeRefused(w)
    BY <2>1 DEF TakeRefused
  <2>2. CASE BeginWorker(w)
    BY <2>2, GoWaitStep DEF BeginWorker, Waiting, Holding
  <2>3. CASE \E s \in PCs \ Holding : GoTo(w, s)
    BY <2>3, GoToStep
  <2>4. \/ TakeRefused(w) \/ BeginWorker(w) \/ \E s \in PCs \ Holding : GoTo(w, s)
    BY <1>1 DEF StartStep, NoSession, Connect, LoopStep, TimerFires, LeaveLoop, CloseWorker,
       Waiting, Holding, PCs
  <2> QED
    BY <2>1, <2>2, <2>3, <2>4
<1>2. ~TryStep(w) /\ ~AnswerStep(w)
  BY DEF Holding, TryStep, Resolved, Unresolved, PeerFlood, ThrottleStopped, SendInvite,
     AnswerStep, InviteMissing, InviteAdded, InviteFloodWait, AlreadyParticipant,
     PrivacyRestricted, PeerIdInvalid, ChatForbidden, TooManyChannels, InviteError
<1> QED
  BY <1>1, <1>2 DEF WorkerStep

(* A worker keeps the record known and the hands off it. *)
LEMMA WorkerRecordKept ==
  ASSUME TypeInv, TypeInv', Placement, Rested, OneActive, RecordInv,
         NEW w \in Workers, WorkerStep(w)
  PROVE  RecordInv'
<1> DEFINE r == RunOf(w)
<1>1. /\ UNCHANGED runVars /\ pc[w] \notin {"off", "done"} /\ PcStep(w) /\ Kinds(w)
      /\ r \in Runs
  BY WorkerKinds, WorkerParts
<1>2. phase[r] = "running" /\ r \in Active /\ UNCHANGED phase
  BY <1>1, WorkerRuns DEF runVars
<1>3. outcome \in [Runs -> [Members -> Results \cup {"none"}]]
      /\ held \in [Workers -> Members \cup {NoMember}]
  BY DEF TypeInv, TypeOK, QueueType
<1>4. OnRecord \subseteq Members /\ OnRecord' \subseteq Members
  BY DEF TypeInv, TypeOK, StoreType, OnRecord
<1>5. RecordKnown'
  <2> SUFFICES ASSUME NEW s \in Runs, phase[s] = "running", NEW m \in OnRecord'
               PROVE  m \in blocked'[s] \/ outcome'[s][m] # "none"
    BY <1>2 DEF RecordKnown
  <2>1. CASE m \in OnRecord
    <3>1. m \in blocked[s] \/ outcome[s][m] # "none"
      BY <2>1 DEF RecordInv, RecordKnown
    <3> QED
      BY <1>1, <1>4, <2>1, <3>1, BlockedGrows, OutcomeGrows
  <2>2. CASE m \notin OnRecord
    <3>1. /\ m = held[w] /\ m \in Members
          /\ \E o \in Results : Settle(w, o)
      BY <1>4, <2>2, WorkerRecord
    <3>2. s = r
      BY <1>2 DEF OneActive, Active
    <3> QED
      BY <1>1, <1>3, <3>1, <3>2 DEF Settle, Results
  <2> QED
    BY <2>1, <2>2
<1>6. HandsOffRecord'
  <2> SUFFICES ASSUME NEW v \in Workers, pc'[v] \in Holding
               PROVE  held'[v] \notin OnRecord'
    BY DEF HandsOffRecord
  <2>1. CASE v # w
    <3>1. pc[v] \in Holding /\ held'[v] = held[v] /\ held[v] # NoMember
      <4>1. pc[v] \in Holding
        BY <1>1, <2>1 DEF PcStep
      <4>2. held'[v] = held[v]
        BY <1>1, <1>3, <2>1 DEF Kinds, KeepKind, SettleKind, Settle, RequeueKind, Requeue,
           TakeKind, RefuseKind, queueVars
      <4> QED
        BY <4>1, <4>2 DEF TypeInv, HandsMatch
    <3>2. held[v] \notin OnRecord
      BY <3>1 DEF RecordInv, HandsOffRecord
    <3>3. RunOf(v) = r
      BY <1>1, <3>1, SameRun DEF Holding
    <3>4. held[v] # held[w]
      BY <2>1, <3>1, <3>3 DEF Placement, HeldOnce
    <3> QED
      BY <3>1, <3>2, <3>4, WorkerRecord
  <2>2. CASE v = w /\ pc[w] \notin Holding
    <3> DEFINE m == Head(queue[r])
    <3>1. Take(w)
      BY <2>2, HandFills
    <3>2. /\ queue[r] # <<>> /\ m \notin blocked[r] /\ held' = [held EXCEPT ![w] = m]
          /\ queue' = [queue EXCEPT ![r] = Tail(@)] /\ UNCHANGED <<addedDb, doNotAdd>>
      BY <3>1 DEF Take, MayTake, Refused, storeVars
    <3>3. outcome[r][m] = "none"
      BY <1>1, <3>2, HeadLeaves, PlacementParts
    <3>4. m \notin OnRecord
      BY <1>1, <1>2, <3>2, <3>3 DEF RecordInv, RecordKnown
    <3> QED
      BY <1>3, <2>2, <3>2, <3>4 DEF OnRecord
  <2>3. CASE v = w /\ pc[w] \in Holding
    <3>1. held'[w] # NoMember
      BY <2>3 DEF TypeInv, HandsMatch
    <3>2. ~\E o \in Results : Settle(w, o)
      BY <1>3, <3>1 DEF Settle
    <3>3. held'[w] = held[w]
      BY <1>1, <2>3 DEF Kinds, KeepKind, SettleKind, RequeueKind, TakeKind, RefuseKind,
         queueVars
    <3> QED
      BY <2>3, <3>2, <3>3, WorkerRecord DEF RecordInv, HandsOffRecord
  <2> QED
    BY <2>1, <2>2, <2>3
<1> QED
  BY <1>5, <1>6 DEF RecordInv

LEMMA RecordStep ==
  /\ TypeInv /\ TypeInv' /\ Placement /\ Rested /\ OneActive /\ RecordInv
  /\ [Next]_vars
  => RecordInv'
<1> SUFFICES ASSUME TypeInv, TypeInv', Placement, Rested, OneActive, RecordInv, [Next]_vars
             PROVE  RecordInv'
  OBVIOUS
<1>0. /\ phase \in [Runs -> {"idle", "scheduled", "running", "finished"}]
      /\ blocked \in [Runs -> SUBSET Members] /\ pc \in [Workers -> PCs]
  BY DEF TypeInv, TypeOK, RunType, QueueType, WorkerType
<1>1. CASE \E x \in Runs : Trigger(x) \/ PrepFails(x) \/ Finish(x)
  <2>1. PICK x \in Runs : Trigger(x) \/ PrepFails(x) \/ Finish(x)
    BY <1>1
  <2>2. /\ UNCHANGED <<addedDb, doNotAdd, blocked, outcome, pc, held>>
        /\ \A s \in Runs : phase'[s] = "running" => phase[s] = "running"
    BY <1>0, <2>1 DEF Trigger, BotTrigger, WebTriggerParallel, WebTriggerSingle, WebGate,
       Schedule, PrepFails, Finish, Over, queueVars, storeVars
  <2> QED
    BY <2>2 DEF RecordInv, RecordKnown, HandsOffRecord, OnRecord
<1>2. CASE \E x \in Runs : Launch(x)
  <2>1. PICK x \in Runs : Launch(x)
    BY <1>2
  <2>2. /\ UNCHANGED <<addedDb, doNotAdd, outcome, held>>
        /\ phase' = [phase EXCEPT ![x] = "running"]
        /\ blocked' = [blocked EXCEPT ![x] = addedDb \cup doNotAdd]
        /\ \A w \in Workers : pc'[w] \in {"new", pc[w]}
    BY <1>0, <2>1 DEF Launch
  <2>3. RecordKnown'
    BY <1>0, <2>2 DEF RecordInv, RecordKnown, OnRecord
  <2>4. HandsOffRecord'
    BY <2>2 DEF RecordInv, HandsOffRecord, OnRecord, Holding
  <2> QED
    BY <2>3, <2>4 DEF RecordInv
<1>3. CASE \E w \in Workers : WorkerStep(w)
  BY <1>3, WorkerRecordKept
<1>4. CASE WebStop \/ Outside \/ UNCHANGED vars
  <2>1. UNCHANGED <<phase, blocked, outcome, held>>
    BY <1>4, OutsideKeeps DEF WebStop, vars, runVars, queueVars
  <2>4. OnRecord' = OnRecord
    <3>1. CASE \E m \in Members : MemberLeft(m)
      BY <3>1 DEF MemberLeft, NeverAddAgain, OnRecord
    <3>2. CASE ~\E m \in Members : MemberLeft(m)
      BY <1>4, <3>2 DEF WebStop, Outside, BotStopOp, BotHome, DialogClears, ClearAtkState,
         OtherJob, CacheStep, CacheReloaded, WriteCount, OnRecord, vars, storeVars
    <3> QED
      BY <3>1, <3>2
  <2>2. UNCHANGED pc \/ pc' = Woken("web")
    BY <1>4, OutsideKeeps DEF WebStop, vars
  <2>3. \A w \in Workers : pc'[w] \in Holding => pc[w] \in Holding
    BY <2>2 DEF Woken, StoppedAt, Holding
  <2> QED
    BY <2>1, <2>3, <2>4 DEF RecordInv, RecordKnown, HandsOffRecord
<1> QED
  BY <1>1, <1>2, <1>3, <1>4, NextCases DEF RunStep

(* With one run at a time, over any number of runs one after the other,      *)
(* nobody is invited who is in added_history_tbl or do_not_add_tbl at that   *)
(* moment, whichever run put them there, this one or an earlier one, and     *)
(* whoever leaves a group meanwhile.                                         *)
THEOREM RepeatCorrect == Spec /\ []OneActive => NoRepeatInvite
<1>1. Init => TypeInv /\ Placement /\ Rested /\ RecordInv
  <2>1. Init => RecordInv
    BY DEF Init, RecordInv, RecordKnown, HandsOffRecord, Holding
  <2> QED
    BY <2>1, TypeInit, PlacementInit DEF Init, Rested
<1>2. TypeInv /\ Placement /\ Rested /\ RecordInv /\ OneActive /\ [Next]_vars =>
        (TypeInv /\ Placement /\ Rested /\ RecordInv)'
  BY TypeStep, PlacementStep, RestedStep, RecordStep
<1>3. RecordInv =>
        [\A w \in Workers : SendsInvite(w) => held[w] \notin addedDb \cup doNotAdd]_vars
  BY DEF RecordInv, HandsOffRecord, SendsInvite, Holding, OnRecord
<1> QED
  BY <1>1, <1>2, <1>3, PTL DEF Spec, NoRepeatInvite

-----------------------------------------------------------------------------
(* The recorded count of an account *)

(* A worker that will write the count again counts on from what it read and  *)
(* added, which is never below what the record owes; so neither is what it   *)
(* writes, nor what is written now.                                          *)
Working(w) == pc[w] \notin {"off", "new", "closing", "done"}
CountsOn ==
  \A w \in Workers :
    /\ pc[w] \in {"off", "new"} => accAdded[w] = 0
    /\ Working(w) => made[PhoneOf(w)] <= already[w] + accAdded[w]
LimitInv == CountsOn /\ AddsAreCounted

(* What a step of a worker does to the counts: it leaves the others' alone;  *)
(* and it keeps its own, or begins with the recorded count, or records what  *)
(* it had, or records one more.  A worker that closes is over.               *)
LEMMA WorkerCounts ==
  ASSUME TypeInv, NEW w \in Workers, WorkerStep(w), NEW p \in Phones, p = PhoneOf(w)
  PROVE  /\ \A v \in Workers \ {w} : accAdded'[v] = accAdded[v] /\ already'[v] = already[v]
         /\ \A q \in Phones \ {p} : limitAdded'[q] = limitAdded[q] /\ made'[q] = made[q]
         /\ \/ /\ UNCHANGED <<countVars, limitVars>>
               /\ pc[w] \in {"new", "closing"} => pc'[w] = "done"
            \/ /\ pc[w] = "new" /\ UNCHANGED <<accAdded, limitAdded>>
               /\ already'[w] = limitAdded[p]
               /\ made'[p] = IF Counting(p) = {} THEN made[p] ELSE 0
            \/ /\ Working(w) /\ UNCHANGED <<countVars, made>>
               /\ limitAdded'[p] = already[w] + accAdded[w]
            \/ /\ Working(w) /\ UNCHANGED already
               /\ accAdded'[w] = accAdded[w] + 1
               /\ limitAdded'[p] = already[w] + accAdded'[w]
               /\ made'[p] = IF Counting(p) = {w} THEN made[p] + 1 ELSE 0
<1>0. /\ accAdded \in [Workers -> Nat] /\ already \in [Workers -> Nat]
      /\ limitAdded \in [Phones -> Nat] /\ made \in [Phones -> Nat]
      /\ pc \in [Workers -> PCs]
  BY DEF TypeInv, TypeOK, WorkerType, LimitType, QueueType
<1>1. CASE NoSession(w) \/ CloseWorker(w)
  BY <1>0, <1>1 DEF NoSession, CloseWorker, GoTo, limitVars, countVars
<1>2. CASE BeginWorker(w)
  <2>1. Owed(p, Counting(p) = {}, made[p])
    BY <1>2 DEF BeginWorker
  <2>2. /\ made'[p] = IF Counting(p) = {} THEN made[p] ELSE 0
        /\ \A q \in Phones \ {p} : made'[q] = made[q]
    BY <1>0, <2>1 DEF Owed
  <2>3. /\ already'[w] = limitAdded[p] /\ \A v \in Workers \ {w} : already'[v] = already[v]
        /\ pc[w] = "new" /\ UNCHANGED <<accAdded, limitAdded>>
    BY <1>0, <1>2 DEF BeginWorker
  <2> QED
    BY <2>2, <2>3
<1>3. CASE InviteAdded(w)
  <2>1. /\ Owed(p, Counting(p) = {w}, made[p] + 1) /\ SetLimit(w, accAdded[w] + 1)
        /\ accAdded' = [accAdded EXCEPT ![w] = @ + 1] /\ UNCHANGED already /\ pc[w] = "invite"
    BY <1>3 DEF InviteAdded
  <2>2. /\ made'[p] = IF Counting(p) = {w} THEN made[p] + 1 ELSE 0
        /\ \A q \in Phones \ {p} : made'[q] = made[q]
    BY <1>0, <2>1 DEF Owed
  <2>3. /\ limitAdded'[p] = already[w] + (accAdded[w] + 1) /\ accAdded'[w] = accAdded[w] + 1
        /\ \A q \in Phones \ {p} : limitAdded'[q] = limitAdded[q]
    BY <1>0, <2>1 DEF SetLimit
  <2> QED
    BY <1>0, <2>1, <2>2, <2>3 DEF Working
<1>4. CASE PeerFlood(w) \/ InviteFloodWait(w) \/ ChatForbidden(w)
  <2>1. /\ UNCHANGED <<countVars, made>> /\ pc[w] \in {"resolve", "invite"}
        /\ SetLimit(w, accAdded[w])
    BY <1>4 DEF PeerFlood, InviteFloodWait, ChatForbidden
  <2> QED
    BY <1>0, <2>1 DEF SetLimit, Working, countVars
<1>5. CASE UNCHANGED <<countVars, limitVars>> /\ pc[w] \notin {"new", "closing"}
  BY <1>5 DEF countVars, limitVars
<1> QED
  BY <1>1, <1>2, <1>3, <1>4, <1>5 DEF WorkerStep, StartStep, Connect, LoopStep,
     TimerFires, LeaveLoop, TakeRefused, Take, MayTake, Waiting, TryStep,
     Resolved, Unresolved, ThrottleStopped, SendInvite, AnswerStep, InviteMissing,
     AlreadyParticipant, PrivacyRestricted, PeerIdInvalid, TooManyChannels, InviteError

(* A worker is asleep or new afterwards only if it was, and on the move only *)
(* if it was or has just begun.                                              *)
LEMMA WorkingStep ==
  ASSUME TypeInv, NEW w \in Workers, WorkerStep(w)
  PROVE  /\ pc'[w] \notin {"off", "new"}
         /\ \A v \in Workers \ {w} :
              /\ pc'[v] \in {"off", "new"} => pc[v] \in {"off", "new"}
              /\ Working(v)' => Working(v)
<1>1. pc'[w] \notin {"off", "new"}
  <2> DEFINE Waits == \E s \in Waiting : GoWait(w, s)
             Goes == \E s \in PCs \ {"off", "new"} : GoTo(w, s)
             Wakes == \E c : pc' = [Woken(c) EXCEPT ![w] = "closing"]
  <2>1. CASE Waits
    BY <2>1, GoWaitStep DEF Waiting
  <2>2. CASE Goes
    BY <2>2, GoToStep
  <2>3. CASE Wakes
    BY <2>3 DEF Woken
  <2>4. CASE TakeRefused(w)
    BY <2>4 DEF TakeRefused, MayTake
  <2>5. StartStep(w) \/ LoopStep(w) => TakeRefused(w) \/ Waits \/ Goes
    BY DEF StartStep, NoSession, BeginWorker, Connect, LoopStep, TimerFires, LeaveLoop, Take,
       CloseWorker, Waiting, Holding, PCs
  <2>6. TryStep(w) => Waits \/ Goes
    BY DEF TryStep, Resolved, Unresolved, PeerFlood, ThrottleStopped, SendInvite, Waiting,
       Holding, PCs
  <2>7. AnswerStep(w) => Waits \/ Goes \/ Wakes
    BY DEF AnswerStep, InviteMissing, InviteAdded, InviteFloodWait, AlreadyParticipant,
       PrivacyRestricted, PeerIdInvalid, ChatForbidden, TooManyChannels, InviteError, Waiting,
       Holding, PCs
  <2> QED
    BY <2>1, <2>2, <2>3, <2>4, <2>5, <2>6, <2>7 DEF WorkerStep
<1>2. ASSUME NEW v \in Workers \ {w}
      PROVE  /\ pc'[v] \in {"off", "new"} => pc[v] \in {"off", "new"}
             /\ Working(v)' => Working(v)
  BY OtherPc DEF Working, Waiting
<1> QED
  BY <1>1, <1>2

(* A worker keeps the counts: whoever else counts on the same account has    *)
(* freed the record of what it owed.                                         *)
LEMMA WorkerLimitKept ==
  ASSUME TypeInv, LimitInv, NEW w \in Workers, WorkerStep(w)
  PROVE  LimitInv'
<1> DEFINE p == PhoneOf(w)
<1>0. /\ accAdded \in [Workers -> Nat] /\ already \in [Workers -> Nat]
      /\ limitAdded \in [Phones -> Nat] /\ made \in [Phones -> Nat]
      /\ p \in Phones /\ pc[w] \notin {"off", "done"}
  BY WorkerParts, WorkerKinds DEF TypeInv, TypeOK, WorkerType, LimitType
<1>1. /\ \A v \in Workers \ {w} : accAdded'[v] = accAdded[v] /\ already'[v] = already[v]
      /\ \A q \in Phones \ {p} : limitAdded'[q] = limitAdded[q] /\ made'[q] = made[q]
  BY <1>0, WorkerCounts
<1>2. \A v \in Workers \ {w} :
        /\ pc'[v] \in {"off", "new"} => pc[v] \in {"off", "new"}
        /\ Working(v)' => Working(v)
  BY WorkingStep
<1>3. \A v \in Workers : v \in Counting(PhoneOf(v)) <=> Working(v)
  BY DEF Counting, Working
<1>4. /\ made[p] <= limitAdded[p]
      /\ pc[w] = "new" => accAdded[w] = 0
      /\ Working(w) => made[p] <= already[w] + accAdded[w]
  BY <1>0 DEF LimitInv, CountsOn, AddsAreCounted
(* What the step leaves is enough for the account and for the worker itself, *)
(* and the other workers of the account lose nothing.                        *)
<1>5. /\ made'[p] <= limitAdded'[p]
      /\ Working(w)' => made'[p] <= already'[w] + accAdded'[w]
      /\ made'[p] <= made[p] \/ \A v \in Workers \ {w} : PhoneOf(v) = p => ~Working(v)
  <2>1. CASE /\ UNCHANGED <<countVars, limitVars>>
             /\ pc[w] \in {"new", "closing"} => pc'[w] = "done"
    BY <1>0, <1>4, <2>1 DEF Working, countVars, limitVars
  <2>2. CASE /\ pc[w] = "new" /\ UNCHANGED <<accAdded, limitAdded>>
             /\ already'[w] = limitAdded[p]
             /\ made'[p] = IF Counting(p) = {} THEN made[p] ELSE 0
    BY <1>0, <1>4, <2>2
  <2>3. CASE /\ Working(w) /\ UNCHANGED <<countVars, made>>
             /\ limitAdded'[p] = already[w] + accAdded[w]
    BY <1>0, <1>4, <2>3 DEF countVars
  <2>4. CASE /\ Working(w) /\ UNCHANGED already
             /\ accAdded'[w] = accAdded[w] + 1
             /\ limitAdded'[p] = already[w] + accAdded'[w]
             /\ made'[p] = IF Counting(p) = {w} THEN made[p] + 1 ELSE 0
    BY <1>0, <1>3, <1>4, <2>4
  <2> QED
    BY <1>0, <2>1, <2>2, <2>3, <2>4, WorkerCounts
<1>6. CountsOn'
  <2> SUFFICES ASSUME NEW v \in Workers
               PROVE  /\ pc'[v] \in {"off", "new"} => accAdded'[v] = 0
                      /\ Working(v)' => made'[PhoneOf(v)] <= already'[v] + accAdded'[v]
    BY DEF CountsOn
  <2>1. CASE v = w
    BY <1>5, <2>1, WorkingStep
  <2>2. CASE v # w
    <3>1. /\ pc[v] \in {"off", "new"} => accAdded[v] = 0
          /\ Working(v) => made[PhoneOf(v)] <= already[v] + accAdded[v]
      BY DEF LimitInv, CountsOn
    <3>2. Working(v) => made'[PhoneOf(v)] <= made[PhoneOf(v)]
      BY <1>0, <1>1, <1>5, <2>2, WorkerParts
    <3>3. /\ made[PhoneOf(v)] \in Nat /\ made'[PhoneOf(v)] \in Nat
          /\ already[v] \in Nat /\ accAdded[v] \in Nat
      <4>1. LimitType'
        BY WorkerDataType
      <4> QED
        BY <1>0, <4>1, WorkerParts DEF LimitType
    <3> QED
      BY <1>1, <1>2, <2>2, <3>1, <3>2, <3>3
  <2> QED
    BY <2>1, <2>2
<1>7. AddsAreCounted'
  BY <1>1, <1>5 DEF LimitInv, AddsAreCounted
<1> QED
  BY <1>6, <1>7 DEF LimitInv

(* What leaves the record and the counts of the workers on the move alone,   *)
(* and starts none of them, keeps the invariant.                             *)
LEMMA LimitStays ==
  ASSUME LimitInv, UNCHANGED limitVars,
         \A w \in Workers :
           /\ pc'[w] \in {"off", "new"} => accAdded'[w] \in {0, accAdded[w]} /\ pc[w] \in {"off", "new"}
           /\ Working(w)' => Working(w) /\ accAdded'[w] = accAdded[w] /\ already'[w] = already[w]
  PROVE  LimitInv'
  BY DEF LimitInv, CountsOn, AddsAreCounted, limitVars

LEMMA LimitStep == TypeInv /\ LimitInv /\ [Next]_vars => LimitInv'
<1> SUFFICES ASSUME TypeInv, LimitInv, [Next]_vars PROVE LimitInv'
  OBVIOUS
<1>1. CASE \E w \in Workers : WorkerStep(w)
  BY <1>1, WorkerLimitKept
<1>2. CASE \E x \in Runs : Launch(x)
  <2>1. PICK x \in Runs : Launch(x)
    BY <1>2
  <2>2. UNCHANGED <<accAdded, already, limitVars>>
    BY <2>1 DEF Launch, countVars
  <2>3. \A w \in Workers : pc'[w] = pc[w] \/ (pc[w] = "off" /\ pc'[w] = "new")
    BY <2>1 DEF Launch, TypeInv, Asleep, TypeOK, QueueType
  <2> QED
    BY <2>2, <2>3, LimitStays DEF Working
<1>3. CASE \E x \in Runs : PrepFails(x) \/ Finish(x)
  <2>1. PICK x \in Runs : PrepFails(x) \/ Finish(x)
    BY <1>3
  <2>2. /\ UNCHANGED <<pc, limitVars>>
        /\ accAdded' = [w \in Workers |-> IF RunOf(w) = x THEN 0 ELSE accAdded[w]]
        /\ already' = [w \in Workers |-> IF RunOf(w) = x THEN 0 ELSE already[w]]
    BY <2>1 DEF PrepFails, Finish, Over
  <2>3. ASSUME NEW w \in Workers, RunOf(w) = x PROVE ~Working(w)
    <3>1. w = <<x, PhoneOf(w)>> /\ PhoneOf(w) \in Phones
      BY <2>3 DEF Workers, RunOf, PhoneOf
    <3> QED
      BY <2>1, <2>3, <3>1 DEF PrepFails, Finish, TypeInv, Asleep, Working
  <2> QED
    BY <2>2, <2>3, LimitStays DEF Working
<1>4. CASE \E p \in Phones : WriteCount(p)
  <2>1. PICK p \in Phones, n \in OtherCounts :
          limitAdded' = [limitAdded EXCEPT ![p] = n] /\ Owed(p, Counting(p) = {}, n)
    BY <1>4 DEF WriteCount
  <2>2. /\ n \in Nat /\ limitAdded \in [Phones -> Nat] /\ made \in [Phones -> Nat]
        /\ accAdded \in [Workers -> Nat] /\ already \in [Workers -> Nat]
    BY BoundsAssumption DEF TypeInv, TypeOK, LimitType, WorkerType
  <2>3. /\ made'[p] = IF Counting(p) = {} THEN n ELSE 0
        /\ \A q \in Phones \ {p} : made'[q] = made[q] /\ limitAdded'[q] = limitAdded[q]
        /\ limitAdded'[p] = n
    BY <2>1, <2>2 DEF Owed
  <2>4. UNCHANGED <<pc, accAdded, already>>
    BY <1>4 DEF WriteCount, countVars
  <2>5. CountsOn'
    <3> SUFFICES ASSUME NEW w \in Workers, Working(w)
                 PROVE  made'[PhoneOf(w)] <= already[w] + accAdded[w]
      BY <2>4 DEF CountsOn, LimitInv, Working
    <3>1. CASE PhoneOf(w) = p
      <4>1. made'[p] = 0
        BY <2>3, <3>1 DEF Counting, Working
      <4> QED
        BY <2>2, <3>1, <4>1
    <3>2. CASE PhoneOf(w) # p
      BY <2>3, <3>2, WorkerParts DEF LimitInv, CountsOn
    <3> QED
      BY <3>1, <3>2
  <2>6. AddsAreCounted'
    BY <2>2, <2>3 DEF LimitInv, AddsAreCounted
  <2> QED
    BY <2>5, <2>6 DEF LimitInv
<1>5. CASE \/ \E x \in Runs : Trigger(x)
           \/ Outside /\ ~(\E p \in Phones : WriteCount(p))
           \/ UNCHANGED vars
  <2>1. UNCHANGED <<pc, accAdded, already, limitVars>>
    BY <1>5, OutsideKeeps DEF Trigger, BotTrigger, WebTriggerParallel, WebTriggerSingle,
       WebGate, Schedule, Outside, BotStopOp, BotHome, DialogClears, ClearAtkState, OtherJob,
       CacheStep, CacheReloaded, MemberLeft, vars, countVars
  <2> QED
    BY <2>1, LimitStays DEF Working
<1>6. CASE WebStop
  <2>1. UNCHANGED <<accAdded, already, limitVars>> /\ pc' = Woken("web")
    BY <1>6 DEF WebStop, countVars
  <2>2. \A w \in Workers :
          pc'[w] = pc[w] \/ (pc[w] \in Waiting /\ pc'[w] \in {"closing", "done"})
    BY <2>1 DEF Woken, StoppedAt
  <2> QED
    BY <2>1, <2>2, LimitStays DEF Working, Waiting
<1> QED
  BY <1>1, <1>2, <1>3, <1>4, <1>5, <1>6, NextCases DEF RunStep

(* The count recorded for an account covers the adds of every worker that    *)
(* had the account for itself, over any number of runs, overlapping or not,  *)
(* and whatever others write there meanwhile.                                *)
THEOREM LimitCorrect == Spec => []AddsAreCounted
<1>1. Init => LimitInv
  BY BoundsAssumption DEF Init, LimitInv, CountsOn, AddsAreCounted, Working
<1>2. LimitInv => AddsAreCounted
  BY DEF LimitInv
<1> QED
  BY <1>1, <1>2, LimitStep, TypeAlways, PTL DEF Spec
=============================================================================
