---------------------------- MODULE MenuAddProofs ----------------------------
(***************************************************************************)
(* Proofs about the lists of the menu's add loops, for any members,        *)
(* accounts and loops.                                                     *)
(*                                                                         *)
(* Nobody on record is invited because the cache, while there is one, is   *)
(* never behind the tables: whoever writes a table either adds the member  *)
(* to the cache or throws the cache away before anybody can read it.  So   *)
(* no list was ever made with a member missing from the filter.            *)
(***************************************************************************)
EXTENDS MenuAdd, TLAPS

(* The cache covers both tables. *)
CacheComplete == cache # NoCache => OnRecord \subseteq cache

(* No list holds a member that the filter should have known. *)
NoneMissed ==
  /\ missed \in [Tasks -> SUBSET Members] /\ \A t \in Tasks : missed[t] = {}
  /\ pmissed = {}

(* The inductive invariant. *)
IInv == CacheComplete /\ NoneMissed /\ RefusedNotStored

(* Used by every step: how the variables are grouped. *)
USE NoneAssumption DEF tables, dialog, locals, work, object

(* Whoever asks for the blocked set gets everybody on record. *)
LEMMA CachedCovers == IInv => OnRecord \subseteq Cached
  BY DEF IInv, CacheComplete, Cached

(* What a step leaves alone stays right. *)
LEMMA RestKeeps ==
  ASSUME IInv, UNCHANGED <<tables, cache, missed, pmissed>>
  PROVE  IInv'
  BY DEF IInv, CacheComplete, NoneMissed, RefusedNotStored, OnRecord

(* Reading fills the cache with what the tables hold. *)
LEMMA FilledKeeps ==
  ASSUME IInv, cache' = Cached, UNCHANGED <<history, dna>>
  PROVE  CacheComplete'
  BY CachedCovers DEF CacheComplete, OnRecord

(* An added member goes to the table and to the cache. *)
LEMMA MarkAddedKeeps ==
  ASSUME IInv, NEW m, MarkAdded(m)
  PROVE  CacheComplete' /\ RefusedNotStored'
<1>1. CacheComplete'
  BY DEF IInv, CacheComplete, MarkAdded, OnRecord
<1>2. RefusedNotStored'
  BY DEF IInv, RefusedNotStored, MarkAdded
<1> QED  BY <1>1, <1>2

(* A refused member loses the row, and the cache goes. *)
LEMMA RefusedKeeps ==
  ASSUME IInv, NEW m, NeverAddAgain(m), Invalidated
  PROVE  CacheComplete' /\ RefusedNotStored'
<1>1. CacheComplete'
  BY DEF CacheComplete, Invalidated, NoCache
<1>2. RefusedNotStored'
  BY DEF IInv, RefusedNotStored, NeverAddAgain
<1> QED  BY <1>1, <1>2

(* What happens to members beside the loops. *)
LEMMA MemberStepKeeps ==
  ASSUME IInv, MemberStep
  PROVE  IInv'
<1>1. ASSUME NEW m \in Members, Refuse(m) PROVE IInv'
  BY <1>1, RefusedKeeps DEF Refuse, IInv, NoneMissed
<1>2. ASSUME NEW m \in Members, MemberLeft(m) PROVE IInv'
  <2>1. CASE m \in Cached
    BY <1>2, <2>1, RefusedKeeps DEF MemberLeft, IInv, NoneMissed
  <2>2. CASE m \notin Cached
    <3>1. CacheComplete' /\ UNCHANGED <<scraped, dna, missed, pmissed>>
      BY <1>2, <2>2, FilledKeeps DEF MemberLeft
    <3> QED  BY <3>1 DEF IInv, NoneMissed, RefusedNotStored
  <2> QED  BY <2>1, <2>2
<1>3. ASSUME NEW ms \in SUBSET Members, SaveScraped(ms) PROVE IInv'
  <2>1. CacheComplete'
    BY <1>3, FilledKeeps DEF SaveScraped
  <2>2. RefusedNotStored'
    BY <1>3 DEF SaveScraped, Storable, OnRecord, IInv, RefusedNotStored
  <2> QED  BY <1>3, <2>1, <2>2 DEF SaveScraped, IInv, NoneMissed
<1>4. ASSUME NEW ms \in SUBSET Members, BulkSave(ms) PROVE IInv'
  <2>1. RefusedNotStored'
    BY <1>4 DEF BulkSave, Storable, OnRecord, IInv, RefusedNotStored
  <2> QED  BY <1>4, <2>1 DEF BulkSave, IInv, CacheComplete, NoneMissed, OnRecord
<1>5. CASE CacheExpires
  BY <1>5 DEF CacheExpires, IInv, CacheComplete, NoneMissed, RefusedNotStored, NoCache
<1>6. CASE PurgeAdded \/ PurgeDoNotAdd
  BY <1>6 DEF PurgeAdded, PurgeDoNotAdd, Purge, IInv, CacheComplete, NoneMissed,
              RefusedNotStored, OnRecord
<1> QED  BY <1>1, <1>2, <1>3, <1>4, <1>5, <1>6 DEF MemberStep

(* A list of the dialog is filtered with a complete set. *)
LEMMA DialogStepKeeps ==
  ASSUME IInv, DialogStep
  PROVE  IInv'
<1>1. ASSUME NEW ms \in SUBSET scraped, PrepareList(ms) PROVE IInv'
  <2>1. CacheComplete'
    BY <1>1, FilledKeeps DEF PrepareList
  <2>2. pmissed' = {}
    BY <1>1, CachedCovers DEF PrepareList
  <2> QED  BY <1>1, <2>1, <2>2 DEF PrepareList, IInv, NoneMissed, RefusedNotStored
<1>2. CASE Preview
  BY <1>2, FilledKeeps DEF Preview, IInv, NoneMissed, RefusedNotStored
<1>3. CASE Clear
  BY <1>3 DEF Clear, IInv, CacheComplete, NoneMissed, RefusedNotStored, OnRecord
<1>4. CASE RequestStop
  BY <1>4, RestKeeps DEF RequestStop
<1> QED  BY <1>1, <1>2, <1>3, <1>4 DEF DialogStep

(* A loop that is over has missed nobody. *)
LEMMA OverKeeps ==
  ASSUME IInv, NEW t \in Tasks, Over(t), UNCHANGED <<tables, cache, dialog>>
  PROVE  IInv'
<1>1. NoneMissed'
  BY DEF IInv, NoneMissed, Over
<1> QED  BY <1>1 DEF IInv, CacheComplete, RefusedNotStored, OnRecord

(* The steps of a loop. *)
LEMMA TaskStepKeeps ==
  ASSUME IInv, NEW t \in Tasks, TaskStep(t)
  PROVE  IInv'
<1>1. CASE GiveUp(t) \/ Ends(t)
  BY <1>1, OverKeeps DEF GiveUp, Ends
<1>2. ASSUME NEW p \in Phones, NEW b \in 0..Max, StartLive(t, p, b) PROVE IInv'
  BY <1>2, RestKeeps DEF StartLive, Begin
<1>3. ASSUME NEW p \in Phones, NEW ms \in SUBSET Members, StartQuick(t, p, ms) PROVE IInv'
  BY <1>3, RestKeeps DEF StartQuick, Begin
<1>4. CASE LiveEnter(t)
  <2>1. CacheComplete'
    BY <1>4, FilledKeeps DEF LiveEnter
  <2>2. NoneMissed'
    BY <1>4, CachedCovers DEF LiveEnter, IInv, NoneMissed
  <2> QED  BY <1>4, <2>1, <2>2 DEF LiveEnter, IInv, RefusedNotStored
<1>5. CASE LiveScanned(t)
  <2>1. CASE todo[t] = {}
    BY <1>5, <2>1, OverKeeps DEF LiveScanned
  <2>2. CASE todo[t] # {}
    BY <1>5, <2>2, RestKeeps DEF LiveScanned
  <2> QED  BY <2>1, <2>2
<1>6. ASSUME NEW m \in Members, LiveScan(t, m) \/ Invite(t, m) PROVE IInv'
  BY <1>6, RestKeeps DEF LiveScan, Invite
<1>7. CASE Joined(t) \/ WasThere(t)
  <2>1. CASE kind[t] = "quick" /\ WasThere(t)
    BY <2>1, RestKeeps DEF WasThere
  <2>2. CASE MarkAdded(cur[t]) /\ UNCHANGED <<missed, pmissed>>
    BY <2>2, MarkAddedKeeps DEF IInv, NoneMissed
  <2> QED  BY <1>7, <2>1, <2>2 DEF Joined, WasThere
<1>8. CASE Missed(t) \/ Dropped(t)
  BY <1>8, RestKeeps DEF Missed, Dropped
<1> QED
  BY <1>1, <1>2, <1>3, <1>4, <1>5, <1>6, <1>7, <1>8 DEF TaskStep

(* A parallel run takes over what the dialog missed, which is nobody. *)
LEMMA StartDbKeeps ==
  ASSUME IInv, NEW f, NEW w, StartDb(f, w)
  PROVE  IInv'
<1>1. NoneMissed'
  BY DEF IInv, NoneMissed, StartDb
<1>2. UNCHANGED <<tables, cache>>
  BY DEF StartDb
<1> QED  BY <1>1, <1>2 DEF IInv, CacheComplete, RefusedNotStored, OnRecord

-----------------------------------------------------------------------------
(* Empty tables, no cache, no list. *)
LEMMA InitInv == Init => IInv
  BY DEF Init, IInv, CacheComplete, NoneMissed, RefusedNotStored

(* Every step keeps the invariant. *)
LEMMA NextKeeps == IInv /\ [Next]_vars => IInv'
<1> SUFFICES ASSUME IInv, [Next]_vars PROVE IInv'
  OBVIOUS
<1>1. CASE MemberStep
  BY <1>1, MemberStepKeeps
<1>2. CASE DialogStep
  BY <1>2, DialogStepKeeps
<1>3. CASE Reset
  BY <1>3, RestKeeps DEF Reset
<1>4. ASSUME NEW t \in Tasks, TaskStep(t) PROVE IInv'
  BY <1>4, TaskStepKeeps
<1>5. ASSUME NEW f \in [plist -> Phones \cup {NoPhone}], NEW w \in [Phones -> Tasks], StartDb(f, w)
      PROVE  IInv'
  BY <1>5, StartDbKeeps
<1>6. CASE UNCHANGED vars
  BY <1>6, RestKeeps DEF vars
<1> QED  BY <1>1, <1>2, <1>3, <1>4, <1>5, <1>6 DEF Next

(* The invariant holds in every run. *)
THEOREM MenuInvariant == Spec => []IInv
  BY InitInv, NextKeeps, PTL DEF Spec

(* For any members, accounts and loops, nobody who was on record when a    *)
(* list of the live scan or of the table was made is invited from it.      *)
THEOREM NotInvitedCorrect == Spec => []RefusedNotInvited
<1>1. IInv => RefusedNotInvited
  BY DEF IInv, NoneMissed, RefusedNotInvited
<1> QED  BY <1>1, MenuInvariant, PTL

(* And nobody refused for good has a row in the table of members. *)
THEOREM NotStoredCorrect == Spec => []RefusedNotStored
<1>1. IInv => RefusedNotStored
  BY DEF IInv
<1> QED  BY <1>1, MenuInvariant, PTL

-----------------------------------------------------------------------------
(* Types.  A loop that runs has an account and a run it belongs to, and one  *)
(* that invites has somebody to invite.                                      *)
Hired == \A t \in Tasks :
  Running(t) => who[t] \in Phones /\ lead[t] \in Tasks /\ pc[lead[t]] # "idle"
Asking == \A t \in Tasks : At(t, "inviting") => cur[t] \in Members
TypeInv == TypeOK /\ Hired /\ Asking

(* Being handed the cache, replacing it and adding to it keep a loop's       *)
(* shared set equal to it.                                                   *)
LEMMA CachedType ==
  ASSUME TypeOK
  PROVE  Cached \subseteq Members /\ (\A t \in Tasks : shares[t] => cache = Cached)
BY DEF TypeOK, TableType, CacheType, Cached, OnRecord, NoCache

LEMMA FilledType ==
  ASSUME TypeOK, cache' = Cached, UNCHANGED object
  PROVE  CacheType'
BY CachedType DEF TypeOK, CacheType

LEMMA ReplacedType ==
  ASSUME TypeOK, cache' = NoCache, Replaced
  PROVE  CacheType'
BY DEF TypeOK, CacheType, Replaced

LEMMA MarkAddedType ==
  ASSUME TypeOK, NEW m \in Members, MarkAdded(m)
  PROVE  /\ CacheType'
         /\ scraped' \subseteq Members /\ history' \subseteq Members /\ dna' \subseteq Members
<1>1. cache' \in (SUBSET Members) \cup {NoCache} /\ blocked' \in [Tasks -> SUBSET Members]
  BY DEF TypeOK, CacheType, MarkAdded
<1>2. ASSUME NEW t \in Tasks, shares[t] PROVE blocked'[t] = cache'
  <2>1. blocked[t] = cache /\ cache # NoCache
    BY <1>2 DEF TypeOK, CacheType, NoCache
  <2> QED  BY <1>2, <2>1 DEF MarkAdded
<1> QED  BY <1>1, <1>2 DEF TypeOK, CacheType, TableType, MarkAdded

(* The loops' own variables and the dialog's stay right when left alone. *)
LEMMA TasksKept ==
  ASSUME TypeInv, UNCHANGED <<locals, work, snap, foreign>>
  PROVE  TaskType' /\ Hired' /\ Asking'
BY DEF TypeInv, TypeOK, TaskType, Hired, Asking, Running, At

LEMMA DialogKept ==
  ASSUME TypeOK, UNCHANGED <<dialog, stop>>
  PROVE  DialogType'
BY DEF TypeOK, DialogType

LEMMA MemberStepType ==
  ASSUME TypeInv, MemberStep
  PROVE  TypeInv'
<1>1. UNCHANGED <<dialog, stop, locals, work, snap, foreign, limit>>
  BY DEF MemberStep, Refuse, MemberLeft, SaveScraped, BulkSave, CacheExpires, PurgeAdded,
         PurgeDoNotAdd, Purge
<1>2. TypeOK /\ Cached \subseteq Members
  BY CachedType DEF TypeInv
<1>3. TableType'
  BY <1>1, <1>2 DEF MemberStep, Refuse, MemberLeft, NeverAddAgain, SaveScraped, BulkSave,
         Storable, CacheExpires, PurgeAdded, PurgeDoNotAdd, Purge, TypeOK, TableType
<1>4. CacheType'
  <2>1. CASE cache' = NoCache /\ Replaced
    BY <1>2, <2>1, ReplacedType
  <2>2. CASE cache' = Cached /\ UNCHANGED object
    BY <1>2, <2>2, FilledType
  <2>3. CASE UNCHANGED <<cache, object>>
    BY <1>2, <2>3 DEF TypeOK, CacheType
  <2> QED
    BY <2>1, <2>2, <2>3 DEF MemberStep, Refuse, MemberLeft, Invalidated, SaveScraped,
       BulkSave, CacheExpires, PurgeAdded, PurgeDoNotAdd, Purge
<1> QED  BY <1>1, <1>2, <1>3, <1>4, TasksKept, DialogKept DEF TypeInv, TypeOK

LEMMA DialogStepType ==
  ASSUME TypeInv, DialogStep
  PROVE  TypeInv'
<1>1. UNCHANGED <<tables, limit, locals, work, snap, foreign, object>>
  BY DEF DialogStep, PrepareList, Preview, Clear, RequestStop
<1>2. TypeOK
  BY DEF TypeInv
<1>3. DialogType'
  BY <1>2 DEF DialogStep, PrepareList, Preview, Clear, RequestStop, TypeOK, DialogType,
              TableType
<1>4. CacheType'
  <2>1. CASE cache' = Cached
    BY <1>1, <1>2, <2>1, FilledType
  <2>2. CASE UNCHANGED cache
    BY <1>1, <1>2, <2>2 DEF TypeOK, CacheType
  <2> QED  BY <2>1, <2>2 DEF DialogStep, PrepareList, Preview, Clear, RequestStop
<1>5. TableType'
  BY <1>1, <1>2 DEF TypeOK, TableType
<1> QED  BY <1>1, <1>3, <1>4, <1>5, TasksKept DEF TypeInv, TypeOK

(* The counters stay natural numbers. *)
LEMMA CountedType ==
  ASSUME TypeInv, NEW t \in Tasks, Running(t), Counted(t)
  PROVE  limit' \in [Phones -> Nat] /\ snap' \in [Tasks -> [Phones -> Nat]]
<1>1. who[t] \in Phones /\ lead[t] \in Tasks
  BY DEF TypeInv, Hired
<1>2. NewCount(t) \in Nat
  BY <1>1 DEF TypeInv, TypeOK, TableType, TaskType, NewCount
<1>3. CASE kind[t] = "db"
  <2>1. snap' = [snap EXCEPT ![lead[t]][who[t]] = NewCount(t)] /\ limit' = snap'[lead[t]]
    BY <1>3 DEF Counted, LimitsOf
  <2>2. snap' \in [Tasks -> [Phones -> Nat]]
    BY <1>1, <1>2, <2>1 DEF TypeInv, TypeOK, TaskType
  <2> QED  BY <1>1, <2>1, <2>2
<1>4. CASE kind[t] # "db"
  BY <1>1, <1>2, <1>4 DEF Counted, TypeInv, TypeOK, TableType, TaskType
<1> QED  BY <1>3, <1>4

(* A loop that moves on inside its run. *)
LEMMA MovesType ==
  ASSUME TypeInv, NEW t \in Tasks, Running(t),
         NEW s \in {"resolving", "scan", "add", "inviting"}, Go(t, s),
         UNCHANGED <<kind, who, base, lead>>, missed' \in [Tasks -> SUBSET Members],
         todo' \in [Tasks -> SUBSET Members],
         cur' \in [Tasks -> Members \cup {NoMember}],
         \A u \in Tasks \ {t} : cur'[u] = cur[u],
         s = "inviting" => cur'[t] \in Members,
         made' \in [Tasks -> Nat], snap' \in [Tasks -> [Phones -> Nat]],
         foreign' \in [Tasks -> BOOLEAN]
  PROVE  TaskType' /\ Hired' /\ Asking'
<1>1. TaskType'
  BY DEF TypeInv, TypeOK, TaskType, Go
<1>2. \A u \in Tasks : u # t => pc'[u] = pc[u]
  BY DEF TypeInv, TypeOK, TaskType, Go
<1>3. pc'[t] = s
  BY DEF TypeInv, TypeOK, TaskType, Go
<1>4. Hired'
  BY <1>2, <1>3 DEF TypeInv, Hired, Running
<1>5. Asking'
  BY <1>2, <1>3 DEF TypeInv, Asking, At
<1> QED  BY <1>1, <1>4, <1>5

(* A loop that begins. *)
LEMMA BeginType ==
  ASSUME TypeInv, NEW t \in Tasks, NEW k \in {"live", "quick"}, NEW p \in Phones,
         NEW b \in Nat, NEW ms \in SUBSET Members, NEW s \in {"resolving", "add"},
         Begin(t, k, p, b, ms, s), UNCHANGED <<snap, foreign>>
  PROVE  TaskType' /\ Hired' /\ Asking'
<1>1. TaskType'
  BY DEF TypeInv, TypeOK, TaskType, Begin, Go
<1>2. \A u \in Tasks : u # t => pc'[u] = pc[u] /\ who'[u] = who[u] /\ lead'[u] = lead[u]
  BY DEF TypeInv, TypeOK, TaskType, Begin, Go
<1>3. pc'[t] = s /\ who'[t] = p /\ lead'[t] = t /\ cur' = cur
  BY DEF TypeInv, TypeOK, TaskType, Begin, Go
<1>4. Hired'
  BY <1>2, <1>3 DEF TypeInv, Hired, Running
<1>5. Asking'
  BY <1>2, <1>3 DEF TypeInv, Asking, At
<1> QED  BY <1>1, <1>4, <1>5

(* A loop that ends. *)
LEMMA OverType ==
  ASSUME TypeInv, NEW t \in Tasks, Over(t)
  PROVE  TaskType' /\ Hired' /\ Asking'
<1>1. snap' \in [Tasks -> [Phones -> Nat]]
  BY DEF TypeInv, TypeOK, TaskType, Over
<1>2. TaskType'
  BY <1>1 DEF TypeInv, TypeOK, TaskType, Over, Go
<1>3. \A u \in Tasks : u # t => /\ pc'[u] = pc[u] /\ who'[u] = who[u] /\ lead'[u] = lead[u]
                                /\ cur'[u] = cur[u]
  BY DEF TypeInv, TypeOK, TaskType, Over, Go
<1>4. pc'[t] = "over"
  BY DEF TypeInv, TypeOK, TaskType, Over, Go
<1>5. Hired'
  BY <1>3, <1>4 DEF TypeInv, Hired, Running
<1>6. Asking'
  BY <1>3, <1>4 DEF TypeInv, Asking, At
<1> QED  BY <1>2, <1>5, <1>6

LEMMA TaskStepType ==
  ASSUME TypeInv, NEW t \in Tasks, TaskStep(t)
  PROVE  TypeInv'
<1> USE DEF TypeInv, TypeOK
<1>1. CASE GiveUp(t) \/ Ends(t)
  <2>1. Over(t) /\ UNCHANGED <<tables, limit, cache, dialog, stop, object>>
    BY <1>1 DEF GiveUp, Ends
  <2>2. TaskType' /\ Hired' /\ Asking'
    BY <2>1, OverType
  <2> QED  BY <2>1, <2>2 DEF TableType, CacheType, DialogType
<1>2. ASSUME NEW p \in Phones, NEW b \in 0..Max, StartLive(t, p, b) PROVE TypeInv'
  <2>1. b \in Nat /\ Begin(t, "live", p, b, {}, "resolving")
    BY <1>2, CountAssumption DEF StartLive
  <2>2. TaskType' /\ Hired' /\ Asking'
    BY <1>2, <2>1, BeginType DEF StartLive
  <2> QED  BY <1>2, <2>2 DEF StartLive, TableType, CacheType, DialogType
<1>3. ASSUME NEW p \in Phones, NEW ms \in SUBSET Members, StartQuick(t, p, ms) PROVE TypeInv'
  <2>1. TaskType' /\ Hired' /\ Asking'
    BY <1>3, BeginType DEF StartQuick
  <2> QED  BY <1>3, <2>1 DEF StartQuick, TableType, CacheType, DialogType
<1>4. CASE LiveEnter(t)
  <2>1. missed' \in [Tasks -> SUBSET Members]
    BY <1>4 DEF LiveEnter, TableType, TaskType, OnRecord
  <2>2. TaskType' /\ Hired' /\ Asking'
    BY <1>4, <2>1, MovesType DEF LiveEnter, Running, At, TaskType
  <2>3. CacheType'
    BY <1>4, CachedType DEF LiveEnter, CacheType
  <2> QED  BY <1>4, <2>2, <2>3 DEF LiveEnter, TableType, DialogType
<1>5. CASE LiveScanned(t)
  <2>1. CacheType'
    BY <1>5 DEF LiveScanned, CacheType
  <2>2. TaskType' /\ Hired' /\ Asking'
    <3>1. CASE todo[t] = {}
      BY <1>5, <3>1, OverType DEF LiveScanned
    <3>2. CASE todo[t] # {}
      <4>1. PICK ms \in SUBSET todo[t] : todo' = [todo EXCEPT ![t] = ms]
        BY <1>5, <3>2 DEF LiveScanned
      <4>2. todo' \in [Tasks -> SUBSET Members]
        BY <4>1 DEF TaskType
      <4> QED
        BY <1>5, <3>2, <4>2, MovesType DEF LiveScanned, Running, At, TaskType
    <3> QED  BY <3>1, <3>2
  <2> QED  BY <1>5, <2>1, <2>2 DEF LiveScanned, TableType, DialogType
<1>6. ASSUME NEW m \in Members, LiveScan(t, m) PROVE TypeInv'
  <2>1. TaskType' /\ Hired' /\ Asking'
    <3>1. todo' \in [Tasks -> SUBSET Members]
      BY <1>6 DEF LiveScan, TaskType
    <3> QED
      BY <1>6, <3>1 DEF LiveScan, TaskType, Hired, Asking, Running, At
  <2> QED  BY <1>6, <2>1 DEF LiveScan, TableType, CacheType, DialogType
<1>7. ASSUME NEW m \in Members, Invite(t, m) PROVE TypeInv'
  <2>1. /\ todo' \in [Tasks -> SUBSET Members] /\ cur' \in [Tasks -> Members \cup {NoMember}]
        /\ cur'[t] = m /\ \A u \in Tasks \ {t} : cur'[u] = cur[u]
    BY <1>7 DEF Invite, TaskType
  <2>2. TaskType' /\ Hired' /\ Asking'
    BY <1>7, <2>1, MovesType DEF Invite, Running, At, TaskType
  <2> QED  BY <1>7, <2>2 DEF Invite, TableType, CacheType, DialogType
<1>8. CASE Joined(t)
  <2>1. cur[t] \in Members /\ Running(t) /\ Counted(t) /\ MarkAdded(cur[t])
    BY <1>8 DEF Joined, Asking, Running, At
  <2>2. TableType' /\ snap' \in [Tasks -> [Phones -> Nat]]
    BY <2>1, CountedType, MarkAddedType DEF TableType
  <2>3. made' \in [Tasks -> Nat] /\ foreign' \in [Tasks -> BOOLEAN]
    BY <1>8 DEF Joined, Counted, Noted, TaskType
  <2>4. TaskType' /\ Hired' /\ Asking'
    BY <1>8, <2>1, <2>2, <2>3, MovesType DEF Joined, Answered, TaskType
  <2> QED  BY <1>8, <2>1, <2>2, <2>4, MarkAddedType DEF Joined, DialogType
<1>9. CASE WasThere(t) \/ Missed(t)
  <2>1. TaskType' /\ Hired' /\ Asking'
    BY <1>9, MovesType DEF WasThere, Missed, Answered, Running, At, TaskType
  <2>2. cur[t] \in Members /\ UNCHANGED <<limit, dialog, stop>>
    BY <1>9 DEF WasThere, Missed, Asking
  <2>3. TableType' /\ CacheType'
    <3>1. CASE MarkAdded(cur[t])
      BY <2>2, <3>1, MarkAddedType DEF TableType
    <3>2. CASE UNCHANGED <<tables, cache, object>>
      BY <2>2, <3>2 DEF TableType, CacheType
    <3> QED  BY <1>9, <3>1, <3>2 DEF WasThere, Missed
  <2> QED  BY <2>1, <2>2, <2>3 DEF DialogType
<1>10. CASE Dropped(t)
  <2>1. TaskType' /\ Hired' /\ Asking'
    BY <1>10, MovesType DEF Dropped, Running, At, TaskType
  <2> QED  BY <1>10, <2>1 DEF Dropped, TableType, CacheType, DialogType
<1> QED
  BY <1>1, <1>2, <1>3, <1>4, <1>5, <1>6, <1>7, <1>8, <1>9, <1>10 DEF TaskStep

(* A parallel run gives each of its loops an account of its own, a share of  *)
(* the list, and one of them to lead.                                        *)
Dealt(mine, of, w) ==
  /\ \A t \in mine : of[t] \in Phones /\ w[of[t]] = t /\ At(t, "idle")
  /\ pc' = [t \in Tasks |-> IF t \in mine THEN "add" ELSE pc[t]]
  /\ kind' = [t \in Tasks |-> IF t \in mine THEN "db" ELSE kind[t]]
  /\ who' = [t \in Tasks |-> IF t \in mine THEN of[t] ELSE who[t]]
  /\ base' = [t \in Tasks |-> IF t \in mine THEN limit[of[t]] ELSE base[t]]
  /\ snap' = [t \in Tasks |-> IF t \in mine THEN limit ELSE snap[t]]
  /\ \E first \in mine : lead' = [t \in Tasks |-> IF t \in mine THEN first ELSE lead[t]]
  /\ todo' \in [Tasks -> SUBSET Members]

LEMMA StartDbParts ==
  ASSUME TypeInv, NEW f, NEW w \in [Phones -> Tasks], StartDb(f, w)
  PROVE  \E mine \in SUBSET Tasks, of \in [Tasks -> Phones \cup {NoPhone}] : Dealt(mine, of, w)
<1> DEFINE Batch(p) == {m \in plist : f[m] = p}
           used == {p \in Phones : Batch(p) # {}}
           mine == {w[p] : p \in used}
           Of(t) == CHOOSE p \in used : w[p] = t
           of == [t \in Tasks |-> IF t \in mine THEN Of(t) ELSE NoPhone]
<1>1. mine \in SUBSET Tasks /\ used \subseteq Phones
  OBVIOUS
<1>2. \A t \in mine : Of(t) \in used /\ w[Of(t)] = t
  OBVIOUS
<1>3. of \in [Tasks -> Phones \cup {NoPhone}] /\ \A t \in mine : of[t] = Of(t)
  BY <1>1, <1>2
<1>4. /\ \A p \in used : At(w[p], "idle")
      /\ snap' = [t \in Tasks |-> IF t \in mine THEN limit ELSE snap[t]]
      /\ pc' = [t \in Tasks |-> IF t \in mine THEN "add" ELSE pc[t]]
      /\ kind' = [t \in Tasks |-> IF t \in mine THEN "db" ELSE kind[t]]
      /\ who' = [t \in Tasks |-> IF t \in mine THEN Of(t) ELSE who[t]]
      /\ base' = [t \in Tasks |-> IF t \in mine THEN limit[Of(t)] ELSE base[t]]
      /\ \E first \in mine : lead' = [t \in Tasks |-> IF t \in mine THEN first ELSE lead[t]]
      /\ todo' = [t \in Tasks |-> IF t \in mine THEN Batch(Of(t)) ELSE todo[t]]
  BY DEF StartDb
<1>5. todo' \in [Tasks -> SUBSET Members]
  <2>1. \A p : Batch(p) \subseteq Members
    BY DEF TypeInv, TypeOK, DialogType
  <2> HIDE DEF Batch, mine, Of
  <2> QED  BY <1>4, <2>1 DEF TypeInv, TypeOK, TaskType
<1> HIDE DEF mine, Of, used
<1>6. /\ who' = [t \in Tasks |-> IF t \in mine THEN of[t] ELSE who[t]]
      /\ base' = [t \in Tasks |-> IF t \in mine THEN limit[of[t]] ELSE base[t]]
  BY <1>3, <1>4
<1>7. \A t \in mine : of[t] \in Phones /\ w[of[t]] = t /\ At(t, "idle")
  <2> SUFFICES ASSUME NEW t \in mine
               PROVE  of[t] \in Phones /\ w[of[t]] = t /\ At(t, "idle")
    OBVIOUS
  <2>1. of[t] = Of(t) /\ Of(t) \in used /\ w[Of(t)] = t
    BY <1>2, <1>3
  <2>2. At(w[Of(t)], "idle")
    BY <1>4, <2>1
  <2> QED  BY <1>1, <2>1, <2>2
<1> HIDE DEF of
<1>8. Dealt(mine, of, w)
  BY <1>4, <1>5, <1>6, <1>7 DEF Dealt
<1> QED  BY <1>1, <1>3, <1>8

LEMMA StartDbType ==
  ASSUME TypeInv, NEW f, NEW w \in [Phones -> Tasks], StartDb(f, w)
  PROVE  TypeInv'
<1>1. PICK mine \in SUBSET Tasks, of \in [Tasks -> Phones \cup {NoPhone}] : Dealt(mine, of, w)
  BY StartDbParts
<1> USE <1>1 DEF Dealt
<1>2. PICK first \in mine : lead' = [t \in Tasks |-> IF t \in mine THEN first ELSE lead[t]]
  BY <1>1
<1>3. /\ UNCHANGED <<tables, limit, cache, dialog, stop, cur, made, object, foreign>>
      /\ missed' \in [Tasks -> SUBSET Members]
  <2>1. UNCHANGED <<tables, limit, cache, dialog, stop, cur, made, object, foreign>>
    BY DEF StartDb
  <2>2. \E S : missed' = [t \in Tasks |-> IF t \in S THEN pmissed ELSE missed[t]]
    BY DEF StartDb
  <2> QED  BY <2>1, <2>2 DEF TypeInv, TypeOK, DialogType, TaskType
<1>4. TaskType'
  <2>1. who' \in [Tasks -> Phones \cup {NoPhone}] /\ lead' \in [Tasks -> Tasks \cup {NoTask}]
    BY <1>1, <1>2 DEF TypeInv, TypeOK, TaskType
  <2>2. base' \in [Tasks -> Nat] /\ snap' \in [Tasks -> [Phones -> Nat]]
    BY <1>1 DEF TypeInv, TypeOK, TaskType, TableType
  <2> QED  BY <1>1, <1>3, <2>1, <2>2 DEF TypeInv, TypeOK, TaskType
<1>5. Hired'
  <2> SUFFICES ASSUME NEW t \in Tasks, Running(t)'
               PROVE  who'[t] \in Phones /\ lead'[t] \in Tasks /\ pc'[lead'[t]] # "idle"
    BY DEF Hired
  <2>1. CASE t \in mine
    BY <1>1, <1>2, <2>1
  <2>2. CASE t \notin mine
    BY <1>1, <1>2, <2>2 DEF TypeInv, Hired, Running
  <2> QED  BY <2>1, <2>2
<1>6. Asking'
  BY <1>1, <1>3 DEF TypeInv, Asking, At
<1> QED  BY <1>3, <1>4, <1>5, <1>6 DEF TypeInv, TypeOK, TableType, CacheType, DialogType

LEMMA TypeStep == TypeInv /\ [Next]_vars => TypeInv'
<1> SUFFICES ASSUME TypeInv, [Next]_vars PROVE TypeInv'
  OBVIOUS
<1>1. CASE MemberStep
  BY <1>1, MemberStepType
<1>2. CASE DialogStep
  BY <1>2, DialogStepType
<1>3. CASE Reset
  <2>1. limit' \in [Phones -> Nat] /\ foreign' \in [Tasks -> BOOLEAN]
    BY <1>3 DEF Reset, Noted, TypeInv, TypeOK, TaskType
  <2> QED
    BY <1>3, <2>1 DEF Reset, TypeInv, TypeOK, TableType, CacheType, DialogType, TaskType,
                      Hired, Asking, Running, At
<1>4. ASSUME NEW t \in Tasks, TaskStep(t) PROVE TypeInv'
  BY <1>4, TaskStepType
<1>5. ASSUME NEW f \in [plist -> Phones \cup {NoPhone}], NEW w \in [Phones -> Tasks], StartDb(f, w)
      PROVE  TypeInv'
  BY <1>5, StartDbType
<1>6. CASE UNCHANGED vars
  BY <1>6 DEF vars, TypeInv, TypeOK, TableType, CacheType, DialogType, TaskType, Hired,
              Asking, Running, At
<1> QED  BY <1>1, <1>2, <1>3, <1>4, <1>5, <1>6 DEF Next

LEMMA TypeInit == Init => TypeInv
<1> SUFFICES ASSUME Init PROVE TypeInv
  OBVIOUS
<1>1. TableType /\ DialogType /\ CacheType
  BY CountAssumption DEF Init, TableType, DialogType, CacheType
<1>2. TaskType
  BY DEF Init, TaskType
<1> QED  BY <1>1, <1>2 DEF Init, TypeInv, TypeOK, Hired, Asking, Running, At

LEMMA TypeAlways == Spec => []TypeInv
  BY TypeInit, TypeStep, PTL DEF Spec

(* Every variable of the menu's loops keeps its type, and a blocked set that *)
(* is shared with the cache stays equal to it, for any members, accounts and *)
(* loops.                                                                    *)
THEOREM MenuTypeCorrect == Spec => []TypeOK
<1>1. TypeInv => TypeOK
  BY DEF TypeInv
<1> QED  BY <1>1, TypeAlways, PTL

-----------------------------------------------------------------------------
(* The counts of a run.  Every loop of a parallel run writes the counts of   *)
(* all its accounts, from the dictionary they share.  That is right because  *)
(* no two of its loops have the same account and the dictionary always holds *)
(* what each of them has counted; and nobody else has the dictionary.        *)
NothingMade == \A t \in Tasks : ~Running(t) \/ kind[t] = "quick" => made[t] = 0
Leads == \A t \in Tasks : Running(t) =>
  /\ kind[t] = "db" /\ pc[lead[t]] \notin {"idle", "over"} => kind[lead[t]] = "db"
  /\ kind[t] # "db" => lead[t] = t
OwnAccount == \A t, u \in Tasks :
  /\ Running(t) /\ kind[t] = "db" /\ Running(u) /\ kind[u] = "db"
  /\ lead[t] = lead[u] /\ who[t] = who[u]
  => t = u
SnapExact == \A t \in Tasks :
  Running(t) /\ kind[t] = "db" => snap[lead[t]][who[t]] = base[t] + made[t]
RunInv == NothingMade /\ Leads /\ OwnAccount /\ SnapExact /\ CountsOfARun

(* Steps that leave every loop in its run and the counts alone. *)
LEMMA RunKept ==
  ASSUME TypeInv, RunInv, \A t \in Tasks : Running(t)' = Running(t),
         UNCHANGED <<limit, kind, who, base, lead, made, snap, foreign>>
  PROVE  RunInv'
<1>1. NothingMade' /\ OwnAccount' /\ SnapExact' /\ CountsOfARun'
  BY DEF RunInv, NothingMade, OwnAccount, SnapExact, CountsOfARun
<1>2. Leads'
  <2> SUFFICES ASSUME NEW t \in Tasks, Running(t)
               PROVE  /\ kind[t] = "db" /\ pc'[lead[t]] \notin {"idle", "over"}
                          => kind[lead[t]] = "db"
                      /\ kind[t] # "db" => lead[t] = t
    BY DEF Leads
  <2>1. lead[t] \in Tasks /\ pc[lead[t]] # "idle"
    BY DEF TypeInv, Hired
  <2>2. pc'[lead[t]] \notin {"idle", "over"} => pc[lead[t]] \notin {"idle", "over"}
    BY <2>1 DEF Running
  <2> QED  BY <2>2 DEF RunInv, Leads
<1> QED  BY <1>1, <1>2 DEF RunInv

(* A step of one loop inside its run. *)
LEMMA MovesRun ==
  ASSUME TypeInv, RunInv, NEW t \in Tasks, Running(t),
         NEW s \in {"resolving", "scan", "add", "inviting"}, Go(t, s),
         UNCHANGED <<limit, kind, who, base, lead, made, snap, foreign>>
  PROVE  RunInv'
<1>1. \A u \in Tasks : pc'[u] = IF u = t THEN s ELSE pc[u]
  BY DEF TypeInv, TypeOK, TaskType, Go
<1>2. \A u \in Tasks : Running(u)' = Running(u)
  BY <1>1 DEF Running
<1> QED  BY <1>2, RunKept

(* A live or quick run begins with a loop that no run has as its leader. *)
LEMMA BeginRun ==
  ASSUME TypeInv, RunInv, NEW t \in Tasks, NEW k \in {"live", "quick"}, NEW p \in Phones,
         NEW b \in Nat, NEW ms, NEW s, Begin(t, k, p, b, ms, s),
         UNCHANGED <<limit, snap, foreign>>
  PROVE  RunInv'
<1>1. /\ \A u \in Tasks \ {t} : /\ pc'[u] = pc[u] /\ kind'[u] = kind[u] /\ who'[u] = who[u]
                                /\ base'[u] = base[u] /\ lead'[u] = lead[u]
      /\ kind'[t] = k /\ lead'[t] = t /\ pc[t] = "idle" /\ made' = made
  BY DEF TypeInv, TypeOK, TaskType, Begin, Go, At
<1>2. made[t] = 0
  BY <1>1 DEF RunInv, NothingMade, Running
<1>3. \A u \in Tasks \ {t} : Running(u)' = Running(u) /\ (Running(u) => lead[u] \in Tasks \ {t})
  BY <1>1 DEF Running, TypeInv, Hired
<1>4. NothingMade'
  BY <1>1, <1>2, <1>3 DEF RunInv, NothingMade
<1>5. Leads'
  <2> SUFFICES ASSUME NEW u \in Tasks \ {t}, Running(u)
               PROVE  /\ kind[u] = "db" /\ pc'[lead[u]] \notin {"idle", "over"}
                          => kind'[lead[u]] = "db"
                      /\ kind[u] # "db" => lead[u] = u
    BY <1>1, <1>3 DEF Leads
  <2>1. lead[u] \in Tasks \ {t}
    BY <1>3
  <2>2. pc'[lead[u]] = pc[lead[u]] /\ kind'[lead[u]] = kind[lead[u]] /\ lead'[u] = lead[u]
    BY <1>1, <2>1
  <2> QED  BY <2>2 DEF RunInv, Leads, Running
<1>6. OwnAccount' /\ SnapExact'
  BY <1>1, <1>3 DEF RunInv, OwnAccount, SnapExact
<1>7. CountsOfARun'
  BY <1>1, <1>2, <1>3 DEF RunInv, CountsOfARun
<1> QED  BY <1>4, <1>5, <1>6, <1>7 DEF RunInv

(* The workers of a parallel run begin, each from the count its account has. *)
LEMMA DealtRun ==
  ASSUME TypeInv, RunInv, NEW w, NEW mine \in SUBSET Tasks, NEW of, Dealt(mine, of, w),
         UNCHANGED <<limit, made, foreign>>
  PROVE  RunInv'
<1>1. PICK first \in mine : lead' = [t \in Tasks |-> IF t \in mine THEN first ELSE lead[t]]
  BY DEF Dealt
<1>2. \A u \in Tasks \ mine :
        /\ pc'[u] = pc[u] /\ kind'[u] = kind[u] /\ who'[u] = who[u]
        /\ base'[u] = base[u] /\ lead'[u] = lead[u] /\ snap'[u] = snap[u]
  BY <1>1 DEF Dealt
<1>3. \A t \in mine :
        /\ pc'[t] = "add" /\ kind'[t] = "db" /\ who'[t] = of[t] /\ base'[t] = limit[of[t]]
        /\ lead'[t] = first /\ snap'[t] = limit
        /\ of[t] \in Phones /\ w[of[t]] = t /\ pc[t] = "idle"
  BY <1>1 DEF Dealt, At
<1>4. \A t \in mine : made[t] = 0
  BY <1>3 DEF RunInv, NothingMade, Running
<1>5. \A u \in Tasks \ mine : /\ Running(u)' = Running(u)
                              /\ Running(u) => lead[u] \in Tasks \ mine
  BY <1>2, <1>3 DEF Running, TypeInv, Hired
<1>6. NothingMade'
  BY <1>2, <1>3, <1>4, <1>5 DEF RunInv, NothingMade
<1>7. Leads'
  <2> SUFFICES ASSUME NEW u \in Tasks, Running(u)'
               PROVE  /\ kind'[u] = "db" /\ pc'[lead'[u]] \notin {"idle", "over"}
                          => kind'[lead'[u]] = "db"
                      /\ kind'[u] # "db" => lead'[u] = u
    BY DEF Leads
  <2>1. CASE u \in mine
    BY <1>3, <2>1
  <2>2. CASE u \notin mine
    <3>1. lead[u] \in Tasks \ mine /\ Running(u) /\ lead'[u] = lead[u]
      BY <1>2, <1>5, <2>2
    <3>2. pc'[lead[u]] = pc[lead[u]] /\ kind'[lead[u]] = kind[lead[u]] /\ kind'[u] = kind[u]
      BY <1>2, <2>2, <3>1
    <3> QED  BY <3>1, <3>2 DEF RunInv, Leads, Running
  <2> QED  BY <2>1, <2>2
<1>8. OwnAccount'
  <2> SUFFICES ASSUME NEW t \in Tasks, NEW u \in Tasks, Running(t)', Running(u)',
                      kind'[t] = "db", kind'[u] = "db",
                      lead'[t] = lead'[u], who'[t] = who'[u]
               PROVE  t = u
    BY DEF OwnAccount
  <2>1. CASE t \in mine /\ u \in mine
    BY <1>3, <2>1
  <2>2. CASE t \notin mine /\ u \notin mine
    BY <1>2, <1>5, <2>2 DEF RunInv, OwnAccount
  <2>3. CASE (t \in mine /\ u \notin mine) \/ (t \notin mine /\ u \in mine)
    BY <1>2, <1>3, <1>5, <2>3
  <2> QED  BY <2>1, <2>2, <2>3
<1>9. SnapExact'
  <2> SUFFICES ASSUME NEW t \in Tasks, Running(t)', kind'[t] = "db"
               PROVE  snap'[lead'[t]][who'[t]] = base'[t] + made[t]
    BY DEF SnapExact
  <2>1. CASE t \in mine
    BY <1>3, <1>4, <2>1 DEF TypeInv, TypeOK, TableType
  <2>2. CASE t \notin mine
    BY <1>2, <1>5, <2>2 DEF RunInv, SnapExact
  <2> QED  BY <2>1, <2>2
<1>10. CountsOfARun'
  BY <1>2, <1>4, <1>5 DEF RunInv, CountsOfARun
<1> QED  BY <1>6, <1>7, <1>8, <1>9, <1>10 DEF RunInv

(* A loop ends; the dictionary stays with those of its run that go on. *)
LEMMA OverRun ==
  ASSUME TypeInv, RunInv, NEW t \in Tasks, Over(t), UNCHANGED limit
  PROVE  RunInv'
<1>1. /\ \A u \in Tasks \ {t} :
           /\ pc'[u] = pc[u] /\ kind'[u] = kind[u] /\ who'[u] = who[u] /\ base'[u] = base[u]
           /\ lead'[u] = lead[u] /\ made'[u] = made[u] /\ foreign'[u] = foreign[u]
      /\ pc'[t] = "over" /\ made'[t] = 0
  BY DEF TypeInv, TypeOK, TaskType, Over, Go
<1>2. ~Running(t)' /\ \A u \in Tasks \ {t} : Running(u)' = Running(u)
  BY <1>1 DEF Running
<1>3. \A u \in Tasks \ {t} : Running(u) => lead[u] \in Tasks /\ snap'[lead[u]] = snap[lead[u]]
  <2> SUFFICES ASSUME NEW u \in Tasks \ {t}, Running(u)
               PROVE  lead[u] \in Tasks /\ snap'[lead[u]] = snap[lead[u]]
    OBVIOUS
  <2>1. lead[u] \in Tasks
    BY DEF TypeInv, Hired
  <2> QED  BY <2>1 DEF Over
<1>4. NothingMade'
  BY <1>1, <1>2 DEF RunInv, NothingMade
<1>5. Leads'
  <2> SUFFICES ASSUME NEW u \in Tasks \ {t}, Running(u)
               PROVE  /\ kind[u] = "db" /\ pc'[lead[u]] \notin {"idle", "over"}
                          => kind'[lead[u]] = "db"
                      /\ kind[u] # "db" => lead[u] = u
    BY <1>1, <1>2 DEF Leads
  <2>1. CASE lead[u] = t
    BY <1>1, <2>1 DEF RunInv, Leads
  <2>2. CASE lead[u] # t
    <3>1. pc'[lead[u]] = pc[lead[u]] /\ kind'[lead[u]] = kind[lead[u]] /\ lead'[u] = lead[u]
      BY <1>1, <1>3, <2>2
    <3> QED  BY <3>1 DEF RunInv, Leads, Running
  <2> QED  BY <2>1, <2>2
<1>6. OwnAccount'
  BY <1>1, <1>2 DEF RunInv, OwnAccount
<1>7. SnapExact'
  BY <1>1, <1>2, <1>3 DEF RunInv, SnapExact
<1>8. CountsOfARun'
  BY <1>1, <1>2 DEF RunInv, CountsOfARun
<1> QED  BY <1>4, <1>5, <1>6, <1>7, <1>8 DEF RunInv

(* Someone else's write to a count is noted. *)
LEMMA NotedRun ==
  ASSUME TypeInv, NEW own, Noted(own), NEW u \in Tasks, Running(u), lead[u] # own,
         ~foreign'[u]
  PROVE  limit'[who[u]] = limit[who[u]] /\ ~foreign[u]
  BY DEF Noted

LEMMA ResetRun ==
  ASSUME TypeInv, RunInv, Reset
  PROVE  RunInv'
<1>1. /\ UNCHANGED <<kind, who, base, lead, made, snap, pc>>
      /\ \A u \in Tasks : Running(u)' = Running(u)
  BY DEF Reset, Running
<1>2. NothingMade' /\ Leads' /\ OwnAccount' /\ SnapExact'
  BY <1>1 DEF RunInv, NothingMade, Leads, OwnAccount, SnapExact, Running
<1>3. CountsOfARun'
  <2> SUFFICES ASSUME NEW u \in Tasks, made[u] > 0, Running(u), ~foreign'[u]
               PROVE  limit'[who[u]] = base[u] + made[u]
    BY <1>1 DEF CountsOfARun
  <2>1. lead[u] # NoTask
    BY NoneAssumption DEF TypeInv, Hired
  <2>2. limit'[who[u]] = limit[who[u]] /\ ~foreign[u]
    BY <2>1, NotedRun DEF Reset
  <2> QED  BY <2>2 DEF RunInv, CountsOfARun
<1> QED  BY <1>2, <1>3 DEF RunInv

(* An invitation that joined: the loop's own count goes up by one, where its *)
(* run keeps it and in the table.                                            *)
LEMMA JoinedOwn ==
  ASSUME TypeInv, RunInv, NEW t \in Tasks, Joined(t)
  PROVE  /\ kind[t] = "db" => /\ snap' = [snap EXCEPT ![lead[t]][who[t]] = base[t] + made[t] + 1]
                              /\ limit' = snap'[lead[t]]
         /\ kind[t] # "db" => /\ snap' = snap
                              /\ \E c \in Nat : limit' = [limit EXCEPT ![who[t]] = c]
                              /\ kind[t] # "quick" => limit'[who[t]] = base[t] + made[t] + 1
         /\ made'[t] = IF kind[t] = "quick" THEN 0 ELSE made[t] + 1
         /\ \A u \in Tasks \ {t} : made'[u] = made[u]
         /\ \A u \in Tasks : Running(u)' = Running(u)
         /\ Running(t) /\ Noted(lead[t]) /\ UNCHANGED <<kind, who, base, lead>>
<1>1. At(t, "inviting") /\ Counted(t) /\ UNCHANGED locals /\ Go(t, "add")
  BY DEF Joined, Answered
<1>2. Running(t) /\ who[t] \in Phones /\ lead[t] \in Tasks
  BY <1>1 DEF At, Running, TypeInv, Hired
<1>3. \A u \in Tasks : Running(u)' = Running(u)
  BY <1>1 DEF At, Go, Running, TypeInv, TypeOK, TaskType
<1>4. kind[t] = "quick" => made[t] = 0
  BY DEF RunInv, NothingMade
<1>5. made' = IF kind[t] = "quick" THEN made ELSE [made EXCEPT ![t] = @ + 1]
  BY DEF Joined
<1>6. /\ made'[t] = IF kind[t] = "quick" THEN 0 ELSE made[t] + 1
      /\ \A u \in Tasks \ {t} : made'[u] = made[u]
  BY <1>4, <1>5 DEF TypeInv, TypeOK, TaskType
<1>7. CASE kind[t] = "db"
  BY <1>1, <1>2, <1>3, <1>6, <1>7 DEF Counted, LimitsOf, NewCount
<1>8. CASE kind[t] # "db"
  <2>1. NewCount(t) \in Nat
    BY <1>2 DEF TypeInv, TypeOK, TableType, TaskType, NewCount
  <2>2. snap' = snap /\ limit' = [limit EXCEPT ![who[t]] = NewCount(t)]
    BY <1>1, <1>8 DEF Counted
  <2>3. kind[t] # "quick" => limit'[who[t]] = base[t] + made[t] + 1
    BY <1>2, <2>2 DEF NewCount, TypeInv, TypeOK, TableType
  <2> QED  BY <1>1, <1>2, <1>3, <1>6, <1>8, <2>1, <2>2, <2>3 DEF Counted
<1> QED  BY <1>7, <1>8

LEMMA JoinedRun ==
  ASSUME TypeInv, RunInv, NEW t \in Tasks, Joined(t)
  PROVE  RunInv'
<1> DEFINE l == lead[t]
<1>1. Running(t) /\ Noted(l) /\ UNCHANGED <<kind, who, base, lead>>
  BY JoinedOwn
<1>2. \A u \in Tasks : Running(u)' = Running(u)
  BY JoinedOwn
<1>3. /\ made'[t] = IF kind[t] = "quick" THEN 0 ELSE made[t] + 1
      /\ \A u \in Tasks \ {t} : made'[u] = made[u]
  BY JoinedOwn
<1>4. kind[t] = "db" => /\ snap' = [snap EXCEPT ![l][who[t]] = base[t] + made[t] + 1]
                        /\ limit' = snap'[l]
  BY JoinedOwn
<1>5. kind[t] # "db" =>
        snap' = snap /\ (kind[t] # "quick" => limit'[who[t]] = base[t] + made[t] + 1)
  BY JoinedOwn
<1>6. l \in Tasks /\ pc[l] # "idle" /\ who[t] \in Phones
  BY <1>1 DEF TypeInv, Hired
<1>7. base[t] \in Nat /\ made[t] \in Nat /\ snap \in [Tasks -> [Phones -> Nat]]
  BY DEF TypeInv, TypeOK, TaskType
<1>8. NothingMade'
  BY <1>1, <1>2, <1>3 DEF RunInv, NothingMade
<1>9. OwnAccount'
  BY <1>1, <1>2 DEF RunInv, OwnAccount
<1>10. Leads'
  <2> SUFFICES ASSUME NEW u \in Tasks, Running(u)
               PROVE  /\ kind[u] = "db" /\ pc'[lead[u]] \notin {"idle", "over"}
                          => kind[lead[u]] = "db"
                      /\ kind[u] # "db" => lead[u] = u
    BY <1>1, <1>2 DEF Leads
  <2>1. lead[u] \in Tasks /\ pc[lead[u]] # "idle"
    BY DEF TypeInv, Hired
  <2>2. pc'[lead[u]] \notin {"idle", "over"} => pc[lead[u]] \notin {"idle", "over"}
    BY <1>2, <2>1 DEF Running
  <2> QED  BY <2>2 DEF RunInv, Leads
<1>11. \A u \in Tasks \ {t} : Running(u) /\ lead[u] = l =>
         kind[u] = "db" /\ kind[t] = "db" /\ who[u] # who[t]
  <2> SUFFICES ASSUME NEW u \in Tasks \ {t}, Running(u), lead[u] = l
               PROVE  kind[u] = "db" /\ kind[t] = "db" /\ who[u] # who[t]
    OBVIOUS
  <2>1. kind[t] = "db"
    <3>1. CASE kind[t] # "db"
      BY <1>1, <3>1 DEF RunInv, Leads, Running
    <3> QED  BY <3>1
  <2>2. kind[u] = "db"
    BY <1>1, <2>1 DEF RunInv, Leads, Running
  <2> QED  BY <1>1, <2>1, <2>2 DEF RunInv, OwnAccount
<1>12. \A u \in Tasks \ {t} : Running(u) /\ kind[u] = "db" =>
         snap'[lead[u]][who[u]] = snap[lead[u]][who[u]]
  <2> SUFFICES ASSUME NEW u \in Tasks \ {t}, Running(u), kind[u] = "db"
               PROVE  snap'[lead[u]][who[u]] = snap[lead[u]][who[u]]
    OBVIOUS
  <2>1. lead[u] \in Tasks /\ who[u] \in Phones
    BY DEF TypeInv, Hired
  <2>2. CASE kind[t] = "db" /\ lead[u] = l
    BY <1>4, <1>6, <1>7, <1>11, <2>1, <2>2
  <2>3. CASE kind[t] = "db" /\ lead[u] # l
    BY <1>4, <1>6, <1>7, <2>1, <2>3
  <2> QED  BY <1>5, <2>2, <2>3
<1>13. kind[t] = "db" => snap'[l][who[t]] = base[t] + made[t] + 1
  BY <1>4, <1>6, <1>7
<1>14. SnapExact'
  <2> SUFFICES ASSUME NEW u \in Tasks, Running(u), kind[u] = "db"
               PROVE  snap'[lead[u]][who[u]] = base[u] + made'[u]
    BY <1>1, <1>2 DEF SnapExact
  <2>1. CASE u = t
    BY <1>3, <1>7, <1>13, <2>1
  <2>2. CASE u # t
    BY <1>3, <1>12, <2>2 DEF RunInv, SnapExact
  <2> QED  BY <2>1, <2>2
<1>15. CountsOfARun'
  <2> SUFFICES ASSUME NEW u \in Tasks, made'[u] > 0, Running(u), ~foreign'[u]
               PROVE  limit'[who[u]] = base[u] + made'[u]
    BY <1>1, <1>2 DEF CountsOfARun
  <2>1. CASE u = t
    BY <1>3, <1>4, <1>5, <1>7, <1>13, <2>1
  <2>2. CASE u # t /\ lead[u] = l
    <3>1. kind[u] = "db" /\ kind[t] = "db"
      BY <1>11, <2>2
    <3>2. limit'[who[u]] = snap[l][who[u]]
      BY <1>4, <1>12, <2>2, <3>1
    <3> QED  BY <1>3, <2>2, <3>1, <3>2 DEF RunInv, SnapExact
  <2>3. CASE u # t /\ lead[u] # l
    <3>1. limit'[who[u]] = limit[who[u]] /\ ~foreign[u]
      BY <1>1, <2>3, NotedRun
    <3> QED  BY <1>3, <2>3, <3>1 DEF RunInv, CountsOfARun
  <2> QED  BY <2>1, <2>2, <2>3
<1> QED  BY <1>8, <1>9, <1>10, <1>14, <1>15 DEF RunInv

LEMMA RunTaskStep ==
  ASSUME TypeInv, RunInv, NEW t \in Tasks, TaskStep(t)
  PROVE  RunInv'
<1>1. CASE GiveUp(t) \/ Ends(t)
  BY <1>1, OverRun DEF GiveUp, Ends
<1>2. ASSUME NEW p \in Phones, NEW b \in 0..Max, StartLive(t, p, b) PROVE RunInv'
  <2>1. b \in Nat
    BY CountAssumption
  <2> QED  BY <1>2, <2>1, BeginRun DEF StartLive
<1>3. ASSUME NEW p \in Phones, NEW ms \in SUBSET Members, StartQuick(t, p, ms) PROVE RunInv'
  BY <1>3, BeginRun DEF StartQuick
<1>4. CASE LiveEnter(t)
  BY <1>4, MovesRun DEF LiveEnter, Running, At
<1>5. CASE LiveScanned(t)
  <2>1. CASE todo[t] = {}
    BY <1>5, <2>1, OverRun DEF LiveScanned
  <2>2. CASE todo[t] # {}
    BY <1>5, <2>2, MovesRun DEF LiveScanned, locals, Running, At
  <2> QED  BY <2>1, <2>2
<1>6. ASSUME NEW m \in Members, LiveScan(t, m) PROVE RunInv'
  BY <1>6, RunKept DEF LiveScan, locals, Running
<1>7. ASSUME NEW m \in Members, Invite(t, m) PROVE RunInv'
  BY <1>7, MovesRun DEF Invite, locals, Running, At
<1>8. CASE Joined(t)
  BY <1>8, JoinedRun
<1>9. CASE WasThere(t) \/ Missed(t)
  BY <1>9, MovesRun DEF WasThere, Missed, Answered, locals, Running, At
<1>10. CASE Dropped(t)
  BY <1>10, MovesRun DEF Dropped, locals, Running, At
<1> QED
  BY <1>1, <1>2, <1>3, <1>4, <1>5, <1>6, <1>7, <1>8, <1>9, <1>10 DEF TaskStep

LEMMA RunStep == TypeInv /\ RunInv /\ [Next]_vars => RunInv'
<1> SUFFICES ASSUME TypeInv, RunInv, [Next]_vars PROVE RunInv'
  OBVIOUS
<1>1. CASE MemberStep \/ DialogStep \/ UNCHANGED vars
  <2>1. UNCHANGED <<limit, locals, work, snap, foreign>>
    BY <1>1 DEF MemberStep, DialogStep, vars, Refuse, MemberLeft, SaveScraped, BulkSave,
                CacheExpires, PurgeAdded, PurgeDoNotAdd, Purge, PrepareList, Preview, Clear,
                RequestStop
  <2> QED  BY <2>1, RunKept DEF locals, work, Running
<1>2. CASE Reset
  BY <1>2, ResetRun
<1>3. ASSUME NEW t \in Tasks, TaskStep(t) PROVE RunInv'
  BY <1>3, RunTaskStep
<1>4. ASSUME NEW f \in [plist -> Phones \cup {NoPhone}], NEW w \in [Phones -> Tasks], StartDb(f, w)
      PROVE  RunInv'
  <2>1. PICK mine \in SUBSET Tasks, of \in [Tasks -> Phones \cup {NoPhone}] : Dealt(mine, of, w)
    BY <1>4, StartDbParts
  <2>2. UNCHANGED <<limit, made, foreign>>
    BY <1>4 DEF StartDb
  <2> QED  BY <2>1, <2>2, DealtRun
<1> QED  BY <1>1, <1>2, <1>3, <1>4 DEF Next

LEMMA RunInit == Init => RunInv
  BY DEF Init, RunInv, NothingMade, Leads, OwnAccount, SnapExact, CountsOfARun, Running

(* The stored count of an account that a menu run works with is what it was  *)
(* plus what the run has added, unless someone outside the run wrote it: for *)
(* any number of loops, accounts and members.                                *)
THEOREM MenuCountsCorrect == Spec => []CountsOfARun
<1>1. RunInv => CountsOfARun
  BY DEF RunInv
<1> QED  BY <1>1, TypeAlways, RunInit, RunStep, PTL DEF Spec
=============================================================================
