--------------------------- MODULE AccountUseProofs ---------------------------
(***************************************************************************)
(* Proofs about the busy registry for every set of accounts and operations.*)
(*                                                                         *)
(* The invariant ties three things together: the stage of an operation,    *)
(* the mark of its account and the accounts that were robbed.  One lemma   *)
(* per action shows that the action keeps it and that it forgets no mark;  *)
(* the theorems follow.                                                    *)
(***************************************************************************)
EXTENDS AccountUse, TLAPS

(* Each kind of operation has its own stages; adds never mark. *)
KindStages ==
  /\ \A o \in Jobs    : stage[o] \in {"idle", "picked", "working"}
  /\ \A o \in Manuals : stage[o] \in {"idle", "connecting", "ready", "parked", "attacking"}
  /\ \A o \in Adds    : stage[o] \in {"idle", "working", "gated", "live"}
  /\ \A p \in Phones  : mark[p] \in Jobs \cup Manuals \cup {NoOp}

(* An operation that relies on its mark has it, unless the account is robbed.*)
MarkHolds == \A o \in Claiming : at[o] \notin robbed => mark[at[o]] = o

(* The mark of a job is that of the account it works with. *)
JobMarks ==
  \A p \in Phones : mark[p] \in Jobs =>
    stage[mark[p]] = "working" /\ at[mark[p]] = p

IInv == TypeOK /\ KindStages /\ JobMarks /\ MarkHolds

(* What NoMarkForgotten says of one step. *)
OwnerStep ==
  \A p \in Phones : Owned(p) /\ mark'[p] # NoOp => Owned(p)' \/ Overwritten(p)

(* Used by every step: what the constants are, which operations there are.   *)
USE PhoneAssumption, OpAssumption, KindAssumption DEF Ops, Jobs

-----------------------------------------------------------------------------
LEMMA InitInv == Init => IInv
  BY DEF Init, IInv, TypeOK, KindStages, JobMarks, MarkHolds, Claiming,
         Relying, Stages, Gates

(* Expiry robs the operation that relies on the mark, if there is one. *)
LEMMA ExpireKeeps ==
  ASSUME IInv, NEW p \in Phones, Expire(p)
  PROVE  IInv' /\ OwnerStep
<1>1. TypeOK'
  BY DEF IInv, TypeOK, KindStages, Stages, Gates, Expire, Released, Robs
<1>2. KindStages'
  BY DEF IInv, TypeOK, KindStages, Expire, Released, Robs
<1>3. MarkHolds'
  BY DEF IInv, TypeOK, KindStages, JobMarks, MarkHolds, Claiming, Relying,
         Expire, Released, Robs
<1>4. JobMarks'
  BY DEF IInv, TypeOK, KindStages, JobMarks, Expire, Released, Robs
<1>5. OwnerStep
  BY DEF IInv, TypeOK, KindStages, JobMarks, OwnerStep, Owned, Overwritten,
         Expire, Released, Robs
<1> QED  BY <1>1, <1>2, <1>3, <1>4, <1>5 DEF IInv

(* A picked account is not claimed yet. *)
LEMMA ScrapeTriggerKeeps ==
  ASSUME IInv, NEW o \in Scrapes, NEW p \in Phones, ScrapeTrigger(o, p)
  PROVE  IInv' /\ OwnerStep
<1>1. TypeOK'
  BY DEF IInv, TypeOK, KindStages, Stages, Gates, ScrapeTrigger, MayMark, Begin
<1>2. KindStages'
  BY DEF IInv, TypeOK, KindStages, ScrapeTrigger, MayMark, Begin
<1>3. MarkHolds'
  BY DEF IInv, TypeOK, KindStages, JobMarks, MarkHolds, Claiming, Relying,
         ScrapeTrigger, MayMark, Begin
<1>4. JobMarks'
  BY DEF IInv, TypeOK, KindStages, JobMarks, ScrapeTrigger, MayMark, Begin
<1>5. OwnerStep
  BY DEF IInv, TypeOK, KindStages, JobMarks, OwnerStep, Owned, Overwritten,
         ScrapeTrigger, MayMark, Begin
<1> QED  BY <1>1, <1>2, <1>3, <1>4, <1>5 DEF IInv

(* A free account has no mark, so nobody else relies on one. *)
LEMMA ScrapeClaimKeeps ==
  ASSUME IInv, NEW o \in Scrapes, ScrapeClaim(o)
  PROVE  IInv' /\ OwnerStep
<1>1. TypeOK'
  BY DEF IInv, TypeOK, KindStages, Stages, Gates, ScrapeClaim, MayMark
<1>2. KindStages'
  BY DEF IInv, TypeOK, KindStages, ScrapeClaim, MayMark
<1>3. MarkHolds'
  BY DEF IInv, TypeOK, KindStages, JobMarks, MarkHolds, Claiming, Relying,
         ScrapeClaim, MayMark
<1>4. JobMarks'
  BY DEF IInv, TypeOK, KindStages, JobMarks, ScrapeClaim, MayMark
<1>5. OwnerStep
  BY DEF IInv, TypeOK, KindStages, JobMarks, OwnerStep, Owned, Overwritten,
         ScrapeClaim, MayMark
<1> QED  BY <1>1, <1>2, <1>3, <1>4, <1>5 DEF IInv

(* A refused job had no mark to lose. *)
LEMMA ScrapeRefusedKeeps ==
  ASSUME IInv, NEW o \in Scrapes, ScrapeRefused(o)
  PROVE  IInv' /\ OwnerStep
<1>1. TypeOK'
  BY DEF IInv, TypeOK, KindStages, Stages, Gates, ScrapeRefused, MayMark,
         GateAfterRefusal, End
<1>2. KindStages'
  BY DEF IInv, TypeOK, KindStages, ScrapeRefused, MayMark, GateAfterRefusal,
         End
<1>3. MarkHolds'
  <2> SUFFICES ASSUME NEW x \in Claiming', at'[x] \notin robbed'
               PROVE  mark'[at'[x]] = x
    BY DEF MarkHolds
  <2>1. x # o /\ x \in Claiming /\ at'[x] = at[x]
    BY DEF IInv, TypeOK, Claiming, Relying, ScrapeRefused, End
  <2> QED
    BY <2>1 DEF IInv, MarkHolds, ScrapeRefused
<1>4. JobMarks'
  BY DEF IInv, TypeOK, KindStages, JobMarks, ScrapeRefused, MayMark,
         GateAfterRefusal, End
<1>5. OwnerStep
  BY DEF IInv, TypeOK, KindStages, JobMarks, OwnerStep, Owned, Overwritten,
         ScrapeRefused, MayMark, GateAfterRefusal, End
<1> QED  BY <1>1, <1>2, <1>3, <1>4, <1>5 DEF IInv

(* The end of a job frees its own mark, or a mark on a robbed account. *)
LEMMA ScrapeEndKeeps ==
  ASSUME IInv, NEW o \in Scrapes, ScrapeEnd(o)
  PROVE  IInv' /\ OwnerStep
<1>1. TypeOK'
  BY DEF IInv, TypeOK, KindStages, Stages, Gates, ScrapeEnd, JobReleased, Released,
         End
<1>2. KindStages'
  BY DEF IInv, TypeOK, KindStages, ScrapeEnd, JobReleased, Released, End
<1>3. MarkHolds'
  BY DEF IInv, TypeOK, KindStages, JobMarks, MarkHolds, Claiming, Relying,
         ScrapeEnd, JobReleased, Released, End
<1>4. JobMarks'
  BY DEF IInv, TypeOK, KindStages, JobMarks, ScrapeEnd, JobReleased, Released,
         End
<1>5. OwnerStep
  BY DEF IInv, TypeOK, KindStages, JobMarks, OwnerStep, Owned, Overwritten,
         ScrapeEnd, JobReleased, Released, End
<1> QED  BY <1>1, <1>2, <1>3, <1>4, <1>5 DEF IInv

LEMMA ScanPickKeeps ==
  ASSUME IInv, NEW o \in Scans, NEW p \in Phones, ScanPick(o, p)
  PROVE  IInv' /\ OwnerStep
<1>1. TypeOK'
  BY DEF IInv, TypeOK, KindStages, Stages, Gates, ScanPick, MayMark, Begin
<1>2. KindStages'
  BY DEF IInv, TypeOK, KindStages, ScanPick, MayMark, Begin
<1>3. MarkHolds'
  BY DEF IInv, TypeOK, KindStages, JobMarks, MarkHolds, Claiming, Relying,
         ScanPick, MayMark, Begin
<1>4. JobMarks'
  BY DEF IInv, TypeOK, KindStages, JobMarks, ScanPick, MayMark, Begin
<1>5. OwnerStep
  BY DEF IInv, TypeOK, KindStages, JobMarks, OwnerStep, Owned, Overwritten,
         ScanPick, MayMark, Begin
<1> QED  BY <1>1, <1>2, <1>3, <1>4, <1>5 DEF IInv

LEMMA ScanClaimKeeps ==
  ASSUME IInv, NEW o \in Scans, ScanClaim(o)
  PROVE  IInv' /\ OwnerStep
<1>1. TypeOK'
  BY DEF IInv, TypeOK, KindStages, Stages, Gates, ScanClaim, MayMark
<1>2. KindStages'
  BY DEF IInv, TypeOK, KindStages, ScanClaim, MayMark
<1>3. MarkHolds'
  BY DEF IInv, TypeOK, KindStages, JobMarks, MarkHolds, Claiming, Relying,
         ScanClaim, MayMark
<1>4. JobMarks'
  BY DEF IInv, TypeOK, KindStages, JobMarks, ScanClaim, MayMark
<1>5. OwnerStep
  BY DEF IInv, TypeOK, KindStages, JobMarks, OwnerStep, Owned, Overwritten,
         ScanClaim, MayMark
<1> QED  BY <1>1, <1>2, <1>3, <1>4, <1>5 DEF IInv

LEMMA ScanRefusedKeeps ==
  ASSUME IInv, NEW o \in Scans, ScanRefused(o)
  PROVE  IInv' /\ OwnerStep
<1>1. TypeOK'
  BY DEF IInv, TypeOK, KindStages, Stages, Gates, ScanRefused, MayMark, End
<1>2. KindStages'
  BY DEF IInv, TypeOK, KindStages, ScanRefused, MayMark, End
<1>3. MarkHolds'
  <2> SUFFICES ASSUME NEW x \in Claiming', at'[x] \notin robbed'
               PROVE  mark'[at'[x]] = x
    BY DEF MarkHolds
  <2>1. x # o /\ x \in Claiming /\ at'[x] = at[x]
    BY DEF IInv, TypeOK, Claiming, Relying, ScanRefused, End
  <2> QED
    BY <2>1 DEF IInv, MarkHolds, ScanRefused
<1>4. JobMarks'
  BY DEF IInv, TypeOK, KindStages, JobMarks, ScanRefused, MayMark, End
<1>5. OwnerStep
  BY DEF IInv, TypeOK, KindStages, JobMarks, OwnerStep, Owned, Overwritten,
         ScanRefused, MayMark, End
<1> QED  BY <1>1, <1>2, <1>3, <1>4, <1>5 DEF IInv

LEMMA ProbeStartKeeps ==
  ASSUME IInv, NEW o \in Probes, NEW p \in Phones, ProbeStart(o, p)
  PROVE  IInv' /\ OwnerStep
<1>1. TypeOK'
  BY DEF IInv, TypeOK, KindStages, Stages, Gates, ProbeStart, MayMark, Begin
<1>2. KindStages'
  BY DEF IInv, TypeOK, KindStages, ProbeStart, MayMark, Begin
<1>3. MarkHolds'
  BY DEF IInv, TypeOK, KindStages, JobMarks, MarkHolds, Claiming, Relying,
         ProbeStart, MayMark, Begin
<1>4. JobMarks'
  BY DEF IInv, TypeOK, KindStages, JobMarks, ProbeStart, MayMark, Begin
<1>5. OwnerStep
  BY DEF IInv, TypeOK, KindStages, JobMarks, OwnerStep, Owned, Overwritten,
         ProbeStart, MayMark, Begin
<1> QED  BY <1>1, <1>2, <1>3, <1>4, <1>5 DEF IInv

LEMMA FinishKeeps ==
  ASSUME IInv, NEW o \in Scans \cup Probes, Finish(o)
  PROVE  IInv' /\ OwnerStep
<1>1. TypeOK'
  BY DEF IInv, TypeOK, KindStages, Stages, Gates, Finish, JobReleased, Released, End
<1>2. KindStages'
  BY DEF IInv, TypeOK, KindStages, Finish, JobReleased, Released, End
<1>3. MarkHolds'
  BY DEF IInv, TypeOK, KindStages, JobMarks, MarkHolds, Claiming, Relying,
         Finish, JobReleased, Released, End
<1>4. JobMarks'
  BY DEF IInv, TypeOK, KindStages, JobMarks, Finish, JobReleased, Released,
         End
<1>5. OwnerStep
  BY DEF IInv, TypeOK, KindStages, JobMarks, OwnerStep, Owned, Overwritten,
         Finish, JobReleased, Released, End
<1> QED  BY <1>1, <1>2, <1>3, <1>4, <1>5 DEF IInv

(* A connecting operation relies on nothing. *)
LEMMA ManualStartKeeps ==
  ASSUME IInv, NEW o \in Manuals, NEW p \in Phones, ManualStart(o, p)
  PROVE  IInv' /\ OwnerStep
<1>1. TypeOK'
  BY DEF IInv, TypeOK, KindStages, Stages, Gates, ManualStart, Begin
<1>2. KindStages'
  BY DEF IInv, TypeOK, KindStages, ManualStart, Begin
<1>3. MarkHolds'
  BY DEF IInv, TypeOK, KindStages, JobMarks, MarkHolds, Claiming, Relying,
         ManualStart, Begin
<1>4. JobMarks'
  BY DEF IInv, TypeOK, KindStages, JobMarks, ManualStart, Begin
<1>5. OwnerStep
  BY DEF IInv, TypeOK, KindStages, JobMarks, OwnerStep, Owned, Overwritten,
         ManualStart, Begin
<1> QED  BY <1>1, <1>2, <1>3, <1>4, <1>5 DEF IInv

LEMMA ManualFailsKeeps ==
  ASSUME IInv, NEW o \in Manuals, ManualFails(o)
  PROVE  IInv' /\ OwnerStep
<1>1. TypeOK'
  BY DEF IInv, TypeOK, KindStages, Stages, Gates, ManualFails, End
<1>2. KindStages'
  BY DEF IInv, TypeOK, KindStages, ManualFails, End
<1>3. MarkHolds'
  <2> SUFFICES ASSUME NEW x \in Claiming', at'[x] \notin robbed'
               PROVE  mark'[at'[x]] = x
    BY DEF MarkHolds
  <2>1. x # o /\ x \in Claiming /\ at'[x] = at[x]
    BY DEF IInv, TypeOK, Claiming, Relying, ManualFails, End
  <2> QED
    BY <2>1 DEF IInv, MarkHolds, ManualFails
<1>4. JobMarks'
  BY DEF IInv, TypeOK, KindStages, JobMarks, ManualFails, End
<1>5. OwnerStep
  BY DEF IInv, TypeOK, KindStages, JobMarks, OwnerStep, Owned, Overwritten,
         ManualFails, End
<1> QED  BY <1>1, <1>2, <1>3, <1>4, <1>5 DEF IInv

(* The dialog that ends releases the phone it names: the marks that wait in it *)
(* rely on it no more, any other on that phone is robbed. *)
LEMMA ManualClaimKeeps ==
  ASSUME IInv, NEW o \in Manuals, ManualClaim(o)
  PROVE  IInv' /\ OwnerStep
<1>1. TypeOK'
  <2>1. PICK s \in {"ready", "parked"} : stage' = [DialogStage EXCEPT ![o] = s]
    BY DEF ManualClaim
  <2>2. at[o] \in Phones /\ dialogPhone' \in Phones
    BY DEF IInv, TypeOK, ManualClaim
  <2>3. stage' \in [Ops -> Stages] /\ at' \in [Ops -> Phones \cup {NoPhone}]
    BY <2>1 DEF IInv, TypeOK, Stages, ManualClaim, DialogStage, DialogAt
  <2>4. mark' \in [Phones -> Ops \cup {NoOp}]
    BY <2>2 DEF IInv, TypeOK, ManualClaim, DialogReleased, Released
  <2>5. \A x \in Ops : (at'[x] = NoPhone) = (stage'[x] = "idle")
    BY <2>1, <2>2 DEF IInv, TypeOK, ManualClaim, DialogStage, DialogAt, Waiting
  <2>6. robbed' \subseteq Phones /\ gate' \in Gates
    BY DEF IInv, TypeOK, Gates, ManualClaim, DialogRobs, Robs
  <2> QED
    BY <2>2, <2>3, <2>4, <2>5, <2>6 DEF TypeOK
<1>2. KindStages'
  BY DEF IInv, TypeOK, KindStages, ManualClaim, MayMark, DialogReleased,
         Released, DialogStage, DialogAt, Waiting
<1>3. MarkHolds'
  BY DEF IInv, TypeOK, KindStages, JobMarks, MarkHolds, Claiming, Relying,
         ManualClaim, MayMark, DialogReleased, Released, DialogStage,
         DialogAt, Waiting, DialogRobs, Robs
<1>4. JobMarks'
  BY DEF IInv, TypeOK, KindStages, JobMarks, ManualClaim, MayMark,
         DialogReleased, Released, DialogStage, DialogAt, Waiting
<1>5. OwnerStep
  BY DEF IInv, TypeOK, KindStages, JobMarks, OwnerStep, Owned, Overwritten,
         ManualClaim, MayMark, DialogReleased, Released, DialogStage,
         DialogAt, Waiting
<1> QED  BY <1>1, <1>2, <1>3, <1>4, <1>5 DEF IInv

LEMMA ManualRefusedKeeps ==
  ASSUME IInv, NEW o \in Manuals, ManualRefused(o)
  PROVE  IInv' /\ OwnerStep
<1>1. TypeOK'
  BY DEF IInv, TypeOK, KindStages, Stages, Gates, ManualRefused, MayMark,
         DialogReleased, Released, DialogStage, DialogAt, Waiting, DialogRobs,
         Robs
<1>2. KindStages'
  BY DEF IInv, TypeOK, KindStages, ManualRefused, MayMark, DialogReleased,
         Released, DialogStage, DialogAt, Waiting
<1>3. MarkHolds'
  BY DEF IInv, TypeOK, KindStages, JobMarks, MarkHolds, Claiming, Relying,
         ManualRefused, MayMark, DialogReleased, Released, DialogStage,
         DialogAt, Waiting, DialogRobs, Robs
<1>4. JobMarks'
  BY DEF IInv, TypeOK, KindStages, JobMarks, ManualRefused, MayMark,
         DialogReleased, Released, DialogStage, DialogAt, Waiting
<1>5. OwnerStep
  BY DEF IInv, TypeOK, KindStages, JobMarks, OwnerStep, Owned, Overwritten,
         ManualRefused, MayMark, DialogReleased, Released, DialogStage,
         DialogAt, Waiting
<1> QED  BY <1>1, <1>2, <1>3, <1>4, <1>5 DEF IInv

LEMMA AttackStartKeeps ==
  ASSUME IInv, NEW o \in Manuals, AttackStart(o)
  PROVE  IInv' /\ OwnerStep
<1>1. TypeOK'
  BY DEF IInv, TypeOK, KindStages, Stages, Gates, AttackStart
<1>2. KindStages'
  BY DEF IInv, TypeOK, KindStages, AttackStart
<1>3. MarkHolds'
  BY DEF IInv, TypeOK, KindStages, JobMarks, MarkHolds, Claiming, Relying,
         AttackStart
<1>4. JobMarks'
  BY DEF IInv, TypeOK, KindStages, JobMarks, AttackStart
<1>5. OwnerStep
  BY DEF IInv, TypeOK, KindStages, JobMarks, OwnerStep, Owned, Overwritten,
         AttackStart
<1> QED  BY <1>1, <1>2, <1>3, <1>4, <1>5 DEF IInv

(* The attack that ends relies on its mark no more. *)
LEMMA AttackEndKeeps ==
  ASSUME IInv, NEW o \in Manuals, AttackEnd(o)
  PROVE  IInv' /\ OwnerStep
<1>1. TypeOK'
  BY DEF IInv, TypeOK, KindStages, Stages, Gates, AttackEnd, DialogReleased,
         Released, DialogStage, DialogAt, Waiting, DialogRobs, Robs
<1>2. KindStages'
  BY DEF IInv, TypeOK, KindStages, AttackEnd, DialogReleased, Released,
         DialogStage, DialogAt, Waiting
<1>3. MarkHolds'
  BY DEF IInv, TypeOK, KindStages, JobMarks, MarkHolds, Claiming, Relying,
         AttackEnd, DialogReleased, Released, DialogStage, DialogAt, Waiting,
         DialogRobs, Robs
<1>4. JobMarks'
  BY DEF IInv, TypeOK, KindStages, JobMarks, AttackEnd, DialogReleased,
         Released, DialogStage, DialogAt, Waiting
<1>5. OwnerStep
  BY DEF IInv, TypeOK, KindStages, JobMarks, OwnerStep, Owned, Overwritten,
         AttackEnd, DialogReleased, Released, DialogStage, DialogAt, Waiting
<1> QED  BY <1>1, <1>2, <1>3, <1>4, <1>5 DEF IInv

LEMMA MenuClearKeeps ==
  ASSUME IInv, MenuClear
  PROVE  IInv' /\ OwnerStep
<1>1. TypeOK'
  BY DEF IInv, TypeOK, KindStages, Stages, Gates, MenuClear, DialogReleased,
         Released, DialogStage, DialogAt, Waiting, DialogRobs, Robs
<1>2. KindStages'
  BY DEF IInv, TypeOK, KindStages, MenuClear, DialogReleased, Released,
         DialogStage, DialogAt, Waiting
<1>3. MarkHolds'
  BY DEF IInv, TypeOK, KindStages, JobMarks, MarkHolds, Claiming, Relying,
         MenuClear, DialogReleased, Released, DialogStage, DialogAt, Waiting,
         DialogRobs, Robs
<1>4. JobMarks'
  BY DEF IInv, TypeOK, KindStages, JobMarks, MenuClear, DialogReleased,
         Released, DialogStage, DialogAt, Waiting
<1>5. OwnerStep
  BY DEF IInv, TypeOK, KindStages, JobMarks, OwnerStep, Owned, Overwritten,
         MenuClear, DialogReleased, Released, DialogStage, DialogAt, Waiting
<1> QED  BY <1>1, <1>2, <1>3, <1>4, <1>5 DEF IInv

(* The phone written over may leave its mark behind (Overwritten). *)
LEMMA NamePhoneKeeps ==
  ASSUME IInv, NEW p \in Phones, NamePhone(p)
  PROVE  IInv' /\ OwnerStep
<1>1. TypeOK'
  BY DEF IInv, TypeOK, KindStages, Stages, Gates, NamePhone
<1>2. KindStages'
  BY DEF IInv, TypeOK, KindStages, NamePhone
<1>3. MarkHolds'
  BY DEF IInv, TypeOK, KindStages, JobMarks, MarkHolds, Claiming, Relying,
         NamePhone
<1>4. JobMarks'
  BY DEF IInv, TypeOK, KindStages, JobMarks, NamePhone
<1>5. OwnerStep
  BY DEF IInv, TypeOK, KindStages, JobMarks, OwnerStep, Owned, Overwritten,
         NamePhone
<1> QED  BY <1>1, <1>2, <1>3, <1>4, <1>5 DEF IInv

(* An add relies on no mark. *)
LEMMA WebAddStartKeeps ==
  ASSUME IInv, NEW o \in Adds, NEW p \in Phones, WebAddStart(o, p)
  PROVE  IInv' /\ OwnerStep
<1>1. TypeOK'
  BY DEF IInv, TypeOK, KindStages, Stages, Gates, WebAddStart, Begin
<1>2. KindStages'
  BY DEF IInv, TypeOK, KindStages, WebAddStart, Begin
<1>3. MarkHolds'
  BY DEF IInv, TypeOK, KindStages, JobMarks, MarkHolds, Claiming, Relying,
         WebAddStart, Begin
<1>4. JobMarks'
  BY DEF IInv, TypeOK, KindStages, JobMarks, WebAddStart, Begin
<1>5. OwnerStep
  BY DEF IInv, TypeOK, KindStages, JobMarks, OwnerStep, Owned, Overwritten,
         WebAddStart, Begin
<1> QED  BY <1>1, <1>2, <1>3, <1>4, <1>5 DEF IInv

LEMMA MenuAddStartKeeps ==
  ASSUME IInv, NEW o \in Adds, NEW p \in Phones, MenuAddStart(o, p)
  PROVE  IInv' /\ OwnerStep
<1>1. TypeOK'
  BY DEF IInv, TypeOK, KindStages, Stages, Gates, MenuAddStart, Begin
<1>2. KindStages'
  BY DEF IInv, TypeOK, KindStages, MenuAddStart, Begin
<1>3. MarkHolds'
  BY DEF IInv, TypeOK, KindStages, JobMarks, MarkHolds, Claiming, Relying,
         MenuAddStart, Begin
<1>4. JobMarks'
  BY DEF IInv, TypeOK, KindStages, JobMarks, MenuAddStart, Begin
<1>5. OwnerStep
  BY DEF IInv, TypeOK, KindStages, JobMarks, OwnerStep, Owned, Overwritten,
         MenuAddStart, Begin
<1> QED  BY <1>1, <1>2, <1>3, <1>4, <1>5 DEF IInv

(* The end of an add robs whoever relies on the mark it frees. *)
LEMMA AddEndKeeps ==
  ASSUME IInv, NEW o \in Adds, AddEnd(o)
  PROVE  IInv' /\ OwnerStep
<1>1. TypeOK'
  BY DEF IInv, TypeOK, KindStages, Stages, Gates, AddEnd, Released, Robs, End
<1>2. KindStages'
  BY DEF IInv, TypeOK, KindStages, AddEnd, Released, Robs, End
<1>3. MarkHolds'
  BY DEF IInv, TypeOK, KindStages, JobMarks, MarkHolds, Claiming, Relying,
         AddEnd, Released, Robs, End
<1>4. JobMarks'
  BY DEF IInv, TypeOK, KindStages, JobMarks, AddEnd, Released, Robs, End
<1>5. OwnerStep
  BY DEF IInv, TypeOK, KindStages, JobMarks, OwnerStep, Owned, Overwritten,
         AddEnd, Released, Robs, End
<1> QED  BY <1>1, <1>2, <1>3, <1>4, <1>5 DEF IInv

(* A live add neither marks nor releases. *)
LEMMA LiveAddStartKeeps ==
  ASSUME IInv, NEW o \in Adds, NEW p \in Phones, LiveAddStart(o, p)
  PROVE  IInv' /\ OwnerStep
<1>1. TypeOK'
  BY DEF IInv, TypeOK, KindStages, Stages, Gates, LiveAddStart, Begin
<1>2. KindStages'
  BY DEF IInv, TypeOK, KindStages, LiveAddStart, Begin
<1>3. MarkHolds'
  BY DEF IInv, TypeOK, KindStages, JobMarks, MarkHolds, Claiming, Relying,
         LiveAddStart, Begin
<1>4. JobMarks'
  BY DEF IInv, TypeOK, KindStages, JobMarks, LiveAddStart, Begin
<1>5. OwnerStep
  BY DEF IInv, TypeOK, KindStages, JobMarks, OwnerStep, Owned, Overwritten,
         LiveAddStart, Begin
<1> QED  BY <1>1, <1>2, <1>3, <1>4, <1>5 DEF IInv

(* Whether it opens the gate or gives up, a live add ends with End alone. *)
LEMMA LiveAddEndKeeps ==
  ASSUME IInv, NEW o \in Adds, LiveAddEnd(o) \/ LiveAddGivesUp(o)
  PROVE  IInv' /\ OwnerStep
<1>1. TypeOK'
  BY DEF IInv, TypeOK, KindStages, Stages, Gates, LiveAddEnd, LiveAddGivesUp,
         End
<1>2. KindStages'
  BY DEF IInv, TypeOK, KindStages, LiveAddEnd, LiveAddGivesUp, End
<1>3. MarkHolds'
  <2> SUFFICES ASSUME NEW x \in Claiming', at'[x] \notin robbed'
               PROVE  mark'[at'[x]] = x
    BY DEF MarkHolds
  <2>1. x # o /\ x \in Claiming /\ at'[x] = at[x]
    BY DEF IInv, TypeOK, Claiming, Relying, LiveAddEnd, LiveAddGivesUp, End
  <2> QED
    BY <2>1 DEF IInv, MarkHolds, LiveAddEnd, LiveAddGivesUp
<1>4. JobMarks'
  BY DEF IInv, TypeOK, KindStages, JobMarks, LiveAddEnd, LiveAddGivesUp, End
<1>5. OwnerStep
  BY DEF IInv, TypeOK, KindStages, JobMarks, OwnerStep, Owned, Overwritten,
         LiveAddEnd, LiveAddGivesUp, End
<1> QED  BY <1>1, <1>2, <1>3, <1>4, <1>5 DEF IInv

LEMMA WebStopKeeps ==
  ASSUME IInv, WebStop
  PROVE  IInv' /\ OwnerStep
<1>1. TypeOK'
  BY DEF IInv, TypeOK, KindStages, Stages, Gates, WebStop
<1>2. KindStages'
  BY DEF IInv, TypeOK, KindStages, WebStop
<1>3. MarkHolds'
  BY DEF IInv, TypeOK, KindStages, JobMarks, MarkHolds, Claiming, Relying,
         WebStop
<1>4. JobMarks'
  BY DEF IInv, TypeOK, KindStages, JobMarks, WebStop
<1>5. OwnerStep
  BY DEF IInv, TypeOK, KindStages, JobMarks, OwnerStep, Owned, Overwritten,
         WebStop
<1> QED  BY <1>1, <1>2, <1>3, <1>4, <1>5 DEF IInv

LEMMA StutterKeeps ==
  ASSUME IInv, UNCHANGED vars
  PROVE  IInv' /\ OwnerStep
<1>1. TypeOK'
  BY DEF IInv, TypeOK, KindStages, Stages, Gates, vars
<1>2. KindStages'
  BY DEF IInv, TypeOK, KindStages, vars
<1>3. MarkHolds'
  BY DEF IInv, TypeOK, KindStages, JobMarks, MarkHolds, Claiming, Relying,
         vars
<1>4. JobMarks'
  BY DEF IInv, TypeOK, KindStages, JobMarks, vars
<1>5. OwnerStep
  BY DEF IInv, TypeOK, KindStages, JobMarks, OwnerStep, Owned, Overwritten,
         vars
<1> QED  BY <1>1, <1>2, <1>3, <1>4, <1>5 DEF IInv

-----------------------------------------------------------------------------
LEMMA StepKeeps == IInv /\ [Next]_vars => IInv' /\ OwnerStep
<1> SUFFICES ASSUME IInv, [Next]_vars PROVE IInv' /\ OwnerStep
  OBVIOUS
<1>1. CASE UNCHANGED vars
  BY <1>1, StutterKeeps
<1>2. ASSUME NEW p \in Phones, Start(p) PROVE IInv' /\ OwnerStep
  BY <1>2, ScrapeTriggerKeeps, ScanPickKeeps, ProbeStartKeeps, ManualStartKeeps,
     WebAddStartKeeps, MenuAddStartKeeps, LiveAddStartKeeps DEF Start
<1>3. ASSUME NEW p \in Phones, Expire(p) \/ NamePhone(p) PROVE IInv' /\ OwnerStep
  BY <1>3, ExpireKeeps, NamePhoneKeeps
<1>4. ASSUME NEW o \in Scrapes, ScrapeStep(o) PROVE IInv' /\ OwnerStep
  BY <1>4, ScrapeClaimKeeps, ScrapeRefusedKeeps, ScrapeEndKeeps DEF ScrapeStep
<1>5. ASSUME NEW o \in Scans, ScanStep(o) PROVE IInv' /\ OwnerStep
  BY <1>5, ScanClaimKeeps, ScanRefusedKeeps, FinishKeeps DEF ScanStep
<1>6. ASSUME NEW o \in Probes, Finish(o) PROVE IInv' /\ OwnerStep
  BY <1>6, FinishKeeps
<1>7. ASSUME NEW o \in Manuals, ManualStep(o) PROVE IInv' /\ OwnerStep
  BY <1>7, ManualFailsKeeps, ManualClaimKeeps, ManualRefusedKeeps,
     AttackStartKeeps, AttackEndKeeps DEF ManualStep
<1>8. ASSUME NEW o \in Adds, AddStep(o) PROVE IInv' /\ OwnerStep
  BY <1>8, AddEndKeeps, LiveAddEndKeeps DEF AddStep
<1>9. CASE MenuClear \/ WebStop
  BY <1>9, MenuClearKeeps, WebStopKeeps
<1> QED
  BY <1>1, <1>2, <1>3, <1>4, <1>5, <1>6, <1>7, <1>8, <1>9 DEF Next

LEMMA InvHolds == Spec => []IInv
<1>1. Init => IInv
  BY InitInv
<1>2. IInv /\ [Next]_vars => IInv'
  BY StepKeeps
<1> QED
  BY <1>1, <1>2, PTL DEF Spec

(* The types of AccountUse, and that an operation has an account exactly     *)
(* while it is not idle.                                                     *)
THEOREM UseTypeCorrect == Spec => []TypeOK
<1>1. IInv => TypeOK
  BY DEF IInv
<1> QED
  BY <1>1, InvHolds, PTL

(* mark_busy keeps two operations that mark away from one account, as long   *)
(* as nobody takes a mark that is relied on: two of them would both have to  *)
(* be the one operation the registry names.                                  *)
THEOREM ExclusionCorrect == Spec => []MarkedExclusive
<1>1. IInv => MarkedExclusive
  BY DEF IInv, MarkHolds, MarkedExclusive
<1> QED
  BY <1>1, InvHolds, PTL

(* A mark that somebody will release is forgotten by no step but one that    *)
(* writes another phone over the one the dialog names.                       *)
THEOREM OwnerCorrect == Spec => NoMarkForgotten
<1>1. IInv /\ [Next]_vars => [OwnerStep]_vars
  BY StepKeeps
<1>2. Spec => [][OwnerStep]_vars
  BY <1>1, InvHolds, PTL DEF Spec
<1> QED
  BY <1>2, PTL DEF NoMarkForgotten, OwnerStep
=============================================================================
