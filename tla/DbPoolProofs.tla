----------------------------- MODULE DbPoolProofs -----------------------------
(***************************************************************************)
(* Proofs about the connection pool for any threads, any sizes of the pool *)
(* and any number of retries.                                              *)
(*                                                                         *)
(* OneHolder and NothingLeaks lean on each other and on the shape of a     *)
(* call: where it stands tells which of its two places holds a connection, *)
(* and a connection just taken is closed only if a reset has also taken it *)
(* off the pool's books (it is then dropped without a putconn).  One lemma *)
(* per action shows that the action keeps all of it.                       *)
(***************************************************************************)
EXTENDS DbPool, FiniteSetTheorems, WellFoundedInduction, TLAPS

(* Types, without the bounds on cardinalities. *)
Typed ==
  /\ live \in BOOLEAN
  /\ idle \subseteq Conns /\ used \subseteq Conns /\ parked \subseteq Conns
  /\ open \subseteq Conns
  /\ pc \in [Threads -> {"idle", "init", "take", "setup", "body", "close", "raised"}]
  /\ kind \in [Threads -> {"guarded", "inline", "nested", "bulk", "backup"}]
  /\ tries \in [Threads -> 1..MaxRetries]
  /\ level \in [Threads -> 1..2]
  /\ ref \in [Threads -> [1..2 -> Conns \cup {NoConn}]]

(* No pool, nothing in it. *)
NoPool == ~live => idle = {} /\ used = {}

(* Where a call stands and what it holds. *)
Shape(t) ==
  /\ level[t] = 1 => ref[t][2] = NoConn
  /\ pc[t] = "idle" => level[t] = 1
  /\ pc[t] \in {"idle", "init", "take"} => Top(t) = NoConn
  /\ pc[t] \in {"setup", "body", "close"} => Top(t) # NoConn
  /\ kind[t] = "nested" /\ level[t] = 2 => ref[t][1] # NoConn
  /\ kind[t] \in {"guarded", "inline", "bulk"} => level[t] = 1
  /\ kind[t] = "backup" /\ pc[t] \in {"body", "close"} => level[t] = 2
  /\ kind[t] = "bulk" /\ pc[t] = "raised" => Top(t) = NoConn
  /\ pc[t] = "setup" /\ Top(t) \in used => Top(t) \in open

Shapes == \A t \in Threads : Shape(t)

(* The inductive invariant. *)
IInv == Typed /\ NoPool /\ OneHolder /\ NothingLeaks /\ Shapes

(* Used by every step: what the constants are, and the groups of variables. *)
USE PoolAssumption, ThreadAssumption DEF Threads, Conns, NoConn, pool, conns, calls

(* Types of what Leave, a release and ReleaseTop write. *)
CallsTyped ==
  /\ pc \in [Threads -> {"idle", "init", "take", "setup", "body", "close", "raised"}]
  /\ kind \in [Threads -> {"guarded", "inline", "nested", "bulk", "backup"}]
  /\ tries \in [Threads -> 1..MaxRetries]
  /\ level \in [Threads -> 1..2]
PoolTyped ==
  /\ live \in BOOLEAN
  /\ idle \subseteq Conns /\ used \subseteq Conns /\ open \subseteq Conns
RefTyped == ref \in [Threads -> [1..2 -> Conns \cup {NoConn}]]

(* Typed, part by part. *)
LEMMA TypedParts == Typed <=> CallsTyped /\ PoolTyped /\ RefTyped /\ parked \subseteq Conns
  BY DEF Typed, CallsTyped, PoolTyped, RefTyped

(* Leave writes types. *)
LEMMA LeaveTyped ==
  ASSUME CallsTyped, NEW t \in Threads, Leave(t)
  PROVE  CallsTyped'
  BY DEF CallsTyped, Leave

(* A release writes types. *)
LEMMA ReleaseTyped ==
  ASSUME PoolTyped, NEW c \in Conns, Release(c)
  PROVE  PoolTyped'
  BY DEF PoolTyped, SlotFreed, Reusable, Release

(* So does a release of what is on top. *)
LEMMA ReleaseTopTyped ==
  ASSUME Typed, NEW t \in Threads, ReleaseTop(t)
  PROVE  PoolTyped' /\ RefTyped'
<1>1. Top(t) \in Conns \cup {NoConn}
  BY DEF Typed, Top
<1>2. CASE Top(t) = NoConn
  BY <1>2 DEF Typed, PoolTyped, RefTyped, ReleaseTop
<1>3. CASE Top(t) # NoConn
  <2>1. PoolTyped'
    BY <1>1, <1>3, ReleaseTyped, TypedParts DEF ReleaseTop
  <2>2. RefTyped'
    BY <1>3 DEF Typed, RefTyped, ReleaseTop, Forgotten
  <2> QED  BY <2>1, <2>2
<1> QED  BY <1>2, <1>3

(* What is left when a call gives back the connection on top: nobody else  *)
(* held it, so the others lose nothing.                                    *)
LEMMA ReleaseTopLeavesNothing ==
  ASSUME IInv, NEW t \in Threads, Top(t) # NoConn, ReleaseTop(t), parked' = parked
  PROVE  NothingLeaks'
<1>1. Top(t) \in Borrowed
  BY DEF IInv, Typed, Top, Borrowed, Held
<1>2. Top(t) \notin idle
  BY <1>1 DEF IInv, OneHolder
<1>3. \A c \in Borrowed : c # Top(t) => c \in Borrowed'
  BY DEF IInv, Typed, Top, Borrowed, Held, ReleaseTop, Forgotten
<1> QED
  BY <1>2, <1>3 DEF IInv, NothingLeaks, ReleaseTop, SlotFreed, Reusable, Release

(* A call begins with empty hands. *)
LEMMA BeginKeeps ==
  ASSUME IInv, NEW t \in Threads, Begin(t)
  PROVE  IInv'
<1>1. Typed'
  BY DEF IInv, Typed, Kinds, Begin, Top
<1>2. NoPool'
  BY DEF IInv, NoPool, Begin, Top
<1>3. OneHolder'
  BY DEF IInv, Typed, OneHolder, Shapes, Shape, Held, Borrowed, Begin, Top
<1>4. NothingLeaks'
  BY DEF IInv, Typed, NothingLeaks, Shapes, Shape, Held, Borrowed, Begin, Top
<1>5. Shapes'
  BY DEF IInv, Typed, Shapes, Shape, Begin, At, Top
<1> QED  BY <1>1, <1>2, <1>3, <1>4, <1>5 DEF IInv

(* Looking at the pool changes nothing. *)
LEMMA PoolThereKeeps ==
  ASSUME IInv, NEW t \in Threads, PoolThere(t)
  PROVE  IInv'
<1>1. Typed'
  BY DEF IInv, Typed, PoolThere, Go, Top
<1>2. NoPool'
  BY DEF NoPool, PoolThere, Top
<1>3. OneHolder'
  BY DEF IInv, Typed, OneHolder, Shapes, Shape, Held, Borrowed, PoolThere, Top
<1>4. NothingLeaks'
  BY DEF IInv, Typed, NothingLeaks, Shapes, Shape, Held, Borrowed, PoolThere, Top
<1>5. Shapes'
  BY DEF IInv, Typed, Shapes, Shape, PoolThere, At, Go, Top
<1> QED  BY <1>1, <1>2, <1>3, <1>4, <1>5 DEF IInv

(* New connections belong to nobody, and an absent pool had none. *)
LEMMA PoolMadeKeeps ==
  ASSUME IInv, NEW t \in Threads, PoolMade(t)
  PROVE  IInv'
<1>1. Typed'
  BY DEF IInv, Typed, Free, PoolMade, New, Go, Top
<1>2. NoPool'
  BY DEF NoPool, PoolMade, Top
<1>3. OneHolder'
  BY DEF IInv, Typed, OneHolder, Shapes, Shape, Held, Borrowed, Free, PoolMade, New, Top
<1>4. NothingLeaks'
  <2>1. Borrowed' = Borrowed
    BY DEF PoolMade, Borrowed, Held
  <2>2. idle' \subseteq open' /\ used' = {} /\ open' \subseteq open \cup idle' /\ idle = {}
    BY DEF PoolMade, IInv, NoPool
  <2> QED  BY <2>1, <2>2 DEF IInv, NothingLeaks
<1>5. Shapes'
  BY DEF IInv, Typed, Shapes, Shape, PoolMade, At, Go, Top
<1> QED  BY <1>1, <1>2, <1>3, <1>4, <1>5 DEF IInv

(* A pool that cannot be made leaves all as it was. *)
LEMMA PoolNotMadeKeeps ==
  ASSUME IInv, NEW t \in Threads, PoolNotMade(t)
  PROVE  IInv'
<1>1. Typed'
  BY DEF IInv, Typed, PoolNotMade, Raise, Go, Top
<1>2. NoPool'
  BY DEF IInv, NoPool, PoolNotMade, Top
<1>3. OneHolder'
  BY DEF IInv, Typed, OneHolder, Shapes, Shape, Held, Borrowed, PoolNotMade, Top
<1>4. NothingLeaks'
  BY DEF IInv, Typed, NothingLeaks, Shapes, Shape, Held, Borrowed, PoolNotMade, Top
<1>5. Shapes'
  BY DEF IInv, Typed, Shapes, Shape, PoolNotMade, Raise, At, Go, Top
<1> QED  BY <1>1, <1>2, <1>3, <1>4, <1>5 DEF IInv

(* A pool that is gone gives nothing. *)
LEMMA TakeLostKeeps ==
  ASSUME IInv, NEW t \in Threads, TakeLost(t)
  PROVE  IInv'
<1>1. Typed'
  BY DEF IInv, Typed, TakeLost, Raise, Asked, Go, Top
<1>2. NoPool'
  BY DEF IInv, NoPool, TakeLost, Top
<1>3. OneHolder'
  BY DEF IInv, Typed, OneHolder, Shapes, Shape, Held, Borrowed, TakeLost, Top
<1>4. NothingLeaks'
  BY DEF IInv, Typed, NothingLeaks, Shapes, Shape, Held, Borrowed, TakeLost, Top
<1>5. Shapes'
  BY DEF IInv, Typed, Shapes, Shape, TakeLost, Raise, At, Go, Top
<1> QED  BY <1>1, <1>2, <1>3, <1>4, <1>5 DEF IInv

(* An idle connection has no holder until it is taken. *)
LEMMA TakeIdleKeeps ==
  ASSUME IInv, NEW t \in Threads, TakeIdle(t)
  PROVE  IInv'
<1>1. Typed'
  BY DEF IInv, Typed, TakeIdle, Takes, Go, Top
<1>2. NoPool'
  BY DEF NoPool, TakeIdle, Takes, Top
<1>3. OneHolder'
  BY DEF IInv, Typed, OneHolder, Shapes, Shape, Held, Borrowed, TakeIdle, Takes, Top
<1>4. NothingLeaks'
  BY DEF IInv, Typed, NothingLeaks, Shapes, Shape, Held, Borrowed, TakeIdle, Takes, At, Top
<1>5. Shapes'
  BY DEF IInv, Typed, NothingLeaks, Shapes, Shape, TakeIdle, Takes, Go, Top
<1> QED  BY <1>1, <1>2, <1>3, <1>4, <1>5 DEF IInv

(* Nor has a new one. *)
LEMMA TakeNewKeeps ==
  ASSUME IInv, NEW t \in Threads, TakeNew(t)
  PROVE  IInv'
<1>1. Typed'
  BY DEF IInv, Typed, Free, TakeNew, Takes, New, Go, Top
<1>2. NoPool'
  BY DEF NoPool, TakeNew, Takes, Top
<1>3. OneHolder'
  BY DEF IInv, Typed, OneHolder, Shapes, Shape, Held, Borrowed, Free, TakeNew, Takes, New, Top
<1>4. NothingLeaks'
  BY DEF IInv, Typed, NothingLeaks, Shapes, Shape, Held, Borrowed, Free, TakeNew, Takes,
     New, At, Top
<1>5. Shapes'
  BY DEF IInv, Typed, Shapes, Shape, Free, TakeNew, Takes, New, Go, Top
<1> QED  BY <1>1, <1>2, <1>3, <1>4, <1>5 DEF IInv

(* A connection that cannot be made is nobody's. *)
LEMMA TakeNotMadeKeeps ==
  ASSUME IInv, NEW t \in Threads, TakeNotMade(t)
  PROVE  IInv'
<1>1. Typed'
  BY DEF IInv, Typed, TakeNotMade, Raise, Asked, Go, Top
<1>2. NoPool'
  BY DEF NoPool, TakeNotMade, Top
<1>3. OneHolder'
  BY DEF IInv, Typed, OneHolder, Shapes, Shape, Held, TakeNotMade, Top
<1>4. NothingLeaks'
  BY DEF IInv, Typed, NothingLeaks, Shapes, Shape, Held, Borrowed, TakeNotMade, Top
<1>5. Shapes'
  BY DEF IInv, Typed, Shapes, Shape, TakeNotMade, Raise, At, Go, Top
<1> QED  BY <1>1, <1>2, <1>3, <1>4, <1>5 DEF IInv

(* A full pool gives nothing. *)
LEMMA TakeFullKeeps ==
  ASSUME IInv, NEW t \in Threads, TakeFull(t)
  PROVE  IInv'
<1>1. Typed'
  BY DEF IInv, Typed, TakeFull, Raise, Asked, Go, Top
<1>2. NoPool'
  BY DEF NoPool, TakeFull, Top
<1>3. OneHolder'
  BY DEF IInv, Typed, OneHolder, Shapes, Shape, Held, TakeFull, Top
<1>4. NothingLeaks'
  BY DEF IInv, Typed, NothingLeaks, Shapes, Shape, Held, Borrowed, TakeFull, Top
<1>5. Shapes'
  BY DEF IInv, Typed, Shapes, Shape, TakeFull, Raise, At, Go, Top
<1> QED  BY <1>1, <1>2, <1>3, <1>4, <1>5 DEF IInv

(* The call goes on with the connection it took. *)
LEMMA SetUpKeeps ==
  ASSUME IInv, NEW t \in Threads, SetUp(t)
  PROVE  IInv'
<1>1. Typed'
  BY DEF IInv, Typed, SetUp, Borrow2, Go, Top
<1>2. NoPool'
  BY DEF IInv, NoPool, SetUp, Borrow2, Top
<1>3. OneHolder'
  BY DEF IInv, Typed, OneHolder, Shapes, Shape, Held, Borrowed, SetUp, Borrow2, Top
<1>4. NothingLeaks'
  BY DEF IInv, Typed, NothingLeaks, Shapes, Shape, Held, Borrowed, SetUp, Borrow2, Top
<1>5. Shapes'
  BY DEF IInv, Typed, Shapes, Shape, SetUp, Borrow2, Go, Top
<1> QED  BY <1>1, <1>2, <1>3, <1>4, <1>5 DEF IInv

(* Only a reset closes a connection before its call has used it, and it is off the books then. *)
LEMMA SetUpFailsKeeps ==
  ASSUME IInv, NEW t \in Threads, SetUpFails(t)
  PROVE  IInv'
<1>1. Typed'
  BY DEF IInv, Typed, SetUpFails, Raise, Forgotten, Go, Top
<1>2. NoPool'
  BY DEF IInv, NoPool, SetUpFails, Top
<1>3. OneHolder'
  BY DEF IInv, Typed, OneHolder, Shapes, Shape, Held, Borrowed, SetUpFails, Forgotten, Top
<1>4. NothingLeaks'
  BY DEF IInv, Typed, NothingLeaks, Shapes, Shape, Held, Borrowed, SetUpFails, Forgotten,
     At, Top
<1>5. Shapes'
  BY DEF IInv, Typed, Shapes, Shape, SetUpFails, Raise, Forgotten, Go, Top
<1> QED  BY <1>1, <1>2, <1>3, <1>4, <1>5 DEF IInv

(* Statements move no connection. *)
LEMMA ExecutesKeeps ==
  ASSUME IInv, NEW t \in Threads, Executes(t)
  PROVE  IInv'
<1>1. Typed'
  BY DEF IInv, Typed, Executes, Go, Top
<1>2. NoPool'
  BY DEF IInv, NoPool, Executes, Top
<1>3. OneHolder'
  BY DEF IInv, Typed, OneHolder, Shapes, Shape, Held, Borrowed, Executes, Top
<1>4. NothingLeaks'
  BY DEF IInv, Typed, NothingLeaks, Shapes, Shape, Held, Borrowed, Executes, Top
<1>5. Shapes'
  BY DEF IInv, Typed, Shapes, Shape, Executes, At, Go, Top
<1> QED  BY <1>1, <1>2, <1>3, <1>4, <1>5 DEF IInv

(* A connection that fails is closed in the hands of its call. *)
LEMMA ExecuteFailsKeeps ==
  ASSUME IInv, NEW t \in Threads, ExecuteFails(t)
  PROVE  IInv'
<1>1. Typed'
  BY DEF IInv, Typed, ExecuteFails, Go, Top
<1>2. NoPool'
  BY DEF IInv, NoPool, ExecuteFails, Top
<1>3. OneHolder'
  BY DEF IInv, Typed, OneHolder, Shapes, Shape, Held, Borrowed, ExecuteFails, Top
<1>4. NothingLeaks'
  <2>1. Borrowed' = Borrowed
    BY DEF ExecuteFails, Borrowed, Held
  <2>2. Top(t) \in Borrowed
    BY DEF ExecuteFails, IInv, Typed, Shapes, Shape, At, Top, Borrowed, Held
  <2>3. Top(t) \notin idle
    BY <2>2 DEF IInv, OneHolder
  <2> QED  BY <2>1, <2>3 DEF ExecuteFails, IInv, NothingLeaks
<1>5. Shapes'
  BY DEF IInv, Typed, OneHolder, Shapes, Shape, ExecuteFails, At, Go, Top
<1> QED  BY <1>1, <1>2, <1>3, <1>4, <1>5 DEF IInv

(* A call that ends gives back what it holds. *)
LEMMA EndsKeeps ==
  ASSUME IInv, NEW t \in Threads, Ends(t)
  PROVE  IInv'
<1>1. Typed'
  <2>1. PoolTyped' /\ RefTyped'
    BY ReleaseTopTyped DEF IInv, Ends
  <2>2. CallsTyped'
    BY LeaveTyped, TypedParts DEF IInv, Ends
  <2> QED  BY <2>1, <2>2 DEF IInv, Typed, CallsTyped, PoolTyped, RefTyped, Ends
<1>2. NoPool'
  BY DEF IInv, NoPool, Ends, ReleaseTop, SlotFreed, Reusable, Outermost, Top, Release
<1>3. OneHolder'
  BY DEF IInv, Typed, OneHolder, Shapes, Shape, Held, Borrowed, Ends, ReleaseTop,
     SlotFreed, Reusable, Forgotten, Outermost, Top, Release
<1>4. NothingLeaks'
  <2>1. CASE Top(t) = NoConn
    BY <2>1 DEF IInv, NothingLeaks, Ends, ReleaseTop, Borrowed, Held
  <2>2. CASE Top(t) # NoConn
    BY <2>2, ReleaseTopLeavesNothing DEF Ends
  <2> QED  BY <2>1, <2>2
<1>5. Shapes'
  BY DEF IInv, Typed, Shapes, Shape, Ends, ReleaseTop, SlotFreed, Reusable, Forgotten,
     Leave, Outermost, Top, Release
<1> QED  BY <1>1, <1>2, <1>3, <1>4, <1>5 DEF IInv

(* The inner call gives back its own connection only. *)
LEMMA InnerEndsKeeps ==
  ASSUME IInv, NEW t \in Threads, InnerEnds(t)
  PROVE  IInv'
<1>1. Typed'
  <2>1. PoolTyped' /\ RefTyped'
    BY ReleaseTopTyped DEF IInv, InnerEnds
  <2>2. CallsTyped' /\ parked' \subseteq Conns
    BY DEF IInv, Typed, CallsTyped, InnerEnds
  <2> QED  BY <2>1, <2>2 DEF Typed, CallsTyped, PoolTyped, RefTyped
<1>2. NoPool'
  BY DEF IInv, NoPool, InnerEnds, ReleaseTop, SlotFreed, Reusable, Top, Release
<1>3. OneHolder'
  BY DEF IInv, Typed, OneHolder, Shapes, Shape, Held, Borrowed, InnerEnds, ReleaseTop,
     SlotFreed, Reusable, Forgotten, Top, Release
<1>4. NothingLeaks'
  <2>1. CASE Top(t) = NoConn
    BY <2>1 DEF IInv, NothingLeaks, InnerEnds, ReleaseTop, Borrowed, Held
  <2>2. CASE Top(t) # NoConn
    BY <2>2, ReleaseTopLeavesNothing DEF InnerEnds
  <2> QED  BY <2>1, <2>2
<1>5. Shapes'
  BY DEF IInv, Typed, Shapes, Shape, InnerEnds, ReleaseTop, SlotFreed, Reusable, Forgotten,
     Top, Release
<1> QED  BY <1>1, <1>2, <1>3, <1>4, <1>5 DEF IInv

(* The backup goes on without its first connection. *)
LEMMA BackupGoesOnKeeps ==
  ASSUME IInv, NEW t \in Threads, BackupGoesOn(t)
  PROVE  IInv'
<1>1. Typed'
  BY DEF IInv, Typed, BackupGoesOn, Borrow2, Top
<1>2. NoPool'
  BY DEF IInv, NoPool, BackupGoesOn, Borrow2, Top
<1>3. OneHolder'
  BY DEF IInv, Typed, OneHolder, Shapes, Shape, Held, Borrowed, BackupGoesOn, Borrow2, Top
<1>4. NothingLeaks'
  BY DEF IInv, Typed, NothingLeaks, Shapes, Shape, Held, Borrowed, BackupGoesOn, Borrow2, Top
<1>5. Shapes'
  BY DEF IInv, Typed, Shapes, Shape, BackupGoesOn, Borrow2, Top
<1> QED  BY <1>1, <1>2, <1>3, <1>4, <1>5 DEF IInv

(* What an inline call could not use is parked with its coroutine. *)
LEMMA InlineGoesOnKeeps ==
  ASSUME IInv, NEW t \in Threads, InlineGoesOn(t)
  PROVE  IInv'
<1>1. level[t] = 1 /\ Top(t) = ref[t][1] /\ ref[t][1] \in Conns \cup {NoConn}
  BY DEF IInv, Typed, Shapes, Shape, InlineGoesOn, Top
<1>2. Typed'
  <2>1. CallsTyped'
    BY LeaveTyped, TypedParts DEF IInv, InlineGoesOn
  <2>2. RefTyped' /\ PoolTyped' /\ parked' \subseteq Conns
    BY <1>1 DEF IInv, Typed, RefTyped, PoolTyped, InlineGoesOn, Forgotten
  <2> QED  BY <2>1, <2>2 DEF Typed, CallsTyped, PoolTyped, RefTyped
<1>3. NoPool'
  BY DEF IInv, NoPool, InlineGoesOn
<1>4. ref' = [ref EXCEPT ![t][1] = NoConn] /\ parked' = parked \cup ({ref[t][1]} \ {NoConn})
  BY <1>1 DEF InlineGoesOn, Forgotten
<1>5. OneHolder'
  BY <1>4 DEF IInv, Typed, OneHolder, Held, Borrowed, InlineGoesOn
<1>6. NothingLeaks'
  <2>1. Borrowed' = Borrowed
    BY <1>4 DEF IInv, Typed, Borrowed, Held
  <2> QED  BY <2>1 DEF IInv, NothingLeaks, InlineGoesOn
<1>7. Shapes'
  BY <1>4 DEF IInv, Typed, Shapes, Shape, InlineGoesOn, Leave, Top
<1> QED  BY <1>2, <1>3, <1>5, <1>6, <1>7 DEF IInv

(* The second connection goes back, the first is parked. *)
LEMMA BackupUploadsKeeps ==
  ASSUME IInv, NEW t \in Threads, BackupUploads(t)
  PROVE  IInv'
<1>1. /\ level[t] = 2 /\ Top(t) = ref[t][2]
      /\ ref[t][2] \in Conns /\ ref[t][1] \in Conns \cup {NoConn}
  BY DEF IInv, Typed, Shapes, Shape, BackupUploads, At, Top
<1>2. Typed'
  <2>1. CallsTyped'
    BY LeaveTyped, TypedParts DEF IInv, BackupUploads
  <2>2. PoolTyped'
    BY <1>1, ReleaseTyped, TypedParts DEF IInv, BackupUploads
  <2>3. RefTyped' /\ parked' \subseteq Conns
    BY <1>1 DEF IInv, Typed, RefTyped, BackupUploads
  <2> QED  BY <2>1, <2>2, <2>3 DEF Typed, CallsTyped, PoolTyped, RefTyped
<1>3. NoPool'
  BY DEF IInv, NoPool, BackupUploads, SlotFreed, Reusable, Release
<1>4. OneHolder'
  BY <1>1 DEF IInv, Typed, OneHolder, Held, Borrowed, BackupUploads, SlotFreed,
     Reusable, Release
<1>5. NothingLeaks'
  <2>1. \A c \in Borrowed : c # ref[t][2] => c \in Borrowed'
    BY DEF IInv, Typed, BackupUploads, Borrowed, Held
  <2>2. ref[t][2] \notin idle
    BY <1>1 DEF IInv, OneHolder, Borrowed, Held
  <2> QED  BY <1>1, <2>1, <2>2 DEF BackupUploads, IInv, NothingLeaks, SlotFreed, Reusable, Release
<1>6. Shapes'
  BY <1>1 DEF IInv, Typed, Shapes, Shape, BackupUploads, SlotFreed, Reusable, Leave, Top, Release
<1> QED  BY <1>2, <1>3, <1>4, <1>5, <1>6 DEF IInv

(* After an error both are parked. *)
LEMMA BackupFailsKeeps ==
  ASSUME IInv, NEW t \in Threads, BackupFails(t)
  PROVE  IInv'
<1>1. ref[t][1] \in Conns \cup {NoConn} /\ ref[t][2] \in Conns \cup {NoConn}
  BY DEF IInv, Typed
<1>2. Typed'
  <2>1. CallsTyped'
    BY LeaveTyped, TypedParts DEF IInv, BackupFails
  <2>2. RefTyped' /\ PoolTyped' /\ parked' \subseteq Conns
    BY <1>1 DEF IInv, Typed, RefTyped, PoolTyped, BackupFails
  <2> QED  BY <2>1, <2>2 DEF Typed, CallsTyped, PoolTyped, RefTyped
<1>3. NoPool'
  BY DEF IInv, NoPool, BackupFails
<1>4. OneHolder'
  BY <1>1 DEF IInv, Typed, OneHolder, Held, Borrowed, BackupFails
<1>5. NothingLeaks'
  <2>1. \A c \in Borrowed \ {NoConn} : c \in Borrowed'
    BY DEF IInv, Typed, BackupFails, Borrowed, Held
  <2>2. NoConn \notin used /\ NoConn \notin open
    BY DEF IInv, Typed
  <2> QED  BY <2>1, <2>2 DEF IInv, NothingLeaks, BackupFails
<1>6. Shapes'
  BY DEF IInv, Typed, Shapes, Shape, BackupFails, Leave, Top
<1> QED  BY <1>2, <1>3, <1>4, <1>5, <1>6 DEF IInv

(* A reset leaves open only what the pool did not know, and that has a holder. *)
LEMMA BulkResetsKeeps ==
  ASSUME IInv, NEW t \in Threads, BulkResets(t)
  PROVE  IInv'
<1>1. Typed'
  <2>1. PoolTyped' /\ RefTyped' /\ parked' \subseteq Conns
    BY DEF IInv, Typed, PoolTyped, RefTyped, BulkResets, ClosedByReset
  <2>2. CASE tries[t] < MaxRetries
    <3>1. tries[t] + 1 \in 1..MaxRetries
      BY <2>2 DEF IInv, Typed
    <3>2. CallsTyped'
      BY <2>2, <3>1 DEF IInv, Typed, CallsTyped, BulkResets
    <3> QED  BY <2>1, <3>2 DEF Typed, CallsTyped, PoolTyped, RefTyped
  <2>3. CASE ~(tries[t] < MaxRetries)
    <3>1. CallsTyped'
      BY <2>3, LeaveTyped, TypedParts DEF IInv, BulkResets
    <3> QED  BY <2>1, <3>1 DEF Typed, CallsTyped, PoolTyped, RefTyped
  <2> QED  BY <2>2, <2>3
<1>2. NoPool'
  BY DEF NoPool, BulkResets, ClosedByReset, Top
<1>3. OneHolder'
  BY DEF IInv, Typed, OneHolder, Shapes, Shape, Held, BulkResets, ClosedByReset, Top
<1>4. NothingLeaks'
  BY DEF IInv, Typed, NothingLeaks, Shapes, Shape, Held, Borrowed, BulkResets,
     ClosedByReset, Top
<1>5. Shapes'
  BY DEF IInv, Typed, Shapes, Shape, BulkResets, ClosedByReset, Leave, At, Top
<1> QED  BY <1>1, <1>2, <1>3, <1>4, <1>5 DEF IInv

(* A coroutine that is over gives back what it kept. *)
LEMMA CoroutineEndsKeeps ==
  ASSUME IInv, CoroutineEnds
  PROVE  IInv'
<1>1. Typed'
  BY DEF IInv, Typed, CoroutineEnds, SlotFreed, Reusable, Top, Release
<1>2. NoPool'
  BY DEF IInv, NoPool, CoroutineEnds, SlotFreed, Reusable, Top, Release
<1>3. OneHolder'
  BY DEF IInv, Typed, OneHolder, Shapes, Shape, Held, Borrowed, CoroutineEnds, SlotFreed,
     Reusable, Top, Release
<1>4. NothingLeaks'
  BY DEF IInv, Typed, OneHolder, NothingLeaks, Shapes, Shape, Held, Borrowed, CoroutineEnds,
     SlotFreed, Reusable, Top, Release
<1>5. Shapes'
  BY DEF IInv, Typed, Shapes, Shape, CoroutineEnds, SlotFreed, Reusable, Top, Release
<1> QED  BY <1>1, <1>2, <1>3, <1>4, <1>5 DEF IInv

(* A lost server closes nothing on this side. *)
LEMMA NetDownKeeps ==
  ASSUME IInv, NetDown
  PROVE  IInv'
<1>1. Typed'
  BY DEF IInv, Typed, NetDown, Top
<1>2. NoPool'
  BY DEF IInv, NoPool, NetDown, Top
<1>3. OneHolder'
  BY DEF IInv, Typed, OneHolder, Shapes, Shape, Held, Borrowed, NetDown, Top
<1>4. NothingLeaks'
  BY DEF IInv, Typed, NothingLeaks, Shapes, Shape, Held, Borrowed, NetDown, Top
<1>5. Shapes'
  BY DEF IInv, Typed, Shapes, Shape, NetDown, Top
<1> QED  BY <1>1, <1>2, <1>3, <1>4, <1>5 DEF IInv

(* Nor does its return. *)
LEMMA NetUpKeeps ==
  ASSUME IInv, NetUp
  PROVE  IInv'
<1>1. Typed'
  BY DEF IInv, Typed, NetUp, Top
<1>2. NoPool'
  BY DEF IInv, NoPool, NetUp, Top
<1>3. OneHolder'
  BY DEF IInv, Typed, OneHolder, Shapes, Shape, Held, Borrowed, NetUp, Top
<1>4. NothingLeaks'
  BY DEF IInv, Typed, NothingLeaks, Shapes, Shape, Held, Borrowed, NetUp, Top
<1>5. Shapes'
  BY DEF IInv, Typed, Shapes, Shape, NetUp, Top
<1> QED  BY <1>1, <1>2, <1>3, <1>4, <1>5 DEF IInv

-----------------------------------------------------------------------------
(* Nothing is lent at the start. *)
LEMMA InitInv == Init => IInv
<1> SUFFICES ASSUME Init PROVE IInv
  OBVIOUS
<1>1. Typed /\ NoPool
  <2>1. [i \in 1..2 |-> NoConn] \in [1..2 -> Conns \cup {NoConn}]
    OBVIOUS
  <2>2. RefTyped
    BY <2>1 DEF Init, RefTyped
  <2>3. CallsTyped
    BY DEF Init, CallsTyped
  <2>4. PoolTyped /\ NoPool /\ parked \subseteq Conns
    BY DEF Init, PoolTyped, NoPool
  <2> QED  BY <2>2, <2>3, <2>4, TypedParts
<1>2. Held = {} /\ Borrowed = {}
  BY DEF Init, Held, Borrowed
<1>3. OneHolder /\ NothingLeaks
  BY <1>2 DEF Init, OneHolder, NothingLeaks
<1>4. Shapes
  BY DEF Init, Shapes, Shape, Top
<1> QED  BY <1>1, <1>3, <1>4 DEF IInv

(* Nothing happens. *)
LEMMA StutterKeeps == IInv /\ UNCHANGED vars => IInv'
<1> SUFFICES ASSUME IInv, UNCHANGED vars PROVE IInv'
  OBVIOUS
<1> USE DEF vars, pool, conns, calls
<1>1. Typed' /\ NoPool'
  BY DEF IInv, Typed, NoPool
<1>2. Held' = Held /\ Borrowed' = Borrowed
  BY DEF Held, Borrowed
<1>3. OneHolder' /\ NothingLeaks'
  BY <1>2 DEF IInv, OneHolder, NothingLeaks
<1>4. Shapes'
  BY DEF IInv, Shapes, Shape, Top
<1> QED  BY <1>1, <1>3, <1>4 DEF IInv

(* Every step of a call keeps the invariant. *)
LEMMA StepKeeps ==
  ASSUME IInv, NEW t \in Threads, Step(t)
  PROVE  IInv'
  BY PoolThereKeeps, PoolMadeKeeps, PoolNotMadeKeeps, TakeLostKeeps, TakeIdleKeeps,
     TakeNewKeeps, TakeNotMadeKeeps, TakeFullKeeps, SetUpKeeps, SetUpFailsKeeps,
     ExecutesKeeps, ExecuteFailsKeeps, EndsKeeps, InnerEndsKeeps, InlineGoesOnKeeps,
     BackupGoesOnKeeps, BackupUploadsKeeps, BackupFailsKeeps, BulkResetsKeeps DEF Step

(* Every step does. *)
LEMMA NextKeeps == IInv /\ [Next]_vars => IInv'
<1> SUFFICES ASSUME IInv, [Next]_vars PROVE IInv'
  OBVIOUS
<1>1. ASSUME NEW t \in Threads, Begin(t) PROVE IInv'
  BY <1>1, BeginKeeps
<1>2. ASSUME NEW t \in Threads, Step(t) PROVE IInv'
  BY <1>2, StepKeeps
<1>3. CASE CoroutineEnds
  BY <1>3, CoroutineEndsKeeps
<1>4. CASE NetDown
  BY <1>4, NetDownKeeps
<1>5. CASE NetUp
  BY <1>5, NetUpKeeps
<1>6. CASE UNCHANGED vars
  BY <1>6, StutterKeeps
<1> QED  BY <1>1, <1>2, <1>3, <1>4, <1>5, <1>6 DEF Next

(* The invariant is inductive, for any threads, sizes and retries. *)
THEOREM PoolInvariant == Spec => []IInv
  BY InitInv, NextKeeps, PTL DEF Spec

(* For any number of threads and any sizes of the pool, no connection is   *)
(* with two borrowers or lent and idle at once.                            *)
THEOREM HolderCorrect == Spec => []OneHolder
<1>1. IInv => OneHolder
  BY DEF IInv
<1> QED  BY <1>1, PoolInvariant, PTL

(* And no slot of the pool and no open connection is left behind, by an    *)
(* error, a retry, a reset under a running call or an abandoned cursor.    *)
THEOREM LeakCorrect == Spec => []NothingLeaks
<1>1. IInv => NothingLeaks
  BY DEF IInv
<1> QED  BY <1>1, PoolInvariant, PTL
-----------------------------------------------------------------------------
(* Sizes.  The pool checks its limit only when it makes a connection, and    *)
(* takes an idle one without a look at it; that never exceeds the limit      *)
(* because idle and lent connections together stay below it.                 *)
Sized ==
  /\ Cardinality(idle) <= MinConn
  /\ Cardinality(idle) + Cardinality(used) <= MaxConn

(* A non-empty set of connections has a last one. *)
LEMMA LastConn ==
  ASSUME NEW S \in SUBSET Conns, S # {}
  PROVE  \E c \in S : \A d \in S : d <= c
<1> DEFINE Less == {ss \in Nat \X Nat : ss[1] < ss[2]}
           T == {MaxConns - c : c \in S}
<1>1. IsWellFoundedOn(Less, Nat)
  BY NatLessThanWellFounded DEF OpToRel
<1>2. T \subseteq Nat /\ T # {}
  <2>1. \A c \in S : MaxConns - c \in Nat
    OBVIOUS
  <2> QED  BY <2>1
<1> HIDE DEF Less, T
<1>3. PICK x \in T : \A y \in T : <<y, x>> \notin Less
  BY <1>1, <1>2, WFMin
<1>4. PICK c \in S : x = MaxConns - c
  BY DEF T
<1>5. ASSUME NEW d \in S PROVE d <= c
  <2>1. MaxConns - d \in T /\ MaxConns - d \in Nat /\ x \in Nat
    BY <1>2 DEF T
  <2>2. ~(MaxConns - d < x)
    BY <1>3, <2>1 DEF Less
  <2> QED  BY <1>4, <2>2
<1> QED  BY <1>5

LEMMA ConnsFinite ==
  ASSUME NEW S \in SUBSET Conns
  PROVE  IsFiniteSet(S) /\ Cardinality(S) \in Nat
<1>1. IsFiniteSet(Conns)
  BY FS_Interval
<1>2. IsFiniteSet(S)
  BY <1>1, FS_Subset
<1> QED  BY <1>2, FS_CardinalityType

(* New(k) has at most k connections. *)
LEMMA NewSize ==
  ASSUME NEW k \in Nat
  PROVE  New(k) \in SUBSET Conns /\ Cardinality(New(k)) <= k
<1>1. New(k) \in SUBSET Conns
  BY DEF New, Free
<1>2. CASE New(k) = {}
  BY <1>1, <1>2, FS_EmptySet
<1>3. CASE New(k) # {}
  <2>1. PICK c \in New(k) : \A d \in New(k) : d <= c
    BY <1>1, <1>3, LastConn
  <2> DEFINE W == {d \in Free : d <= c}
  <2>2. New(k) \in SUBSET W /\ Cardinality(W) <= k
    BY <2>1 DEF New
  <2>3. W \in SUBSET Conns
    BY DEF Free
  <2> HIDE DEF W
  <2>4. IsFiniteSet(W) /\ Cardinality(W) \in Nat /\ Cardinality(New(k)) \in Nat
    BY <1>1, <2>3, ConnsFinite
  <2>5. Cardinality(New(k)) <= Cardinality(W)
    BY <2>2, <2>4, FS_Subset
  <2> QED  BY <1>1, <2>2, <2>4, <2>5
<1> QED  BY <1>1, <1>2, <1>3

(* One connection more or less. *)
LEMMA OneMore ==
  ASSUME NEW S \in SUBSET Conns, NEW c \in Conns, c \notin S
  PROVE  Cardinality(S \cup {c}) = Cardinality(S) + 1
  BY ConnsFinite, FS_AddElement
LEMMA OneLess ==
  ASSUME NEW S \in SUBSET Conns, NEW c \in S
  PROVE  Cardinality(S \ {c}) = Cardinality(S) - 1
  BY ConnsFinite, FS_RemoveElement

(* A connection that comes back leaves its slot; it is idle or closed. *)
LEMMA ReleaseSized ==
  ASSUME IInv, Sized, NEW c \in Borrowed \ {NoConn}, Release(c)
  PROVE  Sized'
<1>1. c \in Conns /\ c \notin idle /\ idle \in SUBSET Conns /\ used \in SUBSET Conns
  <2>1. idle \in SUBSET Conns /\ used \in SUBSET Conns /\ parked \in SUBSET Conns
    BY DEF IInv, Typed
  <2>2. c \notin idle
    BY DEF IInv, OneHolder
  <2>3. Held \subseteq Conns
    BY DEF IInv, Typed, Held
  <2> QED  BY <2>1, <2>2, <2>3 DEF Borrowed
<1>2. Cardinality(idle) \in Nat /\ Cardinality(used) \in Nat
  BY <1>1, ConnsFinite
<1>3. CASE Reusable(c)
  <2>1. c \in used /\ Cardinality(idle) < MinConn
    BY <1>3 DEF Reusable
  <2>2. used' = used \ {c} /\ idle' = idle \cup {c}
    BY <1>3 DEF Release, SlotFreed
  <2> QED  BY <1>1, <1>2, <2>1, <2>2, OneMore, OneLess DEF Sized
<1>4. CASE ~Reusable(c)
  <2>1. used' = used \ {c} /\ idle' = idle
    BY <1>4 DEF Release, SlotFreed
  <2>2. CASE c \in used
    BY <1>1, <1>2, <2>1, <2>2, OneLess DEF Sized
  <2>3. CASE c \notin used
    <3>1. used' = used
      BY <2>1, <2>3
    <3> QED  BY <2>1, <3>1 DEF Sized
  <2> QED  BY <2>2, <2>3
<1> QED  BY <1>3, <1>4

LEMMA ReleaseTopSized ==
  ASSUME IInv, Sized, NEW t \in Threads, ReleaseTop(t)
  PROVE  Sized'
<1>1. CASE Top(t) = NoConn
  BY <1>1 DEF ReleaseTop, Sized
<1>2. CASE Top(t) # NoConn
  <2>1. Top(t) \in Borrowed
    BY <1>2 DEF IInv, Typed, Top, Borrowed, Held
  <2> QED  BY <1>2, <2>1, ReleaseSized DEF ReleaseTop
<1> QED  BY <1>1, <1>2

(* A call takes an idle connection or a new one. *)
LEMMA TakeSized ==
  ASSUME IInv, Sized, NEW t \in Threads, TakeIdle(t) \/ TakeNew(t)
  PROVE  Sized'
<1>1. /\ idle \in SUBSET Conns /\ used \in SUBSET Conns
      /\ Cardinality(idle) \in Nat /\ Cardinality(used) \in Nat
  BY ConnsFinite DEF IInv, Typed
<1>2. CASE TakeIdle(t)
  <2>1. PICK c \in idle : used' = used \cup {c} /\ idle' = idle \ {c}
    BY <1>2 DEF TakeIdle, Takes
  <2>2. c \in Conns /\ c \notin used
    BY <1>1 DEF IInv, OneHolder, NothingLeaks
  <2> QED  BY <1>1, <2>1, <2>2, OneMore, OneLess DEF Sized
<1>3. CASE TakeNew(t)
  <2>1. PICK c \in New(1) : used' = used \cup {c}
    BY <1>3 DEF TakeNew, Takes
  <2>2. c \in Conns /\ c \notin used
    BY DEF IInv, NothingLeaks, New, Free
  <2>3. Cardinality(used') = Cardinality(used) + 1
    BY <1>1, <2>1, <2>2, OneMore
  <2>4. idle = {} /\ idle' = {} /\ Cardinality(used) # MaxConn /\ Cardinality(idle) = 0
    BY <1>3, FS_EmptySet DEF TakeNew, Room
  <2> QED  BY <1>1, <2>3, <2>4 DEF Sized
<1> QED  BY <1>2, <1>3

LEMMA StepSized ==
  ASSUME IInv, Sized, NEW t \in Threads, Step(t)
  PROVE  Sized'
<1>1. CASE PoolMade(t)
  <2>1. idle' = New(MinConn) /\ used' = {}
    BY <1>1 DEF PoolMade
  <2>2. Cardinality(idle') <= MinConn /\ Cardinality(idle') \in Nat /\ Cardinality(used') = 0
    BY <2>1, NewSize, ConnsFinite, FS_EmptySet
  <2> QED  BY <2>2 DEF Sized
<1>2. CASE TakeIdle(t) \/ TakeNew(t)
  BY <1>2, TakeSized
<1>3. CASE Ends(t) \/ InnerEnds(t)
  BY <1>3, ReleaseTopSized DEF Ends, InnerEnds
<1>4. CASE BackupUploads(t)
  <2>1. Top(t) \in Borrowed \ {NoConn}
    BY <1>4 DEF BackupUploads, IInv, Typed, Shapes, Shape, At, Top, Borrowed, Held
  <2> QED  BY <1>4, <2>1, ReleaseSized DEF BackupUploads
<1>5. CASE BulkResets(t)
  <2>1. idle' = {} /\ used' = {}
    BY <1>5 DEF BulkResets
  <2> QED  BY <2>1, FS_EmptySet DEF Sized
<1>6. CASE UNCHANGED <<idle, used>>
  BY <1>6 DEF Sized
<1>7. \/ PoolMade(t) \/ TakeIdle(t) \/ TakeNew(t) \/ Ends(t) \/ InnerEnds(t)
      \/ BackupUploads(t) \/ BulkResets(t) \/ UNCHANGED <<idle, used>>
  BY DEF Step, PoolThere, PoolNotMade, TakeLost, TakeNotMade, TakeFull, SetUp, SetUpFails,
         Executes, ExecuteFails, InlineGoesOn, BackupGoesOn, BackupFails
<1> QED  BY <1>1, <1>2, <1>3, <1>4, <1>5, <1>6, <1>7

LEMMA NextSized == IInv /\ Sized /\ [Next]_vars => Sized'
<1> SUFFICES ASSUME IInv, Sized, [Next]_vars PROVE Sized'
  OBVIOUS
<1>1. ASSUME NEW t \in Threads, Step(t) PROVE Sized'
  BY <1>1, StepSized
<1>2. CASE CoroutineEnds
  <2>1. PICK c \in parked : Release(c)
    BY <1>2 DEF CoroutineEnds
  <2>2. c \in Borrowed \ {NoConn}
    BY DEF IInv, Typed, Borrowed
  <2> QED  BY <2>1, <2>2, ReleaseSized
<1>3. CASE UNCHANGED <<idle, used>>
  BY <1>3 DEF Sized
<1>4. (\E t \in Threads : Step(t)) \/ CoroutineEnds \/ UNCHANGED <<idle, used>>
  BY DEF Next, Begin, NetDown, NetUp, vars
<1> QED  BY <1>1, <1>2, <1>3, <1>4

(* What the types say beyond Typed. *)
Marked ==
  /\ net \in BOOLEAN /\ dead \subseteq open
  /\ stale \in [Threads -> BOOLEAN]
  /\ fault \in [Threads -> {"none", "full", "lost"}]

LEMMA StepMarked ==
  ASSUME IInv, Marked, NEW t \in Threads, Step(t)
  PROVE  Marked'
<1>1. \/ UNCHANGED fault
      \/ \E why \in {"none", "full", "lost"} : fault' = [fault EXCEPT ![t] = why]
  BY DEF Step, PoolThere, PoolMade, PoolNotMade, TakeLost, TakeIdle, TakeNew, TakeNotMade,
         TakeFull, Takes, SetUp, SetUpFails, Executes, ExecuteFails, Ends, InnerEnds,
         InlineGoesOn, BackupGoesOn, BackupUploads, BackupFails, BulkResets, Raise, Leave, Borrow2
<1>2. UNCHANGED net
  BY DEF Step, PoolThere, PoolMade, PoolNotMade, TakeLost, TakeIdle, TakeNew, TakeNotMade,
         TakeFull, Takes, SetUp, SetUpFails, Executes, ExecuteFails, Ends, InnerEnds,
         InlineGoesOn, BackupGoesOn, BackupUploads, BackupFails, BulkResets
<1>3. \/ UNCHANGED stale \/ stale' = [stale EXCEPT ![t] = FALSE]
      \/ stale' = [u \in Threads |-> At(u, "take")]
  BY DEF Step, PoolThere, PoolMade, PoolNotMade, TakeLost, TakeIdle, TakeNew, TakeNotMade,
         TakeFull, Takes, Asked, SetUp, SetUpFails, Executes, ExecuteFails, Ends, InnerEnds,
         InlineGoesOn, BackupGoesOn, BackupUploads, BackupFails, BulkResets
<1>4. dead' \subseteq open'
  <2>1. CASE ExecuteFails(t)
    BY <2>1 DEF ExecuteFails, Marked
  <2>2. CASE UNCHANGED dead /\ open \subseteq open'
    BY <2>2 DEF Marked
  <2>3. CASE dead' = dead \cap open'
    BY <2>3
  <2>4. \/ ExecuteFails(t) \/ (UNCHANGED dead /\ open \subseteq open') \/ dead' = dead \cap open'
    BY DEF Step, PoolThere, PoolMade, PoolNotMade, TakeLost, TakeIdle, TakeNew, TakeNotMade,
           TakeFull, Takes, SetUp, SetUpFails, Executes, Ends, InnerEnds,
           InlineGoesOn, BackupGoesOn, BackupUploads, BackupFails, BulkResets, ReleaseTop, Release
  <2> QED  BY <2>1, <2>2, <2>3, <2>4
<1> QED  BY <1>1, <1>2, <1>3, <1>4 DEF Marked, At

LEMMA NextMarked == IInv /\ Marked /\ [Next]_vars => Marked'
<1> SUFFICES ASSUME IInv, Marked, [Next]_vars PROVE Marked'
  OBVIOUS
<1>1. ASSUME NEW t \in Threads, Step(t) PROVE Marked'
  BY <1>1, StepMarked
<1>2. CASE CoroutineEnds
  BY <1>2 DEF CoroutineEnds, Release, Marked
<1>3. CASE NetDown
  BY <1>3 DEF NetDown, Marked
<1>4. CASE UNCHANGED <<conns, ref, stale, fault, parked>> /\ net' \in BOOLEAN
  BY <1>4 DEF Marked
<1>5. \/ \E t \in Threads : Step(t)
      \/ CoroutineEnds \/ NetDown
      \/ UNCHANGED <<conns, ref, stale, fault, parked>> /\ net' \in BOOLEAN
  BY DEF Next, Begin, NetUp, vars, Marked
<1> QED  BY <1>1, <1>2, <1>3, <1>4, <1>5

(* Every variable keeps its type; the pool never keeps more connections than *)
(* its minimum, nor lends more than its maximum, although it lends an idle   *)
(* one without a look at that limit.                                         *)
THEOREM PoolTypeCorrect == Spec => []TypeOK
<1>1. Init => Sized /\ Marked
  BY FS_EmptySet DEF Init, Sized, Marked
<1>2. Spec => [](Sized /\ Marked)
  BY <1>1, PoolInvariant, NextSized, NextMarked, PTL DEF Spec
<1>3. IInv /\ Sized /\ Marked => TypeOK
  <2> SUFFICES ASSUME IInv, Sized, Marked PROVE TypeOK
    OBVIOUS
  <2>1. Cardinality(idle) \in Nat /\ Cardinality(used) \in Nat
    BY ConnsFinite DEF IInv, Typed
  <2> QED  BY <2>1 DEF IInv, Typed, Sized, Marked, TypeOK
<1> QED  BY <1>2, <1>3, PoolInvariant, PTL

-----------------------------------------------------------------------------
(* Room for every thread.  Only the bot's loop makes a call that borrows     *)
(* twice.                                                                    *)
OneEach == \A t \in Others : kind[t] = "guarded"

LEMMA NextOneEach == IInv /\ OneEach /\ [Next]_vars => OneEach'
<1> SUFFICES ASSUME IInv, OneEach, [Next]_vars PROVE OneEach'
  OBVIOUS
<1>1. ASSUME NEW t \in Threads, Begin(t) PROVE OneEach'
  BY <1>1 DEF OneEach, Begin, Kinds
<1>2. \/ UNCHANGED kind \/ \E t \in Threads : Begin(t)
      \/ \E t \in Threads : kind' = [kind EXCEPT ![t] = "guarded"]
  BY DEF Next, Step, PoolThere, PoolMade, PoolNotMade, TakeLost, TakeIdle, TakeNew, TakeNotMade,
         TakeFull, Takes, SetUp, SetUpFails, Executes, ExecuteFails, Ends, InnerEnds,
         InlineGoesOn, BackupGoesOn, BackupUploads, BackupFails, BulkResets,
         Raise, Leave, Borrow2, Go, CoroutineEnds, NetDown, NetUp, vars
<1>3. kind \in [Threads -> {"guarded", "inline", "nested", "bulk", "backup"}]
  BY DEF IInv, Typed
<1> QED  BY <1>1, <1>2, <1>3 DEF OneEach

(* The connections that threads hold in the first place, at most one each.   *)
LEMMA FirstPlaces ==
  ASSUME NEW U, IsFiniteSet(U), NEW S, S \subseteq {ref[u][1] : u \in U}
  PROVE  IsFiniteSet(S) /\ Cardinality(S) <= Cardinality(U)
<1> DEFINE T == {ref[u][1] : u \in U}
           f == [u \in U |-> ref[u][1]]
<1>1. f \in Surjection(U, T)
  BY DEF Surjection
<1> HIDE DEF f
<1>2. IsFiniteSet(T) /\ Cardinality(T) <= Cardinality(U)
  BY <1>1, FS_Surjection
<1>3. Cardinality(U) \in Nat /\ Cardinality(T) \in Nat
  BY <1>2, FS_CardinalityType
<1>4. IsFiniteSet(S) /\ Cardinality(S) <= Cardinality(T)
  BY <1>2, FS_Subset
<1>5. Cardinality(S) \in Nat
  BY <1>4, FS_CardinalityType
<1> QED  BY <1>2, <1>3, <1>4, <1>5

(* A call that asks finds less lent than there are threads, plus one.        *)
LEMMA LentToOthers ==
  ASSUME IInv, OneEach, NEW t \in Threads, At(t, "take"), parked = {}
  PROVE  Cardinality(used) <= Cardinality(Others) + 1
<1>1. \A u \in Others : ref[u][2] = NoConn
  BY DEF IInv, Typed, Shapes, Shape, OneEach
<1>2. Top(t) = NoConn
  BY DEF IInv, Shapes, Shape, At
<1>3. used \subseteq Held /\ NoConn \notin used
  BY DEF IInv, Typed, NothingLeaks, Borrowed
<1>4. IsFiniteSet(Others) /\ Cardinality(Others) \in Nat
  BY RoomAssumption, FS_CardinalityType
<1>5. CASE t = Loop
  <2>1. IsFiniteSet(Threads) /\ Cardinality(Threads) <= Cardinality(Others) + 1
    BY <1>4, FS_AddElement
  <2>2. ref[Loop][2] = NoConn
    BY <1>2, <1>5 DEF IInv, Typed, Shapes, Shape, Top
  <2>3. used \subseteq {ref[u][1] : u \in Threads}
    BY <1>1, <1>3, <2>2 DEF Held
  <2>4. IsFiniteSet(used) /\ Cardinality(used) <= Cardinality(Threads)
    BY <2>1, <2>3, FirstPlaces
  <2> QED  BY <1>4, <2>1, <2>4, FS_CardinalityType
<1>6. CASE t # Loop
  <2>1. t \in Others /\ ref[t][1] = NoConn
    BY <1>2, <1>6 DEF IInv, Typed, Shapes, Shape, Top, OneEach
  <2> DEFINE U == Threads \ {t}
             S == used \ {ref[Loop][2]}
  <2>2. IsFiniteSet(Threads) /\ Cardinality(Threads) = Cardinality(Others) + 1
    BY <1>4, FS_AddElement
  <2>3. IsFiniteSet(U) /\ Cardinality(U) = Cardinality(Others)
    <3>1. IsFiniteSet(Threads \ {t}) /\ Cardinality(Threads \ {t}) = Cardinality(Threads) - 1
      BY <2>2, FS_RemoveElement
    <3> QED  BY <1>4, <2>2, <3>1
  <2>4. S \subseteq {ref[u][1] : u \in U}
    BY <1>1, <1>3, <2>1 DEF Held
  <2>5. IsFiniteSet(S) /\ Cardinality(S) <= Cardinality(Others)
    BY <2>3, <2>4, FirstPlaces
  <2>6. used \in SUBSET Conns /\ Cardinality(used) \in Nat /\ Cardinality(S) \in Nat
    BY ConnsFinite DEF IInv, Typed
  <2>7. Cardinality(used) <= Cardinality(S) + 1
    BY <2>6, ConnsFinite, FS_RemoveElement
  <2> QED  BY <1>4, <2>5, <2>6, <2>7
<1> QED  BY <1>5, <1>6

(* Only a full pool makes a call fail because the pool is full. *)
LEMMA FullOnlyByTake ==
  ASSUME [Next]_vars, NEW t \in Threads, fault'[t] = "full", fault[t] # "full",
         fault \in [Threads -> {"none", "full", "lost"}]
  PROVE  TakeFull(t)
<1>1. CASE UNCHANGED fault
  BY <1>1
<1>2. ASSUME NEW u \in Threads, Step(u) PROVE TakeFull(t)
  <2>1. CASE TakeFull(u)
    BY <2>1 DEF TakeFull, Raise
  <2>2. CASE UNCHANGED fault
    BY <2>2
  <2>3. ASSUME NEW why \in {"none", "lost"}, fault' = [fault EXCEPT ![u] = why]
        PROVE  TakeFull(t)
    BY <2>3
  <2>4. \/ TakeFull(u) \/ UNCHANGED fault
        \/ \E why \in {"none", "lost"} : fault' = [fault EXCEPT ![u] = why]
    BY <1>2 DEF Step, PoolThere, PoolMade, PoolNotMade, TakeLost, TakeIdle, TakeNew, TakeNotMade,
         Takes, SetUp, SetUpFails, Executes, ExecuteFails, Ends, InnerEnds,
         InlineGoesOn, BackupGoesOn, BackupUploads, BackupFails, BulkResets, Raise, Leave, Borrow2
  <2> QED  BY <2>1, <2>2, <2>3, <2>4
<1>3. UNCHANGED fault \/ \E u \in Threads : Step(u)
  BY DEF Next, Begin, CoroutineEnds, NetDown, NetUp, vars
<1> QED  BY <1>1, <1>2, <1>3

(* With a connection for each thread and one for a second borrow of the      *)
(* bot's loop, a call is refused only while a coroutine keeps one: a backup  *)
(* or one that went on after an error (db.py 46, 988-989; bot.py 3866,       *)
(* attacker.py 1196-1202).                                                   *)
THEOREM RoomCorrect == Spec => RoomForAll
<1> DEFINE A == \A t \in Threads : fault'[t] = "full" /\ fault[t] # "full" => parked # {}
<1>1. Init => OneEach /\ Marked
  BY DEF Init, OneEach, Marked
<1>2. IInv /\ OneEach /\ Marked /\ [Next]_vars => [A]_vars
  <2> SUFFICES ASSUME IInv, OneEach, Marked, [Next]_vars,
                      NEW t \in Threads, fault'[t] = "full", fault[t] # "full", parked = {}
               PROVE  FALSE
    OBVIOUS
  <2>1. TakeFull(t)
    BY FullOnlyByTake DEF Marked
  <2>2. Cardinality(used) <= Cardinality(Others) + 1
    BY <2>1, LentToOthers DEF TakeFull
  <2>3. Cardinality(Others) \in Nat /\ Cardinality(used) = MaxConn
    BY <2>1, RoomAssumption, FS_CardinalityType DEF TakeFull, Room
  <2> QED  BY <2>2, <2>3, RoomAssumption
<1>3. Spec => [](IInv /\ OneEach /\ Marked)
  BY <1>1, PoolInvariant, NextOneEach, NextMarked, PTL DEF Spec
<1> QED  BY <1>2, <1>3, PTL DEF Spec, RoomForAll
=============================================================================
