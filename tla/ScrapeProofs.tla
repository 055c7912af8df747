----------------------------- MODULE ScrapeProofs -----------------------------
(***************************************************************************)
(* Proofs about extraction, for any users, groups, clients and jobs: whom  *)
(* the mini app's job finds was confirmed, and a row names a group that    *)
(* showed its user.                                                        *)
(*                                                                         *)
(* Both rest on who uses a client.  A job that is alone on its client      *)
(* began with nothing found and asks about its own target, so all that the *)
(* client holds was met there.  The dialog can put a second job on a       *)
(* client, never on one of the mini app.                                   *)
(*                                                                         *)
(* The many actions are of four kinds, of which each is shown once to keep *)
(* the invariant: a job looks (at its group), a job moves on, a job        *)
(* starts, or the dialog changes.                                          *)
(***************************************************************************)
EXTENDS Scrape, TLAPS

PCs == {"idle", "start", "next", "finish", "report", "apology", "done", "failed"} \cup Loops
Working(j) == pc[j] \in Loops \cup {"finish", "report"}

(* Types of what the other parts speak of. *)
Typed ==
  /\ atk \in Clients \cup {NoClient}
  /\ conn \in [Clients -> {"unused", "open", "closed"}]
  /\ found \in [Clients -> SUBSET Users] /\ known \in [Clients -> SUBSET Users]
  /\ asks \in [Clients -> Groups \cup {NoGroup}]
  /\ pc \in [Jobs -> PCs]
  /\ kind \in [Jobs -> Kinds \cup {"none"}]
  /\ on \in [Jobs -> Clients \cup {NoClient}]
  /\ target \in [Jobs -> Groups \cup {NoGroup}] /\ todo \in [Jobs -> SUBSET Groups]

(* Jobs and the dialog have clients that were made; others hold nothing.   *)
(* A job that is at a group has one.                                       *)
Assigned ==
  /\ \A j \in Jobs : pc[j] # "idle" => on[j] \in Clients /\ conn[on[j]] # "unused"
  /\ atk # NoClient => conn[atk] # "unused"
  /\ \A c \in Clients : conn[c] = "unused" => found[c] = {} /\ c \notin shared
  /\ \A j \in Jobs : pc[j] = "idle" => kind[j] = "none"
  /\ \A j \in Jobs : pc[j] = "next" => kind[j] = "bulk"
  /\ \A j \in Jobs : pc[j] \in {"idle", "next", "done", "failed"} \/ target[j] \in Groups

(* The client of a job of the mini app is nobody else's. *)
WebAlone ==
  \A j \in Jobs : kind[j] = "web" =>
    /\ on[j] # atk /\ on[j] \notin shared
    /\ \A i \in Jobs \ {j} : pc[i] # "idle" => on[i] # on[j]

(* Two jobs at work on one client are known to share it. *)
SharingKnown ==
  \A i, j \in Jobs : i # j /\ Running(i) /\ Running(j) /\ on[i] = on[j] => on[j] \in shared

(* A client that waits for its first job has found nobody. *)
Untouched ==
  /\ \A j \in Jobs : At(j, "start") /\ on[j] \notin shared => found[on[j]] = {}
  /\ atk # NoClient /\ conn[atk] = "open" /\ atk \notin shared
       /\ (\A j \in Jobs : Running(j) => on[j] # atk) => found[atk] = {}

(* Jobs whose finds are all from their target: the bulk scan keeps those   *)
(* of several groups together.                                             *)
Honest(j) == Working(j) /\ kind[j] # "bulk" /\ on[j] \notin shared
Shown(us, g, s) == \A u \in us : <<u, g>> \in s
FoundShown == \A j \in Jobs : Honest(j) => Shown(found[on[j]], target[j], seen)
OracleShown ==
  \A j \in Jobs : Honest(j) /\ ~At(j, "scan") =>
    asks[on[j]] = target[j] /\ Shown(known[on[j]], target[j], seen)

(* The inductive invariant: who uses a client, and what it holds. *)
Clean ==
  /\ Typed /\ Assigned /\ WebAlone /\ SharingKnown /\ Untouched
  /\ FoundShown /\ OracleShown /\ CandidatesConfirmed
RowsRight == table \in [Users -> Groups \cup {Bulk, NoGroup}] /\ SourceIsRight
IInv == Clean /\ RowsRight

LEMMA NoClientIsNone == NoClient \notin Clients
  BY BoundAssumption DEF NoClient, Clients

-----------------------------------------------------------------------------
(* A job looks at its group.  What its client holds afterwards was shown,  *)
(* if what it held before was.                                             *)
Look(j) ==
  /\ Working(j)
  /\ UNCHANGED <<dialog, conn, asks, job, shared>>
  /\ seen \subseteq seen'
  /\ found' \in [Clients -> SUBSET Users] /\ known' \in [Clients -> SUBSET Users]
  /\ \A c \in Clients \ {on[j]} : found'[c] = found[c] /\ known'[c] = known[c]
  /\ Honest(j) => Shown(found'[on[j]], target[j], seen')
  /\ Honest(j) /\ ~At(j, "scan") => Shown(known'[on[j]], target[j], seen')

LEMMA LookKeeps ==
  ASSUME Clean, NEW j \in Jobs, Look(j)
  PROVE  Clean'
<1> USE DEF dialog, job
<1>1. Running(j) /\ on[j] \in Clients /\ conn[on[j]] # "unused" /\ pc[j] # "start"
  BY DEF Clean, Assigned, Look, Working, Running, Over, Loops
<1>2. ASSUME NEW i \in Jobs \ {j}, Running(i), on[i] = on[j]
      PROVE  on[j] \in shared
  BY <1>1, <1>2 DEF Clean, SharingKnown
<1>3. ASSUME NEW i \in Jobs \ {j}, Honest(i) \/ (At(i, "start") /\ on[i] \notin shared)
      PROVE  on[i] \in Clients /\ on[i] # on[j]
  <2>1. Running(i)
    BY <1>3 DEF Honest, Working, Running, Over, At, Loops
  <2>2. on[i] \in Clients
    BY <2>1 DEF Clean, Assigned, Running
  <2> QED  BY <1>2, <1>3, <2>1, <2>2 DEF Honest
<1>4. Typed' /\ WebAlone' /\ SharingKnown'
  BY DEF Clean, Typed, WebAlone, SharingKnown, Look, Running, Over
<1>5. Assigned'
  BY <1>1 DEF Clean, Assigned, Look
<1>6. Untouched'
  <2>1. ASSUME NEW i \in Jobs, At(i, "start"), on[i] \notin shared PROVE found'[on[i]] = {}
    BY <1>1, <1>3, <2>1 DEF Clean, Untouched, Look, At
  <2>2. ASSUME atk # NoClient, conn[atk] = "open", atk \notin shared,
               \A i \in Jobs : Running(i) => on[i] # atk
        PROVE  found'[atk] = {}
    BY <1>1, <2>2 DEF Clean, Typed, Untouched, Look
  <2> QED  BY <2>1, <2>2 DEF Untouched, Look, At, Running, Over
<1>7. FoundShown'
  <2>1. ASSUME NEW i \in Jobs, Honest(i) PROVE Shown(found'[on[i]], target[i], seen')
    <3>1. CASE i = j
      BY <2>1, <3>1 DEF Look
    <3>2. CASE i # j
      BY <1>3, <2>1, <3>2 DEF Clean, FoundShown, Look, Shown
    <3> QED  BY <3>1, <3>2
  <2> QED  BY <2>1 DEF FoundShown, Honest, Working, Look
<1>8. OracleShown'
  <2>1. ASSUME NEW i \in Jobs, Honest(i), ~At(i, "scan")
        PROVE  asks[on[i]] = target[i] /\ Shown(known'[on[i]], target[i], seen')
    <3>1. CASE i = j
      BY <2>1, <3>1 DEF Look, Clean, OracleShown
    <3>2. CASE i # j
      BY <1>3, <2>1, <3>2 DEF Clean, OracleShown, Look, Shown
    <3> QED  BY <3>1, <3>2
  <2> QED  BY <2>1 DEF OracleShown, Honest, Working, Look, At
<1>9. CandidatesConfirmed'
  <2>1. ASSUME NEW i \in Jobs, kind[i] = "web" PROVE Shown(found'[on[i]], target[i], seen')
    <3>1. CASE i = j
      BY <2>1, <3>1 DEF Look, Clean, WebAlone, Honest
    <3>2. CASE i # j
      <4>1. on[i] # on[j] /\ on[i] \in Clients
        BY <1>1, <2>1, <3>2 DEF Clean, WebAlone, Assigned, Running
      <4> QED  BY <2>1, <4>1 DEF Clean, CandidatesConfirmed, Look, Shown
    <3> QED  BY <3>1, <3>2
  <2> QED  BY <2>1 DEF CandidatesConfirmed, Look, Shown
<1> QED  BY <1>4, <1>5, <1>6, <1>7, <1>8, <1>9 DEF Clean

-----------------------------------------------------------------------------
(* A job moves on, or ends.  It may let go of its client, or of the        *)
(* dialog, which is not always its own.                                    *)
Moves(j, where) ==
  /\ Running(j)
  /\ where \in PCs \ {"idle", "start", "scan"}
  /\ Go(j, where)
  /\ where \in Loops \cup {"finish", "report"} =>
       kind[j] = "bulk" \/ (Working(j) /\ ~At(j, "scan"))
  /\ where = "next" => kind[j] = "bulk"
  /\ UNCHANGED <<kind, on, found, known, asks, seen, shared>>
  /\ target' \in [Jobs -> Groups \cup {NoGroup}] /\ todo' \in [Jobs -> SUBSET Groups]
  /\ where \in {"next", "done", "failed"} \/ target'[j] \in Groups
  /\ \A i \in Jobs : target'[i] = target[i] \/ (i = j /\ kind[j] = "bulk")
  /\ atk' \in {atk, NoClient}
  /\ conn' \in {conn, [conn EXCEPT ![on[j]] = "closed"]}
  /\ where \in {"done", "failed"} =>
       \/ At(j, "start") \/ kind[j] = "web"
       \/ atk' = NoClient \/ conn'[on[j]] = "closed"

LEMMA MovesKeeps ==
  ASSUME Clean, NEW j \in Jobs, NEW where, Moves(j, where)
  PROVE  Clean'
<1>1. on[j] \in Clients /\ conn[on[j]] # "unused" /\ pc[j] # "idle"
  BY DEF Clean, Assigned, Moves, Running
<1>2. /\ pc' = [pc EXCEPT ![j] = where] /\ pc' \in [Jobs -> PCs]
      /\ \A i \in Jobs : pc'[i] = IF i = j THEN where ELSE pc[i]
  BY DEF Clean, Typed, Moves, Go
<1>3. /\ conn' \in [Clients -> {"unused", "open", "closed"}]
      /\ \A c \in Clients : (conn'[c] = "unused" <=> conn[c] = "unused")
                         /\ (conn'[c] = "open" => conn[c] = "open")
  BY <1>1 DEF Clean, Typed, Moves
<1>4. ASSUME NEW i \in Jobs, Running(i)' PROVE Running(i)
  BY <1>2, <1>4 DEF Running, Over, Moves
<1>5. ASSUME NEW i \in Jobs, Honest(i)'
      PROVE  /\ Honest(i) /\ target'[i] = target[i] /\ (~At(i, "scan")' => ~At(i, "scan"))
  <2>1. CASE i = j
    BY <1>2, <1>5, <2>1 DEF Honest, Working, Moves, At
  <2>2. CASE i # j
    BY <1>2, <1>5, <2>2 DEF Honest, Working, Moves, At
  <2> QED  BY <2>1, <2>2
<1>6. Typed'
  BY <1>2, <1>3 DEF Clean, Typed, Moves
<1>7. Assigned'
  <2>1. \A i \in Jobs : pc'[i] # "idle" => on[i] \in Clients /\ conn'[on[i]] # "unused"
    BY <1>1, <1>2, <1>3 DEF Clean, Assigned
  <2>2. atk' # NoClient => conn'[atk'] # "unused"
    BY <1>3 DEF Clean, Assigned, Typed, Moves
  <2>3. \A c \in Clients : conn'[c] = "unused" => found[c] = {} /\ c \notin shared
    BY <1>3 DEF Clean, Assigned
  <2>4. /\ \A i \in Jobs : pc'[i] = "idle" => kind[i] = "none"
        /\ \A i \in Jobs : pc'[i] = "next" => kind[i] = "bulk"
    BY <1>2 DEF Clean, Assigned, Moves
  <2>5. \A i \in Jobs : pc'[i] \in {"idle", "next", "done", "failed"} \/ target'[i] \in Groups
    BY <1>2 DEF Clean, Assigned, Moves
  <2> QED  BY <2>1, <2>2, <2>3, <2>4, <2>5 DEF Assigned, Moves
<1>8. WebAlone'
  <2>1. ASSUME NEW i \in Jobs, kind[i] = "web"
        PROVE  /\ on[i] # atk' /\ on[i] \notin shared
               /\ \A k \in Jobs \ {i} : pc'[k] # "idle" => on[k] # on[i]
    <3>1. pc[i] # "idle"
      BY <2>1 DEF Clean, Assigned
    <3>2. on[i] \in Clients
      BY <3>1 DEF Clean, Assigned
    <3> QED  BY <1>1, <1>2, <2>1, <3>2, NoClientIsNone DEF Clean, WebAlone, Moves
  <2> QED  BY <2>1 DEF WebAlone, Moves
<1>9. SharingKnown'
  BY <1>4 DEF Clean, SharingKnown, Moves
<1>10. Untouched'
  <2>1. ASSUME NEW i \in Jobs, pc'[i] = "start", on[i] \notin shared PROVE found[on[i]] = {}
    BY <1>2, <2>1 DEF Clean, Untouched, Moves, At
  <2>2. ASSUME atk' # NoClient, conn'[atk'] = "open", atk' \notin shared,
               \A i \in Jobs : Running(i)' => on[i] # atk'
        PROVE  found[atk'] = {}
    <3>1. atk' = atk /\ atk \in Clients /\ conn[atk] = "open"
      BY <1>3, <2>2 DEF Clean, Typed, Moves
    <3>2. CASE \E i \in Jobs : Running(i) /\ on[i] = atk
      <4>1. on[j] = atk /\ where \in {"done", "failed"}
        BY <1>2, <2>2, <3>1, <3>2 DEF Running, Over, Moves
      <4>2. kind[j] # "web"
        BY <4>1 DEF Clean, WebAlone
      <4>3. At(j, "start")
        BY <2>2, <3>1, <4>1, <4>2 DEF Moves
      <4> QED  BY <2>2, <3>1, <4>1, <4>3 DEF Clean, Untouched
    <3>3. CASE \A i \in Jobs : Running(i) => on[i] # atk
      BY <2>2, <3>1, <3>3 DEF Clean, Untouched
    <3> QED  BY <3>2, <3>3
  <2> QED  BY <2>1, <2>2 DEF Untouched, Moves, At
<1>11. FoundShown' /\ OracleShown'
  BY <1>5 DEF Clean, FoundShown, OracleShown, Moves
<1>12. CandidatesConfirmed'
  BY DEF Clean, CandidatesConfirmed, Moves
<1> QED  BY <1>6, <1>7, <1>8, <1>9, <1>10, <1>11, <1>12 DEF Clean

-----------------------------------------------------------------------------
(* A job begins: on the client of the dialog, or on one of its own.        *)
Starts(j, k, c, g, where) ==
  /\ Begin(j, k, c, g, where)
  /\ c \in Clients /\ g \in Groups \cup {NoGroup} /\ k \in Kinds
  /\ where \in {"start", "next", "apology", "failed", "scan"}
  /\ where = "next" => k = "bulk"
  /\ where \in {"next", "failed"} \/ g \in Groups
  /\ todo' \in [Jobs -> SUBSET Groups]
  /\ UNCHANGED <<atk, found, known, asks, seen>>
  /\ \/ /\ k \in {"menu", "bulk"} /\ c = atk /\ UNCHANGED conn
        /\ where # "scan" /\ (where = "start" => conn[c] = "open")
     \/ /\ k \in {"web", "background"} /\ conn[c] = "unused"
        /\ conn' = [conn EXCEPT ![c] = "open"]
        /\ where = IF k = "web" THEN "start" ELSE "scan"

LEMMA StartsKeeps ==
  ASSUME Clean, NEW j \in Jobs, NEW k, NEW c, NEW g, NEW where, Starts(j, k, c, g, where)
  PROVE  Clean'
<1>1. /\ c \in Clients /\ where # "idle" /\ pc[j] = "idle"
      /\ c # NoClient
  BY NoClientIsNone DEF Starts, Begin, At
<1>2. /\ pc' \in [Jobs -> PCs] /\ kind' \in [Jobs -> Kinds \cup {"none"}]
      /\ on' \in [Jobs -> Clients \cup {NoClient}]
      /\ target' \in [Jobs -> Groups \cup {NoGroup}]
      /\ pc'[j] = where /\ kind'[j] = k /\ on'[j] = c /\ target'[j] = g
      /\ \A i \in Jobs \ {j} : /\ pc'[i] = pc[i] /\ kind'[i] = kind[i]
                               /\ on'[i] = on[i] /\ target'[i] = target[i]
  <2>1. /\ pc' = [pc EXCEPT ![j] = where] /\ kind' = [kind EXCEPT ![j] = k]
        /\ on' = [on EXCEPT ![j] = c] /\ target' = [target EXCEPT ![j] = g]
        /\ where \in PCs /\ k \in Kinds /\ c \in Clients /\ g \in Groups \cup {NoGroup}
    BY DEF Starts, Begin, Go, PCs, Loops
  <2>2. /\ pc' \in [Jobs -> PCs] /\ pc'[j] = where
        /\ \A i \in Jobs \ {j} : pc'[i] = pc[i]
    BY <2>1 DEF Clean, Typed
  <2>3. /\ kind' \in [Jobs -> Kinds \cup {"none"}] /\ kind'[j] = k
        /\ \A i \in Jobs \ {j} : kind'[i] = kind[i]
    BY <2>1 DEF Clean, Typed
  <2>4. /\ on' \in [Jobs -> Clients \cup {NoClient}] /\ on'[j] = c
        /\ \A i \in Jobs \ {j} : on'[i] = on[i]
    BY <2>1 DEF Clean, Typed
  <2>5. /\ target' \in [Jobs -> Groups \cup {NoGroup}] /\ target'[j] = g
        /\ \A i \in Jobs \ {j} : target'[i] = target[i]
    BY <2>1 DEF Clean, Typed
  <2> QED  BY <2>2, <2>3, <2>4, <2>5
<1>3. /\ conn' \in [Clients -> {"unused", "open", "closed"}]
      /\ conn'[c] # "unused"
      /\ \A d \in Clients \ {c} : conn'[d] = conn[d]
      /\ \A d \in Clients : conn'[d] = "unused" => conn[d] = "unused"
  BY <1>1 DEF Clean, Typed, Assigned, Starts
<1>4. /\ shared \subseteq shared' /\ shared' \subseteq shared \cup {c}
      /\ (\E i \in Jobs : Running(i) /\ on[i] = c) => c \in shared'
      /\ ~(\E i \in Jobs : Running(i) /\ on[i] = c) => shared' = shared
  BY DEF Starts, Begin
<1>5. ASSUME conn[c] = "unused"
      PROVE  /\ found[c] = {} /\ c \notin shared' /\ c # atk
             /\ \A i \in Jobs : pc[i] # "idle" => on[i] # c
  <2>1. \A i \in Jobs : pc[i] # "idle" => on[i] # c
    BY <1>5 DEF Clean, Assigned
  <2>2. c # atk
    BY <1>1, <1>5 DEF Clean, Assigned
  <2>3. found[c] = {} /\ c \notin shared
    BY <1>1, <1>5 DEF Clean, Assigned
  <2> QED  BY <1>4, <2>1, <2>2, <2>3 DEF Running
<1>6. ASSUME where \in {"start", "scan"}, c \notin shared'
      PROVE  found[c] = {}
  <2>1. CASE conn[c] = "unused"
    BY <1>5, <2>1
  <2>2. CASE c = atk /\ conn[c] = "open"
    BY <1>1, <1>4, <1>6, <2>2 DEF Clean, Untouched
  <2> QED  BY <1>6, <2>1, <2>2 DEF Starts
<1>7. ASSUME NEW i \in Jobs \ {j}
      PROVE  /\ Running(i)' <=> Running(i)
             /\ Honest(i)' => Honest(i)
             /\ At(i, "scan")' <=> At(i, "scan")
  BY <1>2, <1>4 DEF Running, Over, Honest, Working, At
<1>8. Typed'
  BY <1>2, <1>3 DEF Clean, Typed, Starts
<1>9. Assigned'
  <2>1. \A i \in Jobs : pc'[i] # "idle" => on'[i] \in Clients /\ conn'[on'[i]] # "unused"
    BY <1>1, <1>2, <1>3 DEF Clean, Assigned
  <2>2. atk # NoClient => conn'[atk] # "unused"
    BY <1>3 DEF Clean, Assigned, Typed
  <2>3. \A d \in Clients : conn'[d] = "unused" => found[d] = {} /\ d \notin shared'
    BY <1>3, <1>4 DEF Clean, Assigned
  <2>4. /\ \A i \in Jobs : pc'[i] = "idle" => kind'[i] = "none"
        /\ \A i \in Jobs : pc'[i] = "next" => kind'[i] = "bulk"
    BY <1>1, <1>2 DEF Clean, Assigned, Starts
  <2>5. \A i \in Jobs : pc'[i] \in {"idle", "next", "done", "failed"} \/ target'[i] \in Groups
    BY <1>2 DEF Clean, Assigned, Starts
  <2> QED  BY <2>1, <2>2, <2>3, <2>4, <2>5 DEF Assigned, Starts
<1>10. WebAlone'
  <2>1. ASSUME NEW i \in Jobs, kind'[i] = "web"
        PROVE  /\ on'[i] # atk /\ on'[i] \notin shared'
               /\ \A h \in Jobs \ {i} : pc'[h] # "idle" => on'[h] # on'[i]
    <3>1. CASE i = j
      <4>1. conn[c] = "unused"
        BY <1>2, <2>1, <3>1 DEF Starts
      <4> QED  BY <1>2, <1>5, <3>1, <4>1
    <3>2. CASE i # j
      <4>1. kind[i] = "web" /\ pc[i] # "idle"
        BY <1>2, <2>1, <3>2 DEF Clean, Assigned
      <4>2. on[i] # c
        <5>1. CASE conn[c] = "unused"
          BY <1>5, <4>1, <5>1
        <5>2. CASE c = atk
          BY <4>1, <5>2 DEF Clean, WebAlone
        <5> QED  BY <5>1, <5>2 DEF Starts
      <4> QED  BY <1>2, <1>4, <3>2, <4>1, <4>2 DEF Clean, WebAlone
    <3> QED  BY <3>1, <3>2
  <2> QED  BY <2>1 DEF WebAlone, Starts
<1>11. SharingKnown'
  BY <1>2, <1>4, <1>7 DEF Clean, SharingKnown
<1>12. Untouched'
  <2>1. ASSUME NEW i \in Jobs, pc'[i] = "start", on'[i] \notin shared' PROVE found[on'[i]] = {}
    <3>1. CASE i = j
      BY <1>2, <1>6, <2>1, <3>1
    <3>2. CASE i # j
      BY <1>2, <1>4, <2>1, <3>2 DEF Clean, Untouched, At
    <3> QED  BY <3>1, <3>2
  <2>2. ASSUME atk # NoClient, conn'[atk] = "open", atk \notin shared',
               \A i \in Jobs : Running(i)' => on'[i] # atk
        PROVE  found[atk] = {}
    <3>1. conn[atk] = "open"
      BY <1>3, <1>5, <2>2 DEF Clean, Typed, Starts
    <3>2. \A i \in Jobs : Running(i) => on[i] # atk
      BY <1>1, <1>2, <1>7, <2>2 DEF Running
    <3> QED  BY <1>4, <2>2, <3>1, <3>2 DEF Clean, Untouched
  <2> QED  BY <2>1, <2>2 DEF Untouched, Starts, At
<1>13. FoundShown'
  <2>1. ASSUME NEW i \in Jobs, Honest(i)' PROVE Shown(found[on'[i]], target'[i], seen)
    <3>1. CASE i = j
      <4>1. where = "scan" /\ c \notin shared'
        BY <1>2, <2>1, <3>1 DEF Starts, Honest, Working, Loops
      <4> QED  BY <1>2, <1>6, <3>1, <4>1 DEF Shown
    <3>2. CASE i # j
      BY <1>2, <1>7, <2>1, <3>2 DEF Clean, FoundShown
    <3> QED  BY <3>1, <3>2
  <2> QED  BY <2>1 DEF FoundShown, Starts
<1>14. OracleShown'
  <2>1. ASSUME NEW i \in Jobs, Honest(i)', ~At(i, "scan")'
        PROVE  asks[on'[i]] = target'[i] /\ Shown(known[on'[i]], target'[i], seen)
    <3>1. i # j
      BY <1>2, <2>1 DEF Starts, Honest, Working, At, Loops
    <3> QED  BY <1>2, <1>7, <2>1, <3>1 DEF Clean, OracleShown
  <2> QED  BY <2>1 DEF OracleShown, Starts
<1>15. CandidatesConfirmed'
  <2>1. ASSUME NEW i \in Jobs, kind'[i] = "web" PROVE Shown(found[on'[i]], target'[i], seen)
    <3>1. CASE i = j
      <4>1. conn[c] = "unused"
        BY <1>2, <2>1, <3>1 DEF Starts
      <4> QED  BY <1>2, <1>5, <3>1, <4>1 DEF Shown
    <3>2. CASE i # j
      BY <1>2, <2>1, <3>2 DEF Clean, CandidatesConfirmed, Shown
    <3> QED  BY <3>1, <3>2
  <2> QED  BY <2>1 DEF CandidatesConfirmed, Shown, Starts
<1> QED
  BY <1>8, <1>9, <1>10, <1>11, <1>12, <1>13, <1>14, <1>15 DEF Clean

-----------------------------------------------------------------------------
(* A scrape begins: nothing was found, nothing is known, and the oracle    *)
(* asks about the target.                                                  *)
LEMMA FullScrapeKeeps ==
  ASSUME Clean, NEW j \in Jobs, FullScrape(j)
  PROVE  Clean'
<1> USE DEF dialog, history
<1>1. /\ pc[j] = "start" /\ pc' = [pc EXCEPT ![j] = "list"]
      /\ known' = [known EXCEPT ![on[j]] = {}] /\ asks' = [asks EXCEPT ![on[j]] = target[j]]
      /\ UNCHANGED <<atk, conn, found, kind, on, target, todo, seen, shared>>
  BY DEF FullScrape, At, Go
<1>2. on[j] \in Clients /\ Running(j)
  BY <1>1 DEF Clean, Assigned, Running, Over
<1>3. /\ pc' \in [Jobs -> PCs] /\ pc'[j] = "list"
      /\ \A i \in Jobs \ {j} : pc'[i] = pc[i]
  BY <1>1 DEF Clean, Typed, PCs, Loops
<1>4. /\ known' \in [Clients -> SUBSET Users] /\ known'[on[j]] = {}
      /\ \A c \in Clients \ {on[j]} : known'[c] = known[c]
  BY <1>1, <1>2 DEF Clean, Typed
<1>5. /\ asks' \in [Clients -> Groups \cup {NoGroup}] /\ asks'[on[j]] = target[j]
      /\ \A c \in Clients \ {on[j]} : asks'[c] = asks[c]
  BY <1>1, <1>2 DEF Clean, Typed
<1>6. \A i \in Jobs : (Running(i)' <=> Running(i)) /\ (pc'[i] = "idle" <=> pc[i] = "idle")
  BY <1>1, <1>3 DEF Running, Over
<1>7. ASSUME NEW i \in Jobs \ {j}, Honest(i)' PROVE Honest(i) /\ on[i] \in Clients /\ on[i] # on[j]
  <2>1. Honest(i) /\ Running(i)
    BY <1>1, <1>3, <1>7 DEF Honest, Working, Running, Over, Loops
  <2> QED  BY <1>2, <2>1 DEF Clean, SharingKnown, Assigned, Running, Honest
<1>8. Typed'
  BY <1>1, <1>3, <1>4, <1>5 DEF Clean, Typed
<1>9. Assigned' /\ WebAlone' /\ SharingKnown'
  BY <1>1, <1>3, <1>6 DEF Clean, Assigned, WebAlone, SharingKnown
<1>10. Untouched'
  BY <1>1, <1>3, <1>6 DEF Clean, Untouched, At
<1>11. FoundShown'
  <2>1. ASSUME NEW i \in Jobs, Honest(i)' PROVE Shown(found[on[i]], target[i], seen)
    <3>1. CASE i = j
      BY <1>1, <2>1, <3>1 DEF Clean, Untouched, Honest, At, Shown
    <3>2. CASE i # j
      BY <1>7, <2>1, <3>2 DEF Clean, FoundShown
    <3> QED  BY <3>1, <3>2
  <2> QED  BY <1>1, <2>1 DEF FoundShown
<1>12. OracleShown'
  <2>1. ASSUME NEW i \in Jobs, Honest(i)', pc'[i] # "scan"
        PROVE  asks'[on[i]] = target[i] /\ Shown(known'[on[i]], target[i], seen)
    <3>1. CASE i = j
      BY <1>4, <1>5, <3>1 DEF Shown
    <3>2. CASE i # j
      BY <1>3, <1>4, <1>5, <1>7, <2>1, <3>2 DEF Clean, OracleShown, At
    <3> QED  BY <3>1, <3>2
  <2> QED  BY <1>1, <2>1 DEF OracleShown, At
<1>13. CandidatesConfirmed'
  BY <1>1 DEF Clean, CandidatesConfirmed
<1> QED  BY <1>8, <1>9, <1>10, <1>11, <1>12, <1>13 DEF Clean

-----------------------------------------------------------------------------
(* The dialog changes: it takes a new client, lets go of the one it has,   *)
(* or stays.                                                               *)
DialogChanges ==
  /\ UNCHANGED <<found, known, asks, job, seen, shared>>
  /\ \/ UNCHANGED <<atk, conn>>
     \/ atk' = NoClient /\ conn' \in {conn, [conn EXCEPT ![atk] = "closed"]}
     \/ \E c \in Clients : conn[c] = "unused" /\ atk' = c /\ conn' = [conn EXCEPT ![c] = "open"]

LEMMA DialogKeeps ==
  ASSUME Clean, DialogChanges
  PROVE  Clean'
<1> USE DEF job
<1>1. \A i \in Jobs : (Running(i)' <=> Running(i)) /\ (Honest(i)' <=> Honest(i))
  BY DEF DialogChanges, Running, Over, Honest, Working
<1>2. /\ conn' \in [Clients -> {"unused", "open", "closed"}]
      /\ \A c \in Clients : conn'[c] = "unused" => conn[c] = "unused"
  BY DEF Clean, Typed, Assigned, DialogChanges
<1>3. Typed'
  BY <1>2 DEF Clean, Typed, DialogChanges
<1>4. atk' # NoClient => atk' \in Clients /\ conn'[atk'] # "unused"
  BY <1>3, NoClientIsNone DEF Clean, Typed, Assigned, DialogChanges
<1>5. Assigned'
  BY <1>2, <1>4 DEF Clean, Assigned, DialogChanges
<1>6. WebAlone'
  <2>1. ASSUME NEW i \in Jobs, kind[i] = "web" PROVE on[i] # atk'
    <3>1. on[i] \in Clients /\ conn[on[i]] # "unused" /\ on[i] # atk
      BY <2>1 DEF Clean, Assigned, WebAlone
    <3> QED  BY <3>1, NoClientIsNone DEF DialogChanges
  <2> QED  BY <2>1 DEF Clean, WebAlone, DialogChanges
<1>7. SharingKnown'
  BY <1>1 DEF Clean, SharingKnown, DialogChanges
<1>8. Untouched'
  <2>1. ASSUME atk' # NoClient, conn'[atk'] = "open", atk' \notin shared,
               \A i \in Jobs : Running(i) => on[i] # atk'
        PROVE  found[atk'] = {}
    BY <2>1 DEF Clean, Typed, Assigned, Untouched, DialogChanges
  <2> QED  BY <1>1, <2>1 DEF Clean, Untouched, DialogChanges, At
<1>9. FoundShown' /\ OracleShown' /\ CandidatesConfirmed'
  BY <1>1 DEF Clean, FoundShown, OracleShown, CandidatesConfirmed, DialogChanges, At, Shown
<1> QED  BY <1>3, <1>5, <1>6, <1>7, <1>8, <1>9 DEF Clean

-----------------------------------------------------------------------------
(* What is stored is right if what was found was shown. *)
LEMMA SaveKeeps ==
  ASSUME Clean, RowsRight, NEW j \in Jobs, NEW us,
         Save(us, on[j], Source(j)),
         seen \subseteq seen',
         kind[j] # "bulk" /\ on[j] \notin shared => Shown(us, target[j], seen')
  PROVE  RowsRight'
<1>1. Source(j) \in Groups \cup {Bulk, NoGroup}
  BY DEF Source, Clean, Typed
<1>2. table' \in [Users -> Groups \cup {Bulk, NoGroup}]
  BY <1>1 DEF RowsRight, Save
<1>3. ASSUME NEW u \in Users, table'[u] \in Groups
      PROVE  <<u, table'[u]>> \in seen' \/ u \in mixed'
  <2>1. CASE table'[u] = table[u]
    BY <1>3, <2>1 DEF RowsRight, SourceIsRight, Save
  <2>2. CASE table'[u] # table[u]
    <3>1. u \in us /\ table'[u] = Source(j)
      BY <2>2 DEF Save, Storable
    <3>2. kind[j] # "bulk" /\ table'[u] = target[j]
      BY <1>3, <3>1, NoneAssumption DEF Source
    <3> QED  BY <3>1, <3>2 DEF Save, Shown
  <2> QED  BY <2>1, <2>2
<1> QED  BY <1>2, <1>3 DEF RowsRight, SourceIsRight

LEMMA NoSaveKeeps ==
  ASSUME RowsRight, UNCHANGED <<table, mixed>>, seen \subseteq seen'
  PROVE  RowsRight'
  BY DEF RowsRight, SourceIsRight

LEMMA IncrementalKeeps ==
  ASSUME Clean, RowsRight, NEW j \in Jobs, NEW us, Incremental(j, us) \/ NoSave,
         seen \subseteq seen',
         kind[j] # "bulk" /\ on[j] \notin shared => Shown(us, target[j], seen')
  PROVE  RowsRight'
  BY SaveKeeps, NoSaveKeeps DEF Incremental, NoSave

-----------------------------------------------------------------------------
(* The turns of a loop are looks.  A user is taken who was shown just now. *)
LEMMA TakeIsLook ==
  ASSUME Clean, NEW j \in Jobs, Working(j), NEW u \in Users,
         Take(on[j], u, target[j]),
         known' \in {known, [known EXCEPT ![on[j]] = @ \cup {u}]},
         UNCHANGED <<asks, dialog, job, shared>>
  PROVE  Look(j)
<1>1. on[j] \in Clients
  BY DEF Clean, Assigned, Working, Loops
<1>2. /\ found' \in [Clients -> SUBSET Users] /\ found'[on[j]] = found[on[j]] \cup {u}
      /\ \A c \in Clients \ {on[j]} : found'[c] = found[c]
  BY <1>1 DEF Clean, Typed, Take
<1>3. /\ known' \in [Clients -> SUBSET Users] /\ known'[on[j]] \subseteq known[on[j]] \cup {u}
      /\ \A c \in Clients \ {on[j]} : known'[c] = known[c]
  BY <1>1 DEF Clean, Typed
<1>4. UNCHANGED conn /\ seen' = seen \cup {<<u, target[j]>>}
  BY DEF Take
<1>5. Honest(j) => Shown(found'[on[j]], target[j], seen')
  BY <1>2, <1>4 DEF Clean, FoundShown, Shown
<1>6. Honest(j) /\ ~At(j, "scan") => Shown(known'[on[j]], target[j], seen')
  BY <1>3, <1>4 DEF Clean, OracleShown, Shown
<1> QED  BY <1>2, <1>3, <1>4, <1>5, <1>6 DEF Look

(* An answer of Telegram is learned, and the user taken if it was a yes.   *)
LEMMA LearnIsLook ==
  ASSUME Clean, NEW j \in Jobs, Working(j), ~At(j, "scan"), NEW u \in Users, NEW answer,
         Learn(on[j], u, answer),
         UNCHANGED <<conn, dialog, job, shared>>,
         seen \subseteq seen',
         \/ UNCHANGED found
         \/ answer = "yes" /\ found' = [found EXCEPT ![on[j]] = @ \cup {u}],
         Honest(j) /\ answer = "yes" => <<u, target[j]>> \in seen'
  PROVE  Look(j)
<1>1. on[j] \in Clients
  BY DEF Clean, Assigned, Working, Loops
<1>2. /\ found' \in [Clients -> SUBSET Users]
      /\ found'[on[j]] \subseteq found[on[j]] \cup (IF answer = "yes" THEN {u} ELSE {})
      /\ \A c \in Clients \ {on[j]} : found'[c] = found[c]
  BY <1>1 DEF Clean, Typed
<1>3. /\ known' \in [Clients -> SUBSET Users]
      /\ known'[on[j]] \subseteq known[on[j]] \cup (IF answer = "yes" THEN {u} ELSE {})
      /\ \A c \in Clients \ {on[j]} : known'[c] = known[c]
  BY <1>1 DEF Clean, Typed, Learn, Confirmed
<1>4. Honest(j) => Shown(found'[on[j]], target[j], seen')
  BY <1>2 DEF Clean, FoundShown, Shown
<1>5. Honest(j) /\ ~At(j, "scan") => Shown(known'[on[j]], target[j], seen')
  BY <1>3 DEF Clean, OracleShown, Shown
<1> QED  BY <1>2, <1>3, <1>4, <1>5 DEF Look, Learn

(* A yes is the list's, or was one before. *)
LEMMA YesIsShown ==
  ASSUME Clean, NEW j \in Jobs, Honest(j), ~At(j, "scan"), NEW u,
         "yes" \in Telegram(on[j], u)
  PROVE  <<u, target[j]>> \in seen \/ (asks[on[j]] = target[j] /\ u \in Listed[asks[on[j]]])
  BY DEF Clean, OracleShown, Telegram, Shown

LEMMA TargetIsGroup ==
  ASSUME Clean, NEW j \in Jobs, Working(j)
  PROVE  target[j] \in Groups
  BY DEF Clean, Assigned, Working, Loops

LEMMA TurnKeeps ==
  ASSUME IInv, NEW j \in Jobs, Turn(j)
  PROVE  IInv'
<1> USE DEF dialog, job, oracle, IInv
<1>1. CASE TakeListed(j)
  <2>1. PICK u \in New(on[j], Participants(j)) : Take(on[j], u, target[j]) /\ MarkMember(on[j], u)
    BY <1>1 DEF TakeListed
  <2>2. Working(j)
    BY <1>1 DEF TakeListed, Working, At, Loops
  <2>3. u \in Users
    BY <2>1, <2>2, TargetIsGroup, ShownAssumption DEF New, Participants
  <2>4. Look(j)
    BY <1>1, <2>1, <2>2, <2>3, TakeIsLook DEF TakeListed, MarkMember
  <2> QED  BY <1>1, <2>4, LookKeeps, NoSaveKeeps DEF Look, TakeListed
<1>2. CASE TakeHeard(j)
  <2>1. PICK u \in New(on[j], Named(j)) :
          Take(on[j], u, target[j]) /\ (NoSave \/ Incremental(j, found'[on[j]]))
    BY <1>2 DEF TakeHeard
  <2>2. Working(j)
    BY <1>2 DEF TakeHeard, Working, At, Loops
  <2>3. u \in Users
    BY <2>1, <2>2, TargetIsGroup, ShownAssumption DEF New, Named
  <2>4. Look(j)
    BY <1>2, <2>1, <2>2, <2>3, TakeIsLook DEF TakeHeard
  <2>5. RowsRight'
    BY <2>1, <2>2, <2>4, IncrementalKeeps DEF Look, Honest
  <2> QED  BY <2>4, <2>5, LookKeeps
<1>3. CASE TakeReactions(j)
  <2>1. PICK u \in New(on[j], Reactors(j)) :
          /\ Take(on[j], u, target[j]) /\ MarkMember(on[j], u)
          /\ NoSave \/ Incremental(j, found'[on[j]])
    BY <1>3 DEF TakeReactions
  <2>2. Working(j)
    BY <1>3 DEF TakeReactions, Working, At, Loops
  <2>3. u \in Users
    BY <2>1, <2>2, TargetIsGroup, ShownAssumption DEF New, Reactors
  <2>4. Look(j)
    BY <1>3, <2>1, <2>2, <2>3, TakeIsLook DEF TakeReactions, MarkMember
  <2>5. RowsRight'
    BY <2>1, <2>2, <2>4, IncrementalKeeps DEF Look, Honest
  <2> QED  BY <2>4, <2>5, LookKeeps
<1>4. CASE TakeSearched(j)
  <2>1. PICK u \in New(on[j], Participants(j)) : Take(on[j], u, target[j])
    BY <1>4 DEF TakeSearched
  <2>2. Working(j)
    BY <1>4 DEF TakeSearched, Working, At, Loops
  <2>3. u \in Users
    BY <2>1, <2>2, TargetIsGroup, ShownAssumption DEF New, Participants
  <2>4. Look(j)
    BY <1>4, <2>1, <2>2, <2>3, TakeIsLook DEF TakeSearched
  <2> QED  BY <1>4, <2>4, LookKeeps, NoSaveKeeps DEF Look, TakeSearched
<1>5. CASE TakeScanned(j)
  <2>1. PICK u \in (Listed[target[j]] \cup Heard[target[j]]) \ found[on[j]] :
          Take(on[j], u, target[j])
    BY <1>5 DEF TakeScanned
  <2>2. Working(j)
    BY <1>5 DEF TakeScanned, Working, At, Loops
  <2>3. u \in Users
    BY <2>1, <2>2, TargetIsGroup, ShownAssumption
  <2>4. Look(j)
    BY <1>5, <2>1, <2>2, <2>3, TakeIsLook DEF TakeScanned
  <2> QED  BY <1>5, <2>4, LookKeeps, NoSaveKeeps DEF Look, TakeScanned
<1>6. ASSUME NEW u \in Users, ConfirmForward(j, u) \/ Resolve(j, u)
      PROVE  IInv'
  <2>1. PICK answer \in Telegram(on[j], u) : Learn(on[j], u, answer)
    BY <1>6 DEF ConfirmForward, Resolve
  <2>2. /\ Working(j) /\ ~At(j, "scan") /\ u \in found[on[j]]
        /\ UNCHANGED <<table, conn, found, dialog, job, history>>
    BY <1>6 DEF ConfirmForward, Resolve, Working, At, Loops
  <2>3. Honest(j) => <<u, target[j]>> \in seen
    BY <2>2 DEF Clean, FoundShown, Shown
  <2>4. Look(j)
    BY <2>1, <2>2, <2>3, LearnIsLook DEF history
  <2> QED  BY <2>2, <2>4, LookKeeps, NoSaveKeeps DEF history
<1>7. ASSUME NEW u \in Users, MetElsewhere(j, u) \/ MetInSearch(j, u)
      PROVE  IInv'
  <2>1. Working(j) /\ ~At(j, "scan") /\ Candidate(j, u)
    BY <1>7 DEF MetElsewhere, MetInSearch, Working, At, Loops
  <2>2. PICK answer \in Telegram(on[j], u) :
          /\ Learn(on[j], u, answer)
          /\ IF Confirmed(answer) /\ u \notin had[on[j]]
               THEN found' = [found EXCEPT ![on[j]] = @ \cup {u}]
               ELSE UNCHANGED found
          /\ seen' = IF answer = "yes" /\ u \in Listed[asks[on[j]]]
                       THEN seen \cup {<<u, asks[on[j]]>>} ELSE seen
    BY <2>1 DEF Candidate
  <2>3. UNCHANGED <<table, dialog, conn, job, saved, shared, mixed>>
    BY <2>1 DEF Candidate
  <2>4. Honest(j) /\ answer = "yes" => <<u, target[j]>> \in seen'
    BY <2>1, <2>2, YesIsShown
  <2>5. Look(j)
    BY <2>1, <2>2, <2>3, <2>4, LearnIsLook DEF Confirmed
  <2> QED  BY <2>2, <2>3, <2>5, LookKeeps, NoSaveKeeps DEF Look
<1> QED  BY <1>1, <1>2, <1>3, <1>4, <1>5, <1>6, <1>7 DEF Turn

-----------------------------------------------------------------------------
(* The steps from one part of a job to the next. *)
LEMMA AfterIsLater ==
  ASSUME NEW j, NEW where \in After(j)
  PROVE  /\ pc[j] \in Loops \ {"scan"}
         /\ where \in {"deep", "history", "reactions", "finish", "search", "forwards",
                       "deepReactions", "next", "candidates", "resolve"}
         /\ where = "next" => kind[j] = "bulk"
  BY DEF After, At, Loops

(* A flood wait, and what comes after it, stays within one loop. *)
Waited(j) == RequestFloods(j) \/ Answered(j)
Goes(j) == Advance(j) \/ Answered(j)
LEMMA WaitStays ==
  ASSUME NEW j, Waited(j)
  PROVE  /\ UNCHANGED <<table, dialog, scraper, kind, on, target, todo, history>>
         /\ pc[j] \in Loops \ {"scan", "forwards", "candidates", "resolve"}
         /\ \E where \in Loops \ {"scan", "forwards", "candidates", "resolve"} : Go(j, where)
  BY DEF Waited, RequestFloods, Answered, Waits, Loops, At

LEMMA ReportKeeps ==
  ASSUME Clean, RowsRight, NEW j \in Jobs, SavedReport(j), UNCHANGED seen,
         Working(j) \/ kind[j] = "bulk"
  PROVE  RowsRight'
<1>1. kind[j] # "bulk" /\ on[j] \notin shared => Shown(found[on[j]], target[j], seen)
  BY DEF Clean, FoundShown, Honest
<1> QED  BY <1>1, SaveKeeps DEF SavedReport

LEMMA AdvanceKeeps ==
  ASSUME IInv, NEW j \in Jobs, Goes(j)
  PROVE  IInv'
<1> USE DEF dialog, scraper, oracle, history, IInv
<1>1. Clean => target \in [Jobs -> Groups \cup {NoGroup}] /\ todo \in [Jobs -> SUBSET Groups]
  BY DEF Clean, Typed
<1>2. CASE FullScrape(j)
  BY <1>2, FullScrapeKeeps, NoSaveKeeps DEF FullScrape
<1>3. CASE NotResolved(j)
  <2>1. Moves(j, "failed")
    BY <1>1, <1>3 DEF NotResolved, Moves, Running, Over, At, PCs, Loops
  <2> QED  BY <1>3, <2>1, MovesKeeps, NoSaveKeeps DEF NotResolved
<1>4. CASE TargetNotFound(j)
  <2>1. target[j] \in Groups
    BY <1>4 DEF Clean, Assigned, TargetNotFound, At
  <2>2. Moves(j, "failed") \/ Moves(j, "apology")
    BY <1>1, <1>4, <2>1 DEF TargetNotFound, Moves, Running, Over, At, PCs, Go, Loops
  <2> QED  BY <1>4, <2>2, MovesKeeps, NoSaveKeeps DEF TargetNotFound
<1>5. CASE Apologised(j)
  <2>1. Moves(j, "failed")
    BY <1>1, <1>5 DEF Apologised, Cleared, Moves, Running, Over, At, PCs, Loops
  <2> QED  BY <1>5, <2>1, MovesKeeps, NoSaveKeeps DEF Apologised
<1>6. CASE LoopEnds(j)
  <2>1. PICK where \in After(j) : Go(j, where)
    BY <1>6 DEF LoopEnds
  <2>2. target[j] \in Groups
    BY <2>1, AfterIsLater, TargetIsGroup DEF Working
  <2>3. Moves(j, where)
    BY <1>1, <1>6, <2>1, <2>2, AfterIsLater
       DEF LoopEnds, Moves, Running, Over, Working, At, PCs, Loops
  <2> QED  BY <1>6, <2>3, MovesKeeps, NoSaveKeeps DEF LoopEnds
<1>7. CASE DeepFlood(j) \/ DeepResume(j)
  <2>1. Working(j) /\ ~At(j, "scan")
    BY <1>7 DEF DeepFlood, DeepResume, Working, At, Loops
  <2>2. target[j] \in Groups
    BY <2>1, TargetIsGroup
  <2>3. Moves(j, "flooded") \/ Moves(j, "deep")
    BY <1>1, <1>7, <2>1, <2>2
       DEF DeepFlood, DeepResume, Moves, Running, Over, Working, PCs, Loops
  <2> QED  BY <1>7, <2>3, MovesKeeps, NoSaveKeeps DEF DeepFlood, DeepResume
<1>8. CASE Finish(j)
  <2>1. Working(j) /\ ~At(j, "scan")
    BY <1>8 DEF Finish, Working, At
  <2>2. target[j] \in Groups
    BY <2>1, TargetIsGroup
  <2>3. Moves(j, "report")
    BY <1>1, <1>8, <2>1, <2>2 DEF Finish, Moves, Running, Over, Working, At, PCs
  <2>4. kind[j] # "bulk" /\ on[j] \notin shared => Shown(found[on[j]], target[j], seen)
    BY <2>1 DEF Clean, FoundShown, Honest
  <2>5. RowsRight'
    BY <1>8, <2>4, IncrementalKeeps DEF Finish
  <2> QED  BY <2>3, <2>5, MovesKeeps
<1>9. CASE ReportAttack(j)
  <2>1. Working(j) /\ Moves(j, "done")
    BY <1>1, <1>9 DEF ReportAttack, LetGo, Cleared, Moves, Running, Over, Working, At, PCs, Loops
  <2> QED  BY <1>9, <2>1, MovesKeeps, ReportKeeps DEF ReportAttack
<1>10. CASE ReportFails(j)
  <2>1. Working(j)
    BY <1>10 DEF ReportFails, Working, At
  <2>2. target[j] \in Groups
    BY <2>1, TargetIsGroup
  <2>3. Moves(j, "apology")
    BY <1>1, <1>10, <2>2 DEF ReportFails, Moves, Running, Over, At, PCs, Loops
  <2> QED  BY <1>10, <2>1, <2>3, MovesKeeps, ReportKeeps DEF ReportFails
<1>11. CASE ReportWeb(j)
  <2>1. Moves(j, "done")
    BY <1>1, <1>11 DEF ReportWeb, Moves, Running, Over, At, PCs, Loops
  <2> QED  BY <1>11, <2>1, MovesKeeps, NoSaveKeeps DEF ReportWeb
<1>12. CASE NextGroup(j)
  <2>1. kind[j] = "bulk"
    BY <1>12 DEF Clean, Assigned, NextGroup, At
  <2>2. PICK g \in todo[j] : /\ target' = [target EXCEPT ![j] = g]
                             /\ todo' = [todo EXCEPT ![j] = @ \ {g}]
    BY <1>12 DEF NextGroup
  <2>3. Moves(j, "list")
    BY <1>1, <1>12, <2>1, <2>2 DEF NextGroup, Moves, Running, Over, At, PCs, Loops
  <2>4. RowsRight'
    BY <1>12, <2>1, IncrementalKeeps DEF NextGroup
  <2> QED  BY <2>3, <2>4, MovesKeeps
<1>13. CASE BulkEnds(j)
  <2>1. kind[j] = "bulk"
    BY <1>13 DEF Clean, Assigned, BulkEnds, At
  <2>2. on[j] \in Clients
    BY <1>13 DEF Clean, Assigned, BulkEnds, At
  <2>3. Moves(j, "done")
    BY <1>1, <1>13, <2>1, <2>2 DEF BulkEnds, Moves, Running, Over, At, PCs, Loops, Clean, Typed
  <2> QED  BY <1>13, <2>1, <2>3, MovesKeeps, ReportKeeps DEF BulkEnds
<1>14. CASE ScanEnds(j)
  <2>1. Working(j) /\ on[j] \in Clients
    BY <1>14 DEF Clean, Assigned, ScanEnds, Working, At, Loops
  <2>2. Moves(j, "done")
    BY <1>1, <1>14, <2>1 DEF ScanEnds, Moves, Running, Over, At, PCs, Loops, Clean, Typed
  <2> QED  BY <1>14, <2>1, <2>2, MovesKeeps, ReportKeeps DEF ScanEnds
<1>15. CASE ScanFails(j)
  <2>1. on[j] \in Clients
    BY <1>15 DEF Clean, Assigned, ScanFails, At
  <2>2. Moves(j, "failed")
    BY <1>1, <1>15, <2>1 DEF ScanFails, Moves, Running, Over, At, PCs, Loops, Clean, Typed
  <2> QED  BY <1>15, <2>2, MovesKeeps, NoSaveKeeps DEF ScanFails
<1>16. CASE Waited(j)
  <2>1. PICK where \in Loops \ {"scan"} : Go(j, where)
    BY <1>16, WaitStays
  <2>2. Working(j) /\ ~At(j, "scan")
    BY <1>16, WaitStays DEF Working, At
  <2>3. target[j] \in Groups
    BY <2>2, TargetIsGroup
  <2>4. Moves(j, where)
    BY <1>1, <1>16, <2>1, <2>2, <2>3, WaitStays
       DEF Moves, Running, Over, Working, PCs, Loops
  <2> QED  BY <1>16, <2>4, WaitStays, MovesKeeps, NoSaveKeeps
<1> QED
  BY <1>2, <1>3, <1>4, <1>5, <1>6, <1>7, <1>8, <1>9, <1>10, <1>11, <1>12, <1>13, <1>14, <1>15,
     <1>16
  DEF Goes, Advance, RequestFails, Waited

-----------------------------------------------------------------------------
(* What the user and the background loop may do at any time. *)
LEMMA AskKeeps ==
  ASSUME IInv, Ask
  PROVE  IInv'
<1> USE DEF dialog, scraper, oracle, history, job, IInv
<1>1. Clean => todo \in [Jobs -> SUBSET Groups] /\ (atk # NoClient => atk \in Clients)
  BY DEF Clean, Typed
<1>2. CASE ClearUsers
  <2>1. DialogChanges
    BY <1>2 DEF ClearUsers, DialogChanges
  <2>2. RowsRight'
    BY <1>2, NoneAssumption DEF ClearUsers, RowsRight, SourceIsRight
  <2> QED  BY <2>1, <2>2, DialogKeeps
<1>3. CASE Home \/ ClearDialog \/ PressStop
  <2>1. DialogChanges
    BY <1>3 DEF Home, ClearDialog, PressStop, Cleared, DialogChanges
  <2> QED  BY <1>3, <2>1, DialogKeeps, NoSaveKeeps DEF Home, ClearDialog, PressStop
<1>4. ASSUME NEW c \in Clients, MenuPick(c) PROVE IInv'
  <2>1. DialogChanges
    BY <1>4 DEF MenuPick, Fresh, DialogChanges
  <2> QED  BY <1>4, <2>1, DialogKeeps, NoSaveKeeps DEF MenuPick
<1>5. ASSUME NEW j \in Jobs, NEW g \in Groups, StartAttack(j, g) PROVE IInv'
  <2>1. Starts(j, "menu", atk, g, "start")
    BY <1>1, <1>5 DEF StartAttack, Starts, Kinds
  <2> QED  BY <1>5, <2>1, StartsKeeps, NoSaveKeeps DEF StartAttack
<1>6. ASSUME NEW j \in Jobs, Retry(j) PROVE IInv'
  <2>1. PICK i \in Jobs :
          /\ At(i, "apology")
          /\ Begin(j, "menu", atk, target[i], IF conn[atk] = "open" THEN "start" ELSE "apology")
    BY <1>6 DEF Retry
  <2>2. target[i] \in Groups
    BY <2>1 DEF Clean, Assigned, At
  <2>3. Starts(j, "menu", atk, target[i], IF conn[atk] = "open" THEN "start" ELSE "apology")
    BY <1>1, <1>6, <2>1, <2>2 DEF Retry, Starts, Kinds
  <2> QED  BY <1>6, <2>3, StartsKeeps, NoSaveKeeps DEF Retry
<1>7. ASSUME NEW j \in Jobs, StartBulk(j) PROVE IInv'
  <2>1. todo' \in [Jobs -> SUBSET Groups]
    BY <1>1, <1>7, DialogAssumption DEF StartBulk
  <2>2. Starts(j, "bulk", atk, NoGroup, IF conn[atk] = "open" THEN "next" ELSE "failed")
    BY <1>1, <1>7, <2>1 DEF StartBulk, Starts, Kinds
  <2> QED  BY <1>7, <2>2, StartsKeeps, NoSaveKeeps DEF StartBulk
<1>8. ASSUME NEW j \in Jobs, NEW c \in Clients, NEW g \in Groups, StartWeb(j, c, g) PROVE IInv'
  <2>1. Starts(j, "web", c, g, "start")
    BY <1>1, <1>8 DEF StartWeb, Fresh, Starts, Kinds
  <2> QED  BY <1>8, <2>1, StartsKeeps, NoSaveKeeps DEF StartWeb
<1>9. ASSUME NEW j \in Jobs, NEW c \in Clients, NEW g \in Groups, StartBackground(j, c, g)
      PROVE  IInv'
  <2>1. Starts(j, "background", c, g, "scan")
    BY <1>1, <1>9 DEF StartBackground, Fresh, Starts, Kinds
  <2> QED  BY <1>9, <2>1, StartsKeeps, NoSaveKeeps DEF StartBackground
<1> QED  BY <1>2, <1>3, <1>4, <1>5, <1>6, <1>7, <1>8, <1>9 DEF Ask

-----------------------------------------------------------------------------
(* The invariant holds from the start and every step keeps it. *)
LEMMA InitHolds ==
  ASSUME Init
  PROVE  IInv
<1>1. Typed /\ Assigned
  BY DEF Init, Typed, Assigned, PCs
<1>2. WebAlone /\ SharingKnown /\ Untouched /\ FoundShown /\ OracleShown
  BY DEF Init, WebAlone, SharingKnown, Untouched, FoundShown, OracleShown,
         Honest, Working, Loops, Running, At
<1>3. CandidatesConfirmed /\ RowsRight
  BY NoneAssumption DEF Init, CandidatesConfirmed, RowsRight, SourceIsRight
<1> QED  BY <1>1, <1>2, <1>3 DEF IInv, Clean

LEMMA NextKeeps ==
  ASSUME IInv, [Next]_vars
  PROVE  IInv'
<1>1. CASE Next
  BY <1>1, AskKeeps, TurnKeeps, AdvanceKeeps DEF Next, Goes
<1>2. CASE UNCHANGED vars
  <2>1. DialogChanges
    BY <1>2 DEF vars, dialog, scraper, oracle, job, history, DialogChanges
  <2> QED  BY <1>2, <2>1, DialogKeeps, NoSaveKeeps DEF IInv, vars, history
<1> QED  BY <1>1, <1>2

(* The invariant, for any users, groups, clients and jobs. *)
THEOREM ScrapeInvariant == Spec => []IInv
<1>1. Init => IInv  BY InitHolds
<1>2. IInv /\ [Next]_vars => IInv'  BY NextKeeps
<1> QED  BY <1>1, <1>2, PTL DEF Spec

(* Deep extraction for the mini app takes nobody whom neither the target   *)
(* nor a definite answer of Telegram showed (scrape_optimize.py 69-99,     *)
(* attacker.py 394-452, 570-637).                                          *)
THEOREM ConfirmedCorrect == Spec => []CandidatesConfirmed
<1>1. IInv => CandidatesConfirmed  BY DEF IInv, Clean
<1> QED  BY <1>1, ScrapeInvariant, PTL

(* A row names a group that showed its user, unless two jobs had used one  *)
(* client at the same time (bot.py 5016-5053, 6828-6853, db.py 433-486).   *)
THEOREM SourceCorrect == Spec => []SourceIsRight
<1>1. IInv => SourceIsRight  BY DEF IInv, RowsRight
<1> QED  BY <1>1, ScrapeInvariant, PTL
-----------------------------------------------------------------------------
(* What the types say beyond IInv.  No user is both a member and an outsider *)
(* to an oracle: users are shown first and asked about later, only the mini  *)
(* app's job asks, and nobody else uses its client.                          *)
Late == {"forwards", "candidates", "resolve"}
Rejecting == Late \cup {"finish", "report", "done", "failed"}
RestTyped ==
  /\ gate \in BOOLEAN /\ stop \in [Clients -> BOOLEAN]
  /\ had \in [Clients -> SUBSET Users] /\ outside \in [Clients -> SUBSET Users]
  /\ seen \subseteq Users \X Groups /\ saved \subseteq Users
  /\ shared \subseteq Clients /\ mixed \subseteq Users
LateIsWeb == \A j \in Jobs : pc[j] \in Late => kind[j] = "web"
Sceptical == \A c \in Clients : outside[c] # {} =>
  \E j \in Jobs : on[j] = c /\ kind[j] = "web" /\ pc[j] \in Rejecting
Consistent == \A c \in Clients : known[c] \cap outside[c] = {}
AskInv == RestTyped /\ LateIsWeb /\ Sceptical /\ Consistent

LEMMA NobodyRejected ==
  ASSUME IInv, AskInv, NEW j \in Jobs, pc[j] \notin Rejecting \cup {"idle"}
  PROVE  on[j] \in Clients /\ outside[on[j]] = {}
<1>1. on[j] \in Clients
  BY DEF IInv, Clean, Assigned
<1>2. ASSUME outside[on[j]] # {} PROVE FALSE
  <2>1. PICK i \in Jobs : on[i] = on[j] /\ kind[i] = "web" /\ pc[i] \in Rejecting
    BY <1>1, <1>2 DEF AskInv, Sceptical
  <2> QED  BY <2>1 DEF IInv, Clean, WebAlone
<1> QED  BY <1>1, <1>2

LEMMA SavesTyped ==
  ASSUME saved \subseteq Users, mixed \subseteq Users, NEW us \in SUBSET Users, NEW c, NEW g,
         Save(us, c, g)
  PROVE  saved' \subseteq Users /\ mixed' \subseteq Users /\ saved \subseteq saved'
  BY DEF Save, Storable

(* What a turn does to a job's client, its oracle and the record. *)
LEMMA TurnFrame ==
  ASSUME NEW j \in Jobs, Turn(j)
  PROVE  /\ UNCHANGED <<pc, kind, on, conn, had, stop, shared, gate>>
         /\ conn[on[j]] = "open"
         /\ UNCHANGED found \/ \E u : found' = [found EXCEPT ![on[j]] = @ \cup {u}]
         /\ NoSave \/ Incremental(j, found'[on[j]])
  BY DEF Turn, TakeListed, TakeHeard, TakeReactions, TakeSearched, TakeScanned, ConfirmForward,
         MetElsewhere, MetInSearch, Candidate, Resolve, Take, Reads, NoSave, dialog, job, history

LEMMA TurnOracle ==
  ASSUME NEW j \in Jobs, Turn(j)
  PROVE  \/ UNCHANGED <<known, outside>>
         \/ /\ pc[j] \in {"list", "reactions", "deepReactions"}
            /\ \E u : MarkMember(on[j], u)
         \/ pc[j] \in Late /\ \E u \in Users : \E answer \in Telegram(on[j], u) :
                                Learn(on[j], u, answer)
<1>1. CASE TakeListed(j) \/ TakeReactions(j)
  BY <1>1 DEF TakeListed, TakeReactions, At
<1>2. CASE TakeHeard(j) \/ TakeSearched(j) \/ TakeScanned(j)
  BY <1>2 DEF TakeHeard, TakeSearched, TakeScanned, oracle
<1>3. ASSUME NEW u \in Users,
             ConfirmForward(j, u) \/ MetElsewhere(j, u) \/ MetInSearch(j, u) \/ Resolve(j, u)
      PROVE  pc[j] \in Late /\ \E answer \in Telegram(on[j], u) : Learn(on[j], u, answer)
  BY <1>3 DEF ConfirmForward, MetElsewhere, MetInSearch, Candidate, Resolve, At, Late
<1> QED  BY <1>1, <1>2, <1>3 DEF Turn

LEMMA TurnSeen ==
  ASSUME IInv, AskInv, NEW j \in Jobs, Turn(j)
  PROVE  seen' \subseteq Users \X Groups
<1>1. Working(j) /\ target[j] \in Groups
  <2>1. pc[j] \in Loops
    BY DEF Turn, TakeListed, TakeHeard, TakeReactions, TakeSearched, TakeScanned, ConfirmForward,
           MetElsewhere, MetInSearch, Resolve, At, Loops
  <2> QED  BY <2>1, TargetIsGroup DEF IInv, Working
<1>2. Listed[target[j]] \subseteq Users /\ Heard[target[j]] \subseteq Users
  BY <1>1, ShownAssumption
<1>3. ASSUME NEW u \in Users, Take(on[j], u, target[j]) PROVE seen' \subseteq Users \X Groups
  BY <1>1, <1>3 DEF Take, AskInv, RestTyped
<1>4. CASE TakeListed(j) \/ TakeReactions(j)
  BY <1>2, <1>3, <1>4 DEF TakeListed, TakeReactions, New, Participants, Reactors
<1>5. CASE TakeHeard(j) \/ TakeSearched(j) \/ TakeScanned(j)
  BY <1>2, <1>3, <1>5 DEF TakeHeard, TakeSearched, TakeScanned, New, Named, Participants
<1>6. ASSUME NEW u \in Users, ConfirmForward(j, u) \/ Resolve(j, u)
      PROVE  seen' \subseteq Users \X Groups
  BY <1>6 DEF ConfirmForward, Resolve, history, AskInv, RestTyped
<1>7. ASSUME NEW u \in Users, MetElsewhere(j, u) \/ MetInSearch(j, u)
      PROVE  seen' \subseteq Users \X Groups
  <2>1. pc[j] = "candidates" /\ Candidate(j, u)
    BY <1>7 DEF MetElsewhere, MetInSearch, At
  <2>2. Honest(j)
    <3>1. kind[j] = "web"
      BY <2>1 DEF AskInv, LateIsWeb, Late
    <3> QED  BY <1>1, <3>1 DEF IInv, Clean, WebAlone, Honest
  <2>3. asks[on[j]] = target[j]
    BY <2>1, <2>2 DEF IInv, Clean, OracleShown, At
  <2>4. seen' = seen \cup {<<u, target[j]>>} \/ seen' = seen
    BY <2>1, <2>3 DEF Candidate
  <2> QED  BY <1>1, <2>4 DEF AskInv, RestTyped
<1> QED  BY <1>4, <1>5, <1>6, <1>7 DEF Turn

LEMMA TurnAsk ==
  ASSUME IInv, IInv', AskInv, NEW j \in Jobs, Turn(j)
  PROVE  AskInv'
<1>1. /\ UNCHANGED <<pc, kind, on, conn, had, stop, shared, gate>>
      /\ NoSave \/ Incremental(j, found'[on[j]])
      /\ on[j] \in Clients
  BY TurnFrame DEF Turn, IInv, Clean, Assigned, TakeListed, TakeHeard, TakeReactions,
     TakeSearched, TakeScanned, ConfirmForward, MetElsewhere, MetInSearch, Resolve, At
<1>2. saved' \subseteq Users /\ mixed' \subseteq Users
  <2>1. found'[on[j]] \in SUBSET Users
    BY <1>1 DEF IInv, Clean, Typed
  <2>2. CASE NoSave
    BY <2>2 DEF NoSave, AskInv, RestTyped
  <2>3. CASE Save(found'[on[j]], on[j], Source(j))
    BY <2>1, <2>3, SavesTyped DEF AskInv, RestTyped
  <2> QED  BY <1>1, <2>2, <2>3 DEF Incremental
<1>3. /\ outside' \in [Clients -> SUBSET Users] /\ Consistent'
      /\ \A c \in Clients \ {on[j]} : outside'[c] = outside[c]
      /\ outside'[on[j]] # outside[on[j]] => pc[j] \in Late
  <2>1. CASE UNCHANGED <<known, outside>>
    BY <2>1 DEF AskInv, RestTyped, Consistent
  <2>2. ASSUME pc[j] \in {"list", "reactions", "deepReactions"}, NEW u, MarkMember(on[j], u)
        PROVE  <1>3!:
    <3>1. outside[on[j]] = {} /\ outside' = outside
      BY <2>2, NobodyRejected DEF Rejecting, Late, MarkMember
    <3>2. \A c \in Clients \ {on[j]} : known'[c] = known[c]
      BY <2>2 DEF MarkMember, IInv, Clean, Typed
    <3> QED  BY <3>1, <3>2 DEF AskInv, RestTyped, Consistent
  <2>3. ASSUME pc[j] \in Late, NEW u \in Users, NEW answer \in Telegram(on[j], u),
               Learn(on[j], u, answer)
        PROVE  <1>3!:
    <3>1. /\ known'[on[j]] = IF answer = "yes" THEN known[on[j]] \cup {u} ELSE known[on[j]]
          /\ outside'[on[j]] = IF answer \in {"no", "error"} THEN outside[on[j]] \cup {u}
                                                          ELSE outside[on[j]]
          /\ \A c \in Clients \ {on[j]} : known'[c] = known[c] /\ outside'[c] = outside[c]
          /\ outside' \in [Clients -> SUBSET Users]
      BY <1>1, <2>3 DEF Learn, Confirmed, IInv, Clean, Typed, AskInv, RestTyped
    <3>2. /\ answer = "yes" => u \notin outside[on[j]]
          /\ answer \in {"no", "error"} => u \notin known[on[j]]
      BY <1>1, <2>3 DEF Telegram, AskInv, Consistent
    <3>3. Consistent'
      BY <1>1, <3>1, <3>2 DEF AskInv, Consistent
    <3> QED  BY <2>3, <3>1, <3>3
  <2> QED  BY <2>1, <2>2, <2>3, TurnOracle
<1>4. RestTyped'
  BY <1>1, <1>2, <1>3, TurnSeen DEF AskInv, RestTyped
<1>5. LateIsWeb'
  BY <1>1 DEF AskInv, LateIsWeb
<1>6. Sceptical'
  <2> SUFFICES ASSUME NEW c \in Clients, outside'[c] # {}
               PROVE  \E i \in Jobs : on[i] = c /\ kind[i] = "web" /\ pc[i] \in Rejecting
    BY <1>1 DEF Sceptical
  <2>1. CASE outside'[c] = outside[c]
    BY <2>1 DEF AskInv, Sceptical
  <2>2. CASE outside'[c] # outside[c]
    BY <1>3, <2>2 DEF AskInv, LateIsWeb, Rejecting
  <2> QED  BY <2>1, <2>2
<1> QED  BY <1>3, <1>4, <1>5, <1>6 DEF AskInv
(* What a step from one part of a job to the next leaves alone. *)
LEMMA AdvanceFrame ==
  ASSUME NEW j \in Jobs, Goes(j)
  PROVE  /\ UNCHANGED <<kind, on, found, stop, seen, shared>>
         /\ gate' \in {gate, FALSE}
         /\ conn' \in {conn, [conn EXCEPT ![on[j]] = "closed"]}
         /\ had' \in {had, [had EXCEPT ![on[j]] = Rows]}
         /\ NoSave \/ Incremental(j, found[on[j]]) \/ SavedReport(j)
         /\ UNCHANGED <<known, outside>> \/ FullScrape(j)
  BY DEF Goes, RequestFloods, RequestFails, Answered, Advance, FullScrape, NotResolved, TargetNotFound, Apologised, LoopEnds, DeepFlood,
         DeepResume, Finish, ReportAttack, ReportFails, ReportWeb, NextGroup, BulkEnds, ScanEnds,
         ScanFails, LetGo, Cleared, NoSave, dialog, scraper, oracle, history

(* Where it leads. *)
LEMMA AdvanceWhere ==
  ASSUME LateIsWeb, NEW j \in Jobs, Goes(j)
  PROVE  \E where :
           /\ Go(j, where) /\ where # "idle"
           /\ where \in Late => kind[j] = "web"
           /\ kind[j] = "web" /\ pc[j] \in Rejecting => where \in Rejecting
<1>1. CASE LoopEnds(j)
  <2>1. PICK where \in After(j) : Go(j, where)
    BY <1>1 DEF LoopEnds
  <2>2. where # "idle" /\ (pc[j] \in Rejecting => where \in Rejecting)
    BY DEF After, At, Rejecting, Late
  <2>3. where \in Late => kind[j] = "web" \/ pc[j] \in Late
    BY DEF After, At, Late
  <2> QED  BY <2>1, <2>2, <2>3 DEF LateIsWeb
<1>2. CASE Waited(j)
  BY <1>2, WaitStays DEF Loops, Rejecting, Late
<1>3. CASE ~LoopEnds(j) /\ ~Waited(j)
  BY <1>3 DEF Goes, Waited, RequestFails, Advance, FullScrape, NotResolved, TargetNotFound, Apologised, DeepFlood,
         DeepResume, Finish, ReportAttack, ReportFails, ReportWeb, NextGroup, BulkEnds, ScanEnds,
         ScanFails, At, Rejecting, Late
<1> QED  BY <1>1, <1>2, <1>3

LEMMA AdvanceAsk ==
  ASSUME IInv, AskInv, NEW j \in Jobs, Goes(j)
  PROVE  AskInv'
<1>1. /\ UNCHANGED <<kind, on, found, stop, seen, shared>> /\ gate' \in {gate, FALSE}
      /\ had' \in {had, [had EXCEPT ![on[j]] = Rows]}
      /\ NoSave \/ Incremental(j, found[on[j]]) \/ SavedReport(j)
      /\ UNCHANGED <<known, outside>> \/ FullScrape(j)
  BY AdvanceFrame
<1>2. PICK where : /\ Go(j, where) /\ where # "idle"
                   /\ where \in Late => kind[j] = "web"
                   /\ kind[j] = "web" /\ pc[j] \in Rejecting => where \in Rejecting
  BY AdvanceWhere DEF AskInv
<1>3. \A i \in Jobs : pc'[i] = IF i = j THEN where ELSE pc[i]
  BY <1>2 DEF Go, IInv, Clean, Typed
<1>4. on[j] \in Clients
  BY DEF IInv, Clean, Assigned, Goes, RequestFloods, RequestFails, Answered, Waits,
         Advance, FullScrape, NotResolved, TargetNotFound, Apologised,
         LoopEnds, After, DeepFlood, DeepResume, Finish, ReportAttack, ReportFails, ReportWeb,
         NextGroup, BulkEnds, ScanEnds, ScanFails, At
<1>5. /\ outside' \in [Clients -> SUBSET Users] /\ Consistent'
      /\ \A c \in Clients : outside'[c] = outside[c] \/ outside'[c] = {}
  <2>1. CASE UNCHANGED <<known, outside>>
    BY <2>1 DEF AskInv, RestTyped, Consistent
  <2>2. CASE FullScrape(j)
    BY <1>4, <2>2 DEF FullScrape, AskInv, RestTyped, Consistent, IInv, Clean, Typed
  <2> QED  BY <1>1, <2>1, <2>2
<1>6. saved' \subseteq Users /\ mixed' \subseteq Users
  <2>1. found[on[j]] \in SUBSET Users
    BY <1>4 DEF IInv, Clean, Typed
  <2>2. CASE NoSave
    BY <2>2 DEF NoSave, AskInv, RestTyped
  <2>3. CASE Save(found[on[j]], on[j], Source(j))
    BY <2>1, <2>3, SavesTyped DEF AskInv, RestTyped
  <2> QED  BY <1>1, <2>2, <2>3 DEF Incremental, SavedReport
<1>7. RestTyped'
  <2>1. had' \in [Clients -> SUBSET Users]
    BY <1>1 DEF AskInv, RestTyped, Rows
  <2> QED  BY <1>1, <1>5, <1>6, <2>1 DEF AskInv, RestTyped
<1>8. LateIsWeb'
  BY <1>1, <1>2, <1>3 DEF AskInv, LateIsWeb
<1>9. Sceptical'
  <2> SUFFICES ASSUME NEW c \in Clients, outside'[c] # {}
               PROVE  \E i \in Jobs : on[i] = c /\ kind[i] = "web" /\ pc'[i] \in Rejecting
    BY <1>1 DEF Sceptical
  <2>1. PICK i \in Jobs : on[i] = c /\ kind[i] = "web" /\ pc[i] \in Rejecting
    BY <1>5 DEF AskInv, Sceptical
  <2> QED  BY <1>2, <1>3, <2>1
<1> QED  BY <1>5, <1>7, <1>8, <1>9 DEF AskInv

(* What the dialog changes, and who begins. *)
LEMMA AskFrame ==
  ASSUME IInv, Ask
  PROVE  /\ UNCHANGED <<found, had, oracle, seen, saved, mixed>>
         /\ gate' \in {gate, TRUE, FALSE}
         /\ stop' \in {stop, [stop EXCEPT ![atk] = TRUE]}
         /\ \A c \in Clients : conn[c] = "closed" => conn'[c] = "closed"
         /\ \/ UNCHANGED <<pc, kind, on, shared>>
            \/ \E j \in Jobs, c \in Clients : \E k, g, where :
                 Begin(j, k, c, g, where) /\ where \in {"start", "next", "apology", "failed", "scan"}
<1>1. /\ atk \in Clients \cup {NoClient}
      /\ conn \in [Clients -> {"unused", "open", "closed"}]
  BY DEF IInv, Clean, Typed
<1>2. CASE ClearUsers \/ Home \/ ClearDialog \/ PressStop \/ \E c \in Clients : MenuPick(c)
  BY <1>1, <1>2 DEF ClearUsers, Home, ClearDialog, PressStop, MenuPick, Fresh, Cleared, dialog,
     scraper, job, history
<1>3. ASSUME NEW j \in Jobs, Retry(j) \/ StartBulk(j) \/ \E g \in Groups : StartAttack(j, g)
      PROVE  /\ UNCHANGED <<found, had, oracle, seen, saved, mixed, gate, stop, conn>>
             /\ \E c \in Clients : \E k, g, where :
                  Begin(j, k, c, g, where) /\ where \in {"start", "next", "apology", "failed"}
  BY <1>1, <1>3 DEF Retry, StartBulk, StartAttack, dialog, scraper
<1>4. ASSUME NEW j \in Jobs, NEW c \in Clients, NEW g \in Groups,
             StartWeb(j, c, g) \/ StartBackground(j, c, g)
      PROVE  /\ UNCHANGED <<found, had, oracle, seen, saved, mixed, stop>>
             /\ gate' \in {gate, TRUE}
             /\ \A d \in Clients : conn[d] = "closed" => conn'[d] = "closed"
             /\ \E k, where : Begin(j, k, c, g, where) /\ where \in {"start", "scan"}
  BY <1>1, <1>4 DEF StartWeb, StartBackground, Fresh, dialog
<1> QED  BY <1>2, <1>3, <1>4 DEF Ask

(* A job that begins was idle, and the others go on. *)
LEMMA BeginFrame ==
  ASSUME IInv, NEW j \in Jobs, NEW c \in Clients, NEW k, NEW g, NEW where,
         Begin(j, k, c, g, where)
  PROVE  /\ pc[j] = "idle" /\ pc'[j] = where
         /\ \A i \in Jobs \ {j} : pc'[i] = pc[i] /\ kind'[i] = kind[i] /\ on'[i] = on[i]
         /\ shared' \in {shared, shared \cup {c}}
  BY DEF Begin, Go, At, IInv, Clean, Typed

LEMMA AskAsk ==
  ASSUME IInv, AskInv, Ask
  PROVE  AskInv'
<1>1. /\ UNCHANGED <<found, had, oracle, seen, saved, mixed>>
      /\ gate' \in {gate, TRUE, FALSE} /\ stop' \in {stop, [stop EXCEPT ![atk] = TRUE]}
  BY AskFrame
<1>2. /\ shared' \subseteq Clients
      /\ \A i \in Jobs : \/ pc'[i] = pc[i] /\ kind'[i] = kind[i] /\ on'[i] = on[i]
                         \/ /\ pc[i] = "idle"
                            /\ pc'[i] \in {"start", "next", "apology", "failed", "scan"}
  <2>1. CASE UNCHANGED <<pc, kind, on, shared>>
    BY <2>1 DEF AskInv, RestTyped
  <2>2. ASSUME NEW j \in Jobs, NEW c \in Clients, NEW k, NEW g, NEW where,
               Begin(j, k, c, g, where), where \in {"start", "next", "apology", "failed", "scan"}
        PROVE  <1>2!:
    BY <2>2, BeginFrame DEF AskInv, RestTyped
  <2> QED  BY <2>1, <2>2, AskFrame
<1>3. RestTyped'
  BY <1>1, <1>2 DEF AskInv, RestTyped, oracle
<1>4. LateIsWeb'
  BY <1>2 DEF AskInv, LateIsWeb, Late
<1>5. Sceptical'
  BY <1>1, <1>2 DEF AskInv, Sceptical, Rejecting, Late, oracle
<1>6. Consistent'
  BY <1>1 DEF AskInv, Consistent, oracle
<1> QED  BY <1>3, <1>4, <1>5, <1>6 DEF AskInv

LEMMA AskStep == IInv /\ AskInv /\ [Next]_vars => AskInv'
<1> SUFFICES ASSUME IInv, AskInv, [Next]_vars PROVE AskInv'
  OBVIOUS
<1>1. IInv'
  BY NextKeeps
<1>2. CASE UNCHANGED vars
  BY <1>2 DEF vars, dialog, scraper, oracle, job, history, AskInv, RestTyped, LateIsWeb,
              Sceptical, Consistent
<1> QED  BY <1>1, <1>2, TurnAsk, AdvanceAsk, AskAsk DEF Next, Goes

LEMMA AskInit == Init => AskInv
<1> SUFFICES ASSUME Init PROVE AskInv
  OBVIOUS
<1>1. RestTyped
  BY DEF Init, RestTyped
<1>2. LateIsWeb /\ Sceptical /\ Consistent
  BY DEF Init, LateIsWeb, Sceptical, Consistent, Late
<1> QED  BY <1>1, <1>2 DEF AskInv

(* Every variable keeps its type; no oracle holds anybody for both a member  *)
(* and an outsider, although lists and reactions mark members without a look *)
(* at what was answered; and an object that was never made holds nothing     *)
(* (scrape_optimize.py 55-99).                                               *)
THEOREM ScrapeTypeCorrect == Spec => []TypeOK
<1>1. IInv /\ AskInv => TypeOK
  BY DEF IInv, Clean, RowsRight, Typed, Assigned, AskInv, RestTyped, Consistent, PCs, TypeOK
<1> QED  BY <1>1, ScrapeInvariant, AskInit, AskStep, PTL DEF Spec

-----------------------------------------------------------------------------
(* What a job found is stored when it ends well; afterwards its client is    *)
(* closed, so nothing is found on it that would have to be stored.           *)
Stored ==
  \A j \in Jobs : At(j, "done") /\ kind[j] # "web" =>
    conn[on[j]] = "closed" /\ found[on[j]] \subseteq saved \cup OnRecord

LEMMA SavesMore ==
  ASSUME NEW us, NEW c, NEW g, Save(us, c, g)
  PROVE  saved \subseteq saved' /\ us \subseteq saved' \cup OnRecord
  BY DEF Save, Storable

LEMMA StoredTurn ==
  ASSUME IInv, Stored, NEW j \in Jobs, Turn(j)
  PROVE  Stored'
<1>1. /\ UNCHANGED <<pc, kind, on, conn>> /\ conn[on[j]] = "open"
      /\ UNCHANGED found \/ \E u : found' = [found EXCEPT ![on[j]] = @ \cup {u}]
  BY TurnFrame
<1>2. saved \subseteq saved'
  <2>1. NoSave \/ Save(found'[on[j]], on[j], Source(j))
    BY TurnFrame DEF Incremental
  <2> QED  BY <2>1, SavesMore DEF NoSave
<1> SUFFICES ASSUME NEW i \in Jobs, At(i, "done"), kind[i] # "web"
             PROVE  conn[on[i]] = "closed" /\ found'[on[i]] \subseteq saved' \cup OnRecord
  BY <1>1 DEF Stored, At
<1>3. conn[on[i]] = "closed" /\ found[on[i]] \subseteq saved \cup OnRecord /\ on[i] \in Clients
  BY DEF Stored, At, IInv, Clean, Assigned
<1>4. found'[on[i]] = found[on[i]]
  BY <1>1, <1>3 DEF IInv, Clean, Typed
<1> QED  BY <1>2, <1>3, <1>4

LEMMA StoredAdvance ==
  ASSUME IInv, Stored, NEW j \in Jobs, Goes(j)
  PROVE  Stored'
<1>1. /\ UNCHANGED <<kind, on, found>>
      /\ conn' \in {conn, [conn EXCEPT ![on[j]] = "closed"]}
      /\ NoSave \/ Incremental(j, found[on[j]]) \/ SavedReport(j)
  BY AdvanceFrame
<1>2. saved \subseteq saved'
  BY <1>1, SavesMore DEF Incremental, SavedReport, NoSave
<1>3. PICK where : Go(j, where)
  BY DEF Goes, RequestFloods, RequestFails, Answered, Advance, FullScrape, NotResolved, TargetNotFound, Apologised, LoopEnds, DeepFlood,
         DeepResume, Finish, ReportAttack, ReportFails, ReportWeb, NextGroup, BulkEnds, ScanEnds,
         ScanFails
<1>4. \A i \in Jobs : pc'[i] = IF i = j THEN where ELSE pc[i]
  BY <1>3 DEF Go, IInv, Clean, Typed
<1> SUFFICES ASSUME NEW i \in Jobs, pc'[i] = "done", kind[i] # "web"
             PROVE  conn'[on[i]] = "closed" /\ found[on[i]] \subseteq saved' \cup OnRecord
  BY <1>1 DEF Stored, At
<1>5. CASE pc[i] = "done"
  <2>1. on[i] \in Clients /\ conn[on[i]] = "closed" /\ found[on[i]] \subseteq saved \cup OnRecord
    BY <1>5 DEF Stored, At, IInv, Clean, Assigned
  <2> QED  BY <1>1, <1>2, <2>1 DEF IInv, Clean, Typed
<1>6. CASE pc[i] # "done"
  <2>1. i = j /\ where = "done"
    BY <1>4, <1>6
  <2>2. ReportAttack(j) \/ BulkEnds(j) \/ ScanEnds(j)
    <3>1. CASE LoopEnds(j)
      <4>1. PICK w \in After(j) : Go(j, w)
        BY <3>1 DEF LoopEnds
      <4>2. w = "done"
        BY <2>1, <4>1 DEF Go, IInv, Clean, Typed
      <4> QED  BY <4>1, <4>2, AfterIsLater
    <3>2. pc'[j] = "done"
      BY <2>1
    <3>3. CASE Waited(j)
      <4>1. PICK w \in Loops : Go(j, w)
        BY <3>3, WaitStays
      <4>2. w = "done"
        BY <2>1, <4>1 DEF Go, IInv, Clean, Typed
      <4> QED  BY <4>2 DEF Loops
    <3>4. CASE ~LoopEnds(j) /\ ~Waited(j)
      BY <2>1, <3>2, <3>4
         DEF Goes, Waited, RequestFails, Advance, FullScrape, NotResolved, TargetNotFound, Apologised, DeepFlood, DeepResume,
             Finish, ReportFails, ReportWeb, NextGroup, ScanFails, At, Go, IInv, Clean, Typed
    <3> QED  BY <3>1, <3>3, <3>4
  <2>3. SavedReport(j) /\ conn' = [conn EXCEPT ![on[j]] = "closed"]
    BY <2>2 DEF ReportAttack, LetGo, BulkEnds, ScanEnds
  <2>4. on[j] \in Clients
    BY <2>2 DEF ReportAttack, BulkEnds, ScanEnds, At, IInv, Clean, Assigned
  <2> QED  BY <2>1, <2>3, <2>4, SavesMore DEF SavedReport, IInv, Clean, Typed
<1> QED  BY <1>5, <1>6

LEMMA StoredAsk ==
  ASSUME IInv, Stored, Ask
  PROVE  Stored'
<1>1. /\ UNCHANGED <<found, saved>>
      /\ \A c \in Clients : conn[c] = "closed" => conn'[c] = "closed"
  BY AskFrame
<1>2. \A i \in Jobs : \/ pc'[i] = pc[i] /\ kind'[i] = kind[i] /\ on'[i] = on[i]
                      \/ pc'[i] # "done"
  <2>1. ASSUME NEW j \in Jobs, NEW c \in Clients, NEW k, NEW g, NEW where,
               Begin(j, k, c, g, where), where \in {"start", "next", "apology", "failed", "scan"}
        PROVE  <1>2!:
    BY <2>1, BeginFrame
  <2> QED  BY <2>1, AskFrame
<1> SUFFICES ASSUME NEW i \in Jobs, pc'[i] = "done", kind'[i] # "web"
             PROVE  conn'[on'[i]] = "closed" /\ found[on'[i]] \subseteq saved \cup OnRecord
  BY <1>1 DEF Stored, At
<1>3. pc[i] = "done" /\ kind[i] # "web" /\ on'[i] = on[i] /\ on[i] \in Clients
  BY <1>2 DEF IInv, Clean, Assigned
<1> QED  BY <1>1, <1>3 DEF Stored, At

LEMMA StoredStep == IInv /\ Stored /\ [Next]_vars => Stored'
<1> SUFFICES ASSUME IInv, Stored, [Next]_vars PROVE Stored'
  OBVIOUS
<1>1. CASE UNCHANGED vars
  BY <1>1 DEF vars, scraper, job, history, Stored, At
<1> QED  BY <1>1, StoredTurn, StoredAdvance, StoredAsk DEF Next, Goes

(* A job of the menu or the background that ended well has stored everybody  *)
(* it found who may be stored, for any users, groups, clients and jobs (the  *)
(* proof does not need that no other job used the client).                   *)
THEOREM SavedCorrect == Spec => []FoundIsSaved
<1>1. Init => Stored
  BY DEF Init, Stored, At
<1>2. Stored => FoundIsSaved
  BY DEF Stored, FoundIsSaved
<1> QED  BY <1>1, <1>2, ScrapeInvariant, StoredStep, PTL DEF Spec
=============================================================================
