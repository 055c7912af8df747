---------------------------- MODULE AccountsProofs ----------------------------
(***************************************************************************)
(* Proofs about saved accounts, for any phones, clients and requests: a    *)
(* stored session is its phone's own and accepted by Telegram, and an      *)
(* entry that waits for a code can still be completed.                     *)
(*                                                                         *)
(* All rest on whose client is where.  A client is made for one phone and  *)
(* keeps it; entries, requests of the mini app, files and backups only     *)
(* ever name a client under its own phone.  The dialog of the menu does    *)
(* not keep to that, but never gets hold of a client of the mini app.      *)
(***************************************************************************)
EXTENDS Accounts, TLAPS

Made(c) == c \in Clients /\ conn[c] # "unused"
Own(p, c) == Made(c) /\ owner[c] = p

(* What an entry, a file or a backup, and the dialog may hold. *)
EntriesOwn == \A p \in Phones : pending[p] = NoClient \/ Own(p, pending[p])
StoredRight ==
  \A p \in Phones : \A c \in {disk[p], blob[p]} \ {NoClient} :
    Own(p, c) /\ c \in signed \cup sent
DialogMade == dclient = NoClient \/ Made(dclient)

(* What a request holds where it awaits. *)
Right(q) ==
  /\ pc[q] \in WebPCs \cup {"verifying", "restoring"} => Own(phone[q], client[q])
  /\ pc[q] \in MenuPCs => Made(client[q])
  /\ pc[q] \in {"moving", "kept", "unkept", "mSaving", "mClosing"} => client[q] \in signed
  /\ At(q, "restoring") => client[q] \in signed \cup sent
RequestsRight == \A q \in Requests : Right(q)

(* A client whose code is being asked for is with that request alone, and  *)
(* a client of the menu or of an upload is in no entry.                    *)
Entered(c) == \E p \in Phones : pending[p] = c
Asking(c) == \E q \in Requests : At(q, "sending") /\ client[q] = c
Elsewhere(q) == pc[q] \in MenuPCs \cup {"verifying"}
Apart ==
  /\ \A q \in Requests : At(q, "sending") =>
       /\ ~Entered(client[q])
       /\ \A r \in Requests \ {q} : At(r, "sending") => client[r] # client[q]
  /\ \A q \in Requests : Elsewhere(q) => ~Entered(client[q]) /\ ~Asking(client[q])
  /\ dclient # NoClient => ~Entered(dclient) /\ ~Asking(dclient)

IInv ==
  /\ TypeOK /\ EntriesOwn /\ StoredRight /\ DialogMade
  /\ RequestsRight /\ Apart /\ PendingIsUsable

LEMMA InitHolds == Init => IInv
  BY SMTT(30), NoClientAssumption DEF Init, IInv, TypeOK, EntriesOwn, StoredRight,
     DialogMade, RequestsRight, Right, Apart, Elsewhere, PendingIsUsable, Steps, WebPCs, MenuPCs, At

-----------------------------------------------------------------------------
(* Every step keeps the invariant.  Most need of the action only what it   *)
(* does to one request, one phone and one client, so the vocabulary of     *)
(* Accounts and the parts of the invariant are expanded throughout.        *)
USE NoClientAssumption, NoPhoneAssumption
USE DEF IInv, TypeOK, EntriesOwn, StoredRight, DialogMade, RequestsRight, Apart, PendingIsUsable
USE DEF Made, Own, Right, Entered, Asking, Elsewhere, Storing, WebPCs, MenuPCs, OtherPCs, Steps
USE DEF At, Go, Await, Stay, Return, Closed, Live, Purged, Expired, Finish
USE DEF stores, clients, web, dialog, request

(* A start: either only old entries go, or a client is made that nothing   *)
(* names yet.                                                              *)
LEMMA StartAskKeeps ==
  ASSUME IInv, NEW q \in Requests, NEW p \in Phones, NEW c \in Clients, StartAsk(q, p, c)
  PROVE  IInv'
<1>1. CASE Purged[p] # NoClient
  BY <1>1 DEF StartAsk
<1>2. CASE Purged[p] = NoClient
  <2>1. /\ conn[c] = "unused" /\ conn' = [Closed(Expired) EXCEPT ![c] = "open"]
        /\ pending' = Purged /\ old' = old \ Expired
        /\ owner' = [owner EXCEPT ![c] = p]
        /\ pc' = [pc EXCEPT ![q] = "sending"]
        /\ phone' = [phone EXCEPT ![q] = p] /\ client' = [client EXCEPT ![q] = c]
        /\ UNCHANGED <<stores, signed, sent, dialog, snap>>
    BY <1>2 DEF StartAsk
  <2>2. \A x \in Phones : pending[x] # c
    BY <2>1
  <2>3. \A x \in Phones :
          pending'[x] = NoClient \/ (pending'[x] = pending[x] /\ pending[x] \notin old)
    BY <2>1
  <2>4. \A d \in Clients :
          conn[d] # "unused" => d # c /\ conn'[d] # "unused" /\ owner'[d] = owner[d]
    BY <2>1
  <2>5. TypeOK'
    BY <2>1
  <2>6. EntriesOwn' /\ StoredRight' /\ DialogMade'
    BY <2>1, <2>3, <2>4
  <2>7. RequestsRight'
    BY <2>1, <2>4
  <2>8. Apart'
    BY <2>1, <2>2, <2>3
  <2>9. PendingIsUsable'
    <3>1. ASSUME NEW x \in Phones, pending'[x] # NoClient, conn[pending[x]] = "open"
          PROVE  conn'[pending'[x]] = "open"
      BY <2>1, <2>2, <2>3, <3>1
    <3>2. ASSUME NEW x \in Phones, pending'[x] # NoClient,
                 NEW r \in Requests, Storing(r, pending[x])
          PROVE  pc'[r] \in {"kept", "unkept"} /\ client'[r] = pending'[x]
      BY <1>2, <2>3, <3>2 DEF StartAsk
    <3> QED  BY <2>3, <3>1, <3>2
  <2> QED  BY <2>5, <2>6, <2>7, <2>8, <2>9
<1> QED  BY <1>1, <1>2

LEMMA SubmitAskKeeps ==
  ASSUME IInv, NEW q \in Requests, NEW p \in Phones, NEW where \in {"signing", "checking"},
         SubmitAsk(q, p, where)
  PROVE  IInv'
<1>1. CASE Purged[p] = NoClient
  BY <1>1 DEF SubmitAsk
<1>2. CASE Purged[p] # NoClient
  <2>1. /\ client'[q] = pending[p] /\ phone'[q] = p /\ pc'[q] = where
        /\ pending[p] # NoClient /\ pending[p] \notin old
        /\ \A r \in Requests \ {q} : pc'[r] = pc[r] /\ phone'[r] = phone[r]
    BY <1>2 DEF SubmitAsk
  <2>2. TypeOK'
    <3>1. \A r \in Requests : pc'[r] = "idle" <=> phone'[r] = NoPhone
      BY <2>1
    <3> QED  BY <1>2, <3>1 DEF SubmitAsk
  <2>3. EntriesOwn' /\ StoredRight' /\ DialogMade' /\ RequestsRight'
    BY <1>2, <2>1 DEF SubmitAsk
  <2>4. Apart'
    BY <1>2, <2>1 DEF SubmitAsk
  <2>5. PendingIsUsable'
    BY <1>2, <2>1 DEF SubmitAsk
  <2> QED  BY <2>2, <2>3, <2>4, <2>5
<1> QED  BY <1>1, <1>2

LEMMA MenuPhoneKeeps ==
  ASSUME IInv, NEW q \in Requests, NEW p \in Phones, NEW c \in Clients, MenuPhone(q, p, c)
  PROVE  IInv'
<1>1. CASE p \in row
  BY <1>1 DEF MenuPhone, Clear
<1>2. CASE p \notin row
  <2>1. TypeOK'
    <3>1. \A r \in Requests : pc'[r] = "idle" <=> phone'[r] = NoPhone
      BY <1>2 DEF MenuPhone
    <3>2. pc' \in [Requests -> {"idle"} \cup WebPCs \cup MenuPCs \cup OtherPCs]
      BY <1>2 DEF MenuPhone
    <3>3. /\ phone' = [phone EXCEPT ![q] = p] /\ client' = [client EXCEPT ![q] = c]
          /\ conn' = [conn EXCEPT ![c] = "open"] /\ owner' = [owner EXCEPT ![c] = p]
          /\ dphone' = p
      BY <1>2 DEF MenuPhone
    <3>4. UNCHANGED <<stores, web, signed, sent, step, dclient, snap>>
      BY <1>2 DEF MenuPhone
    <3> QED  BY <3>1, <3>2, <3>3, <3>4
  <2>2. EntriesOwn' /\ StoredRight' /\ DialogMade' /\ RequestsRight'
    BY <1>2 DEF MenuPhone
  <2>3. Apart' /\ PendingIsUsable'
    BY <1>2 DEF MenuPhone
  <2> QED  BY <2>1, <2>2, <2>3
<1> QED  BY <1>1, <1>2

(* The login of the mini app. *)
LEMMA WebLoginKeeps ==
  ASSUME IInv, NEW q \in Requests, WebLogin(q)
  PROVE  IInv'
<1>1. ASSUME NEW p \in Phones, CodeAsk(q, p) PROVE IInv'
  BY <1>1, SubmitAskKeeps DEF CodeAsk
<1>2. ASSUME NEW p \in Phones, PasswordAsk(q, p) PROVE IInv'
  BY <1>2, SubmitAskKeeps DEF PasswordAsk
<1>3. ASSUME NEW p \in Phones, NEW c \in Clients, StartAsk(q, p, c) PROVE IInv'
  BY <1>3, StartAskKeeps
<1>4. CASE StartSent(q)
  BY <1>4 DEF StartSent
<1>5. CASE StartFails(q)
  BY <1>5 DEF StartFails
<1>6. CASE NeedPassword(q)
  BY <1>6 DEF NeedPassword
<1>7. CASE WrongAnswer(q)
  BY <1>7 DEF WrongAnswer
<1>8. CASE SubmitFails(q)
  BY <1>8 DEF SubmitFails
<1>9. CASE SignedIn(q)
  BY SMTT(30), <1>9 DEF SignedIn
<1>10. CASE SaveRow(q)
  BY <1>10 DEF SaveRow, Persistable
<1>11. CASE SaveFails(q)
  BY <1>11 DEF SaveFails
<1>12. CASE Move(q)
  BY <1>12 DEF Move, File
<1>13. CASE MoveAgain(q)
  BY <1>13 DEF MoveAgain, File
<1>14. CASE NotKept(q)
  BY <1>14 DEF NotKept, WithoutRow
<1>15. CASE LoginDone(q)
  BY <1>15 DEF LoginDone, Backup
<1> QED
  BY <1>1, <1>2, <1>3, <1>4, <1>5, <1>6, <1>7, <1>8, <1>9, <1>10, <1>11, <1>12, <1>13, <1>14, <1>15
  DEF WebLogin

(* The login dialog of the menu. *)
LEMMA MenuLoginKeeps ==
  ASSUME IInv, NEW q \in Requests, MenuLogin(q)
  PROVE  IInv'
<1>1. ASSUME NEW p \in Phones, NEW c \in Clients, MenuPhone(q, p, c) PROVE IInv'
  BY <1>1, MenuPhoneKeeps
<1>2. CASE MenuSent(q)
  BY <1>2 DEF MenuSent
<1>3. CASE MenuSendFails(q)
  BY <1>3 DEF MenuSendFails, Clear
<1>4. CASE MenuCode(q)
  BY <1>4 DEF MenuCode, MenuAnswer
<1>5. CASE MenuPassword(q)
  BY <1>5 DEF MenuPassword, MenuAnswer
<1>6. CASE MenuNeedPassword(q)
  BY <1>6 DEF MenuNeedPassword
<1>7. CASE MenuWrong(q)
  BY <1>7 DEF MenuWrong, Clear
<1>8. CASE MenuSignedIn(q)
  BY <1>8 DEF MenuSignedIn
<1>9. CASE MenuSave(q)
  BY <1>9 DEF MenuSave, File, MovedUnder
<1>10. CASE MenuSaveFails(q)
  BY <1>10 DEF MenuSaveFails
<1>11. CASE MenuDone(q)
  BY <1>11 DEF MenuDone, Clear, Backup
<1> QED
  BY <1>1, <1>2, <1>3, <1>4, <1>5, <1>6, <1>7, <1>8, <1>9, <1>10, <1>11
  DEF MenuLogin

(* Uploads, connections with saved accounts, restored backups. *)
LEMMA FilesKeep ==
  ASSUME IInv, NEW q \in Requests, Files(q)
  PROVE  IInv'
<1>1. ASSUME NEW p \in Phones, NEW c \in Clients, Upload(q, p, c) PROVE IInv'
  BY <1>1 DEF Upload, File
<1>2. CASE UploadVerified(q)
  BY <1>2 DEF UploadVerified, Backup
<1>3. CASE UploadRejected(q)
  BY <1>3 DEF UploadRejected
<1>4. ASSUME NEW p \in Phones, UseAccount(q, p) PROVE IInv'
  BY <1>4 DEF UseAccount
<1>5. ASSUME NEW p \in Phones, EnsureAsk(q, p) PROVE IInv'
  BY <1>5 DEF EnsureAsk
<1>6. CASE UseConnected(q)
  BY SMTT(30), <1>6 DEF UseConnected, Usable
<1>7. CASE UseEnds(q)
  BY <1>7 DEF UseEnds
<1>8. CASE UseRetry(q)
  BY <1>8 DEF UseRetry
<1>9. CASE UseBurns(q)
  BY <1>9 DEF UseBurns, NoFile
<1>10. CASE UseFails(q)
  BY <1>10 DEF UseFails
<1>11. CASE Restore(q)
  BY <1>11 DEF Restore, File
<1> QED
  BY <1>1, <1>2, <1>3, <1>4, <1>5, <1>6, <1>7, <1>8, <1>9, <1>10, <1>11
  DEF Files

LEMMA NextKeeps == IInv /\ [Next]_vars => IInv'
<1> SUFFICES ASSUME IInv, [Next]_vars PROVE IInv'
  OBVIOUS
<1>1. ASSUME NEW q \in Requests, WebLogin(q) \/ MenuLogin(q) \/ Files(q) PROVE IInv'
  BY <1>1, WebLoginKeeps, MenuLoginKeeps, FilesKeep
<1>2. ASSUME NEW p \in Phones, Cancel(p) \/ Age(p) PROVE IInv'
  BY <1>2 DEF Cancel, Age
<1>3. ASSUME NEW p \in Phones, WebDelete(p) \/ MenuDelete(p) PROVE IInv'
  BY <1>3 DEF WebDelete, MenuDelete, Delete, NoFile, WithoutRow
<1>4. ASSUME NEW p \in Phones, BackupSession(p) PROVE IInv'
  BY <1>4 DEF BackupSession
<1>5. CASE MenuOpen \/ MenuOpenOver \/ MenuHome
  BY <1>5 DEF MenuOpen, MenuOpenOver, MenuHome, Clear
<1>6. CASE Restart
  BY <1>6 DEF Restart, Clear
<1>7. CASE UNCHANGED vars
  BY <1>7 DEF vars
<1> QED  BY <1>1, <1>2, <1>3, <1>4, <1>5, <1>6, <1>7 DEF Next

-----------------------------------------------------------------------------
(* Types of the account model. *)
THEOREM AccountsTypeCorrect == Spec => []TypeOK
<1>1. Init => IInv  BY InitHolds
<1>2. IInv /\ [Next]_vars => IInv'  BY NextKeeps
<1>3. IInv => TypeOK  BY DEF IInv
<1> QED  BY <1>1, <1>2, <1>3, PTL DEF Spec

(* An entry that makes start refuse a second code can still be completed,  *)
(* or is being stored (account_login.py 71-357).                           *)
THEOREM PendingCorrect == Spec => []PendingIsUsable
<1>1. Init => IInv  BY InitHolds
<1>2. IInv /\ [Next]_vars => IInv'  BY NextKeeps
<1>3. IInv => PendingIsUsable  BY DEF IInv
<1> QED  BY <1>1, <1>2, <1>3, PTL DEF Spec

(* What a login stored, as a file or as a backup, Telegram has accepted    *)
(* (account_login.py 236-312, session_store.py 31-108).                    *)
THEOREM StoredCorrect == Spec => []StoredIsSignedIn
<1>1. Init => IInv  BY InitHolds
<1>2. IInv /\ [Next]_vars => IInv'  BY NextKeeps
<1>3. IInv => StoredIsSignedIn  BY DEF IInv, StoredIsSignedIn
<1> QED  BY <1>1, <1>2, <1>3, PTL DEF Spec

(* A session lies under the phone it logs in, whatever the dialog of the   *)
(* menu mixes up (attacker.py 157-189).                                    *)
THEOREM OwnStored == Spec => []StoredIsOwn
<1>1. Init => IInv  BY InitHolds
<1>2. IInv /\ [Next]_vars => IInv'  BY NextKeeps
<1>3. IInv => StoredIsOwn  BY DEF IInv, StoredIsOwn
<1> QED  BY <1>1, <1>2, <1>3, PTL DEF Spec
===============================================================================
