------------------------------- MODULE Accounts -------------------------------
(***************************************************************************)
(* The life of a saved account: the three-step login of the mini app       *)
(* (account_login.py), the login dialog of the Telegram menu, the upload   *)
(* of a session file, the connection with a saved account, its deletion,   *)
(* and the session that goes with it: a file on disk, which a restart of   *)
(* the host wipes, and its backup in the account's row.                    *)
(*                                                                         *)
(* A session is named by the client that made it.  A request is one call   *)
(* of a handler, from its first statement to its return; between two       *)
(* awaits it is one action.  Requests of the mini app run on the web       *)
(* thread's loop, the others on the bot's loop.  Answers of Telegram and   *)
(* failures of the disk are choices.                                       *)
(*                                                                         *)
(* Left out: what phone numbers look like, WAL files, the code and the     *)
(* password themselves, and who holds an account busy (AccountUse): here   *)
(* busy is only what a connected menu operation marks.                     *)
(***************************************************************************)
EXTENDS FiniteSets

CONSTANTS
  Phones,
  Clients,    \* clients of Telegram: each login and each upload has its own
  Requests,   \* calls in flight
  NoPhone,
  NoClient

ASSUME NoPhoneAssumption == NoPhone \notin Phones
ASSUME NoClientAssumption == NoClient \notin Clients

VARIABLES
  row,      \* phones with a row in saved_accounts_tbl
  blob,     \* session_data of the row
  disk,     \* saved_sessions/acc_<phone>.session
  busy,     \* phones marked by a connected menu operation
  conn,     \* state of a client
  signed,   \* clients whose login Telegram has accepted
  owner,    \* the phone a client was made for
  sent,     \* clients of session files that the user sent
  pending,  \* account_login._pending: the client that waits for a code
  old,      \* clients whose entry in _pending is older than _SESSION_TTL
  step,     \* atk_state["step"] of the login dialog
  dphone,   \* atk_state["phone"]
  dclient,  \* atk_state["new_acc_client"], atk_state["new_client"]
  pc, phone, client, snap   \* of a request: where it awaits, its locals

stores  == <<row, blob, disk, busy>>
clients == <<conn, signed, owner, sent>>
web     == <<pending, old>>
dialog  == <<step, dphone, dclient>>
request == <<pc, phone, client, snap>>
vars    == <<stores, clients, web, dialog, request>>

Steps == {"none", "phone", "code", "2fa"}

WebPCs  == {"sending", "signing", "checking", "saving", "moving", "kept", "unkept"}
MenuPCs == {"mSending", "mSigning", "mChecking", "mSaving", "mClosing"}
OtherPCs == {"verifying", "connecting", "retrying", "using", "restoring"}

(* Every variable keeps its type: the base of the proofs. *)
TypeOK ==
  /\ row \subseteq Phones /\ busy \subseteq Phones
  /\ blob \in [Phones -> Clients \cup {NoClient}]
  /\ disk \in [Phones -> Clients \cup {NoClient}]
  /\ conn \in [Clients -> {"unused", "open", "closed"}]
  /\ signed \subseteq Clients /\ old \subseteq Clients /\ sent \subseteq Clients
  /\ owner \in [Clients -> Phones \cup {NoPhone}]
  /\ pending \in [Phones -> Clients \cup {NoClient}]
  /\ step \in Steps
  /\ dphone \in Phones \cup {NoPhone}
  /\ dclient \in Clients \cup {NoClient}
  /\ pc \in [Requests -> {"idle"} \cup WebPCs \cup MenuPCs \cup OtherPCs]
  /\ phone \in [Requests -> Phones \cup {NoPhone}]
  /\ client \in [Requests -> Clients \cup {NoClient}]
  /\ snap \in [Requests -> SUBSET Phones]
  /\ \A q \in Requests : pc[q] = "idle" <=> phone[q] = NoPhone

Init ==
  /\ row = {} /\ busy = {}
  /\ blob = [p \in Phones |-> NoClient]
  /\ disk = [p \in Phones |-> NoClient]
  /\ conn = [c \in Clients |-> "unused"]
  /\ signed = {} /\ old = {} /\ sent = {}
  /\ owner = [c \in Clients |-> NoPhone]
  /\ pending = [p \in Phones |-> NoClient]
  /\ step = "none" /\ dphone = NoPhone /\ dclient = NoClient
  /\ pc = [q \in Requests |-> "idle"]
  /\ phone = [q \in Requests |-> NoPhone]
  /\ client = [q \in Requests |-> NoClient]
  /\ snap = [q \in Requests |-> {}]

-----------------------------------------------------------------------------
(* Moves of a request. *)
At(q, where) == pc[q] = where
Go(q, where) == pc' = [pc EXCEPT ![q] = where]
Await(q, where, p, c) ==
  /\ Go(q, where)
  /\ phone' = [phone EXCEPT ![q] = p]
  /\ client' = [client EXCEPT ![q] = c]
Stay == UNCHANGED <<phone, client>>
Return(q) ==
  /\ Await(q, "idle", NoPhone, NoClient)
  /\ snap' = [snap EXCEPT ![q] = {}]

(* _purge_expired: entries past their time go, and their clients close. *)
Live(p) == pending[p] # NoClient /\ pending[p] \notin old
Purged == [p \in Phones |-> IF Live(p) THEN pending[p] ELSE NoClient]
Expired == {pending[p] : p \in Phones} \cap old
Closed(cs) == [c \in Clients |-> IF c \in cs THEN "closed" ELSE conn[c]]

(* A backup writes the file that is on disk into the row, if both exist. *)
Backup(p) ==
  IF p \in row' /\ disk'[p] # NoClient THEN [blob EXCEPT ![p] = disk'[p]] ELSE blob

(* Deleting a row deletes its session_data. *)
WithoutRow(p) == row' = row \ {p} /\ blob' = [blob EXCEPT ![p] = NoClient]
NoFile(p) == disk' = [disk EXCEPT ![p] = NoClient]
File(p, c) == disk' = [disk EXCEPT ![p] = c]

-----------------------------------------------------------------------------
(* The login of the mini app. *)

(* start, up to connect.  The row is looked for first, the purge comes next. *)
StartAsk(q, p, c) ==
  /\ At(q, "idle") /\ p \notin row
  /\ pending' = Purged
  /\ old' = old \ Expired
  /\ IF Purged[p] # NoClient
       THEN /\ conn' = Closed(Expired)
            /\ UNCHANGED <<owner, request>>
       ELSE /\ conn[c] = "unused"
            /\ conn' = [Closed(Expired) EXCEPT ![c] = "open"]
            /\ owner' = [owner EXCEPT ![c] = p]
            /\ Await(q, "sending", p, c) /\ UNCHANGED snap
  /\ UNCHANGED <<stores, signed, sent, dialog>>

(* The code is sent and the entry stored; an entry that another start has  *)
(* stored meanwhile is overwritten.                                        *)
StartSent(q) ==
  /\ At(q, "sending") /\ conn[client[q]] = "open"
  /\ pending' = [pending EXCEPT ![phone[q]] = client[q]]
  /\ Return(q)
  /\ UNCHANGED <<stores, clients, old, dialog>>

(* Telegram sends no code: an empty answer closes the client, an exception *)
(* does not.                                                               *)
StartFails(q) ==
  /\ At(q, "sending")
  /\ conn' \in {Closed({client[q]}), conn}
  /\ Return(q)
  /\ UNCHANGED <<stores, signed, owner, sent, web, dialog>>

(* submit_code and submit_password, up to the request to Telegram. *)
SubmitAsk(q, p, where) ==
  /\ At(q, "idle")
  /\ pending' = Purged
  /\ old' = old \ Expired
  /\ conn' = Closed(Expired)
  /\ IF Purged[p] = NoClient
       THEN UNCHANGED request
       ELSE Await(q, where, p, Purged[p]) /\ UNCHANGED snap
  /\ UNCHANGED <<stores, signed, owner, sent, dialog>>
CodeAsk(q, p) == SubmitAsk(q, p, "signing")
PasswordAsk(q, p) == SubmitAsk(q, p, "checking")

(* SessionPasswordNeeded: the entry gets five minutes more. *)
NeedPassword(q) ==
  /\ At(q, "signing") /\ conn[client[q]] = "open"
  /\ old' = old \ {client[q]}
  /\ Return(q)
  /\ UNCHANGED <<stores, clients, pending, dialog>>

(* Wrong code or wrong password: the user may try again. *)
WrongAnswer(q) ==
  /\ At(q, "signing") \/ At(q, "checking")
  /\ Return(q)
  /\ UNCHANGED <<stores, clients, web, dialog>>

FinishClosesOnly(p) ==
  /\ conn' = Closed({pending[p]})
  /\ UNCHANGED web
(* _finish(phone): whatever entry the phone has now goes and is closed. *)
Finish(p) ==
  /\ pending' = [pending EXCEPT ![p] = NoClient]
  /\ old' = old \ {pending[p]}
  /\ conn' = Closed({pending[p]})

SubmitFails(q) ==
  /\ At(q, "signing") \/ At(q, "checking")
  /\ Finish(phone[q])
  /\ Return(q)
  /\ UNCHANGED <<stores, signed, owner, sent, dialog>>

(* Telegram accepts.  _persist(phone) then looks the entry up again.       *)
SignedIn(q) ==
  /\ At(q, "signing") \/ At(q, "checking")
  /\ conn[client[q]] = "open"
  /\ signed' = signed \cup {client[q]}
  /\ IF pending[phone[q]] = NoClient
       THEN Return(q)
       ELSE Await(q, "saving", phone[q], pending[phone[q]]) /\ UNCHANGED snap
  /\ UNCHANGED <<stores, conn, owner, sent, web, dialog>>

(* _persist: get_me answers only a client that is signed in; then the row. *)
PersistableOpen(c) == conn[c] = "open"
Persistable(c) == c \in signed /\ conn[c] = "open"
SaveRow(q) ==
  /\ At(q, "saving") /\ Persistable(client[q])
  /\ row' = row \cup {phone[q]}
  /\ Go(q, "moving") /\ Stay
  /\ UNCHANGED <<blob, disk, busy, clients, web, dialog, snap>>
SaveFails(q) ==
  /\ At(q, "saving")
  /\ Finish(phone[q])
  /\ Return(q)
  /\ UNCHANGED <<stores, signed, owner, sent, dialog>>

(* persist_to_permanent, whose errors are swallowed; then the disconnect. *)
Move(q) ==
  /\ At(q, "moving")
  /\ File(phone[q], client[q]) \/ UNCHANGED disk
  /\ conn' = Closed({client[q]})
  /\ Go(q, IF disk'[phone[q]] # NoClient THEN "kept" ELSE "unkept") /\ Stay
  /\ UNCHANGED <<row, blob, busy, signed, owner, sent, web, dialog, snap>>

(* The other way to move the file, when the first did not work. *)
MoveAgain(q) ==
  /\ At(q, "unkept")
  /\ File(phone[q], client[q])
  /\ Go(q, "kept") /\ Stay
  /\ UNCHANGED <<row, blob, busy, clients, web, dialog, snap>>

(* No file: the account is taken back.  *)
NotKept(q) ==
  /\ At(q, "kept") \/ At(q, "unkept")
  /\ disk[phone[q]] = NoClient
  /\ Finish(phone[q])
  /\ WithoutRow(phone[q])
  /\ Return(q)
  /\ UNCHANGED <<disk, busy, signed, owner, sent, dialog>>

(* A file: backup, the entry goes, success is reported. *)
LoginDone(q) ==
  /\ At(q, "kept") /\ disk[phone[q]] # NoClient
  /\ UNCHANGED <<row, disk, busy>>
  /\ blob' \in {Backup(phone[q]), blob}
  /\ pending' = [pending EXCEPT ![phone[q]] = NoClient]
  /\ old' = old \ {pending[phone[q]]}
  /\ Return(q)
  /\ UNCHANGED <<clients, dialog>>

Cancel(p) ==
  /\ Finish(p)
  /\ UNCHANGED <<stores, signed, owner, sent, dialog, request>>

(* Five minutes pass. *)
Age(p) ==
  /\ Live(p)
  /\ old' = old \cup {pending[p]}
  /\ UNCHANGED <<stores, clients, pending, dialog, request>>

WebLogin(q) ==
  \/ \E p \in Phones : CodeAsk(q, p) \/ PasswordAsk(q, p)
  \/ \E p \in Phones, c \in Clients : StartAsk(q, p, c)
  \/ StartSent(q) \/ StartFails(q)
  \/ NeedPassword(q) \/ WrongAnswer(q) \/ SubmitFails(q) \/ SignedIn(q)
  \/ SaveRow(q) \/ SaveFails(q) \/ Move(q) \/ MoveAgain(q)
  \/ NotKept(q) \/ LoginDone(q)

-----------------------------------------------------------------------------
(* The login dialog of the menu. *)

Clear == step' = "none" /\ dphone' = NoPhone /\ dclient' = NoClient

(* "add an account": newacc_ clears the dialog first, the button of the    *)
(* accounts menu does not.                                                 *)
MenuOpen ==
  /\ step' = "phone" /\ dphone' = NoPhone /\ dclient' = NoClient
  /\ UNCHANGED <<stores, clients, web, request>>
MenuOpenOver ==
  /\ step' = "phone" /\ UNCHANGED <<dphone, dclient>>
  /\ UNCHANGED <<stores, clients, web, request>>

(* Any button that leaves the dialog. *)
MenuHome ==
  /\ step # "none" /\ Clear
  /\ UNCHANGED <<stores, clients, web, request>>

(* The phone is stored at once, the step changes when the code was sent:   *)
(* meanwhile another message of the user is taken for a phone again.       *)
MenuPhone(q, p, c) ==
  /\ step = "phone" /\ At(q, "idle")
  /\ IF p \in row
       THEN Clear /\ UNCHANGED <<conn, owner, request>>
       ELSE /\ conn[c] = "unused"
            /\ conn' = [conn EXCEPT ![c] = "open"]
            /\ owner' = [owner EXCEPT ![c] = p]
            /\ dphone' = p /\ UNCHANGED <<step, dclient>>
            /\ Await(q, "mSending", p, c) /\ UNCHANGED snap
  /\ UNCHANGED <<stores, signed, sent, web>>

MenuSent(q) ==
  /\ At(q, "mSending")
  /\ dclient' = client[q] /\ step' = "code" /\ UNCHANGED dphone
  /\ Return(q)
  /\ UNCHANGED <<stores, clients, web>>

MenuSendFails(q) ==
  /\ At(q, "mSending") /\ Clear
  /\ Return(q)
  /\ UNCHANGED <<stores, clients, web>>

(* A code or a password: the handler takes client and phone of the dialog. *)
MenuAnswer(q, where) ==
  /\ At(q, "idle") /\ dclient # NoClient /\ dphone # NoPhone
  /\ Await(q, where, dphone, dclient) /\ UNCHANGED snap
  /\ UNCHANGED <<stores, clients, web, dialog>>
MenuCode(q) == step = "code" /\ MenuAnswer(q, "mSigning")
MenuPassword(q) == step = "2fa" /\ MenuAnswer(q, "mChecking")

MenuNeedPassword(q) ==
  /\ At(q, "mSigning") /\ step' = "2fa"
  /\ Return(q)
  /\ UNCHANGED <<stores, clients, web, dphone, dclient>>

(* Wrong: a new code is sent (nothing changes) or cannot be sent. *)
MenuWrong(q) ==
  /\ At(q, "mSigning") \/ At(q, "mChecking")
  /\ UNCHANGED dialog \/ (At(q, "mSigning") /\ Clear)
  /\ Return(q)
  /\ UNCHANGED <<stores, clients, web>>

(* sign_in is made with the phone of the dialog and the client's code: it  *)
(* is accepted only if they belong together.  A password has no phone.     *)
MenuSignedIn(q) ==
  /\ \/ At(q, "mSigning") /\ owner[client[q]] = phone[q]
     \/ At(q, "mChecking")
  /\ conn[client[q]] = "open"
  /\ signed' = signed \cup {client[q]}
  /\ Go(q, "mSaving") /\ Stay
  /\ UNCHANGED <<stores, conn, owner, sent, web, dialog, snap>>

(* persist_to_permanent moves the file to the name of the client's phone   *)
(* or fails unnoticed; the row is that of the dialog's phone.              *)
MovedUnderDialog(q) == phone[q]
MovedUnder(q) == owner[client[q]]
MenuSave(q) ==
  /\ At(q, "mSaving") /\ conn[client[q]] = "open"
  /\ File(MovedUnder(q), client[q]) \/ UNCHANGED disk
  /\ row' = row \cup {phone[q]}
  /\ Go(q, "mClosing") /\ Stay
  /\ UNCHANGED <<blob, busy, clients, web, dialog, snap>>

MenuDone(q) ==
  /\ At(q, "mClosing")
  /\ conn' = Closed({client[q]})
  /\ UNCHANGED <<row, disk, busy>>
  /\ blob' \in {Backup(phone[q]), blob}
  /\ Clear
  /\ Return(q)
  /\ UNCHANGED <<signed, owner, sent, web>>

(* An error before the row is written ends the handler, not the dialog. *)
MenuSaveFails(q) ==
  /\ At(q, "mSaving")
  /\ Return(q)
  /\ UNCHANGED <<stores, clients, web, dialog>>

MenuLogin(q) ==
  \/ \E p \in Phones, c \in Clients : MenuPhone(q, p, c)
  \/ MenuSent(q) \/ MenuSendFails(q) \/ MenuCode(q) \/ MenuPassword(q)
  \/ MenuNeedPassword(q) \/ MenuWrong(q) \/ MenuSignedIn(q)
  \/ MenuSave(q) \/ MenuSaveFails(q) \/ MenuDone(q)

-----------------------------------------------------------------------------
(* A session file sent by the user replaces the file on disk before it is  *)
(* verified.  It holds a login made elsewhere, or none.                    *)
Upload(q, p, c) ==
  /\ At(q, "idle") /\ conn[c] = "unused"
  /\ File(p, c)
  /\ conn' = [conn EXCEPT ![c] = "open"]
  /\ owner' = [owner EXCEPT ![c] = p]
  /\ signed' \in {signed, signed \cup {c}}
  /\ sent' = sent \cup {c}
  /\ Await(q, "verifying", p, c) /\ UNCHANGED snap
  /\ UNCHANGED <<row, blob, busy, web, dialog>>

UploadVerified(q) ==
  /\ At(q, "verifying") /\ client[q] \in signed
  /\ row' = row \cup {phone[q]}
  /\ UNCHANGED <<disk, busy>>
  /\ blob' \in {Backup(phone[q]), blob}
  /\ conn' = Closed({client[q]})
  /\ Return(q)
  /\ UNCHANGED <<signed, owner, sent, web, dialog>>

UploadRejected(q) ==
  /\ At(q, "verifying")
  /\ conn' = Closed({client[q]})
  /\ Return(q)
  /\ UNCHANGED <<stores, signed, owner, sent, web, dialog>>

-----------------------------------------------------------------------------
(* useacc_: connect with a saved account.  All rows are read first; the    *)
(* account gets an entry even when it is not among them (an old button).   *)
UseAccount(q, p) ==
  /\ At(q, "idle")
  /\ row' = row \cup {p}
  /\ snap' = [snap EXCEPT ![q] = row']
  /\ Await(q, "connecting", p, NoClient)
  /\ UNCHANGED <<blob, disk, busy, clients, web, dialog>>

Usable(p) == disk[p] \in signed

(* The connection stands and the account is marked. *)
UseConnected(q) ==
  /\ At(q, "connecting") \/ At(q, "retrying")
  /\ Usable(phone[q])
  /\ row' = IF At(q, "retrying") THEN row \cup snap[q] ELSE row
  /\ IF phone[q] \in busy
       THEN Return(q) /\ UNCHANGED busy
       ELSE /\ busy' = busy \cup {phone[q]}
            /\ Go(q, "using") /\ Stay /\ UNCHANGED snap
  /\ UNCHANGED <<blob, disk, clients, web, dialog>>

UseEnds(q) ==
  /\ At(q, "using")
  /\ busy' = busy \ {phone[q]}
  /\ Return(q)
  /\ UNCHANGED <<row, blob, disk, clients, web, dialog>>

(* An authorisation error, or a lost connection, is tried once more. *)
UseRetry(q) ==
  /\ At(q, "connecting")
  /\ Go(q, "retrying") /\ Stay
  /\ UNCHANGED <<stores, clients, web, dialog, snap>>

(* Any error of the second try deletes the account and its file, and       *)
(* writes the other accounts of the snapshot back.                         *)
UseBurns(q) ==
  /\ At(q, "retrying")
  /\ NoFile(phone[q])
  /\ row' = (row \cup snap[q]) \ {phone[q]}
  /\ blob' = [blob EXCEPT ![phone[q]] = NoClient]
  /\ Return(q)
  /\ UNCHANGED <<busy, clients, web, dialog>>

(* Another error of the first try changes nothing. *)
UseFails(q) ==
  /\ At(q, "connecting")
  /\ Return(q)
  /\ UNCHANGED <<stores, clients, web, dialog>>

-----------------------------------------------------------------------------
(* delete_account_fully refuses an account that is busy and one it does    *)
(* not know; the menu's acc_del_ asks neither.                             *)
Delete(p) ==
  /\ NoFile(p) /\ WithoutRow(p)
  /\ UNCHANGED <<clients, web, dialog, request>>
WebDelete(p) == p \in row \ busy /\ Delete(p) /\ UNCHANGED busy
MenuDelete(p) == Delete(p) /\ UNCHANGED busy

(* ensure_session, restore_session_from_db: the file is looked for, the    *)
(* backup is read, and the file is written by one thread while the other   *)
(* goes on.                                                                *)
EnsureAsk(q, p) ==
  /\ At(q, "idle") /\ disk[p] = NoClient /\ blob[p] # NoClient
  /\ Await(q, "restoring", p, blob[p]) /\ UNCHANGED snap
  /\ UNCHANGED <<stores, clients, web, dialog>>
Restore(q) ==
  /\ At(q, "restoring")
  /\ File(phone[q], client[q])
  /\ Return(q)
  /\ UNCHANGED <<row, blob, busy, clients, web, dialog>>

(* backup_session after an operation that used the account. *)
BackupSession(p) ==
  /\ p \in busy /\ disk[p] # NoClient /\ p \in row
  /\ blob' = [blob EXCEPT ![p] = disk[p]]
  /\ UNCHANGED <<row, disk, busy, clients, web, dialog, request>>

(* The host restarts the process and wipes its disk. *)
Restart ==
  /\ disk' = [p \in Phones |-> NoClient]
  /\ busy' = {} /\ old' = {}
  /\ conn' = [c \in Clients |-> IF conn[c] = "open" THEN "closed" ELSE conn[c]]
  /\ pending' = [p \in Phones |-> NoClient]
  /\ Clear
  /\ pc' = [q \in Requests |-> "idle"]
  /\ phone' = [q \in Requests |-> NoPhone]
  /\ client' = [q \in Requests |-> NoClient]
  /\ snap' = [q \in Requests |-> {}]
  /\ UNCHANGED <<row, blob, signed, owner, sent>>

Files(q) ==
  \/ \E p \in Phones, c \in Clients : Upload(q, p, c)
  \/ UploadVerified(q) \/ UploadRejected(q)
  \/ \E p \in Phones : UseAccount(q, p) \/ EnsureAsk(q, p)
  \/ UseConnected(q) \/ UseEnds(q) \/ UseRetry(q) \/ UseBurns(q) \/ UseFails(q)
  \/ Restore(q)

Next ==
  \/ \E q \in Requests : WebLogin(q) \/ MenuLogin(q) \/ Files(q)
  \/ \E p \in Phones : Cancel(p) \/ Age(p) \/ WebDelete(p) \/ MenuDelete(p) \/ BackupSession(p)
  \/ MenuOpen \/ MenuOpenOver \/ MenuHome \/ Restart

Spec == Init /\ [][Next]_vars

-----------------------------------------------------------------------------
(* Properties. *)

(* An entry that makes start refuse a second code for its phone can still  *)
(* be completed: its client is connected, or a request is just saving it.  *)
(* Requests, expiry, cancel and the delayed answers of earlier requests    *)
(* all remove entries and close clients, and _persist closes before it     *)
(* removes (account_login.py 71-357).                                      *)
Storing(q, c) == pc[q] \in {"kept", "unkept"} /\ client[q] = c
PendingIsUsable ==
  \A p \in Phones :
    \/ pending[p] = NoClient
    \/ conn[pending[p]] = "open"
    \/ \E q \in Requests : Storing(q, pending[p])

(* A session that a login stored, on disk or as a backup, is one Telegram  *)
(* has accepted.  _persist stores whatever entry the phone has when it     *)
(* looks: after an expiry and a second start that is a client still        *)
(* waiting for its code, and only the get_me before the save tells them    *)
(* apart (account_login.py 236-244).  Files the user sent are exempt.      *)
StoredIsSignedIn ==
  \A p \in Phones : {disk[p], blob[p]} \subseteq signed \cup sent \cup {NoClient}

(* A session is stored under the phone it logs in, although the dialog of  *)
(* the menu can hold the phone of one login and the client of another, and *)
(* backups, restores and snapshots go by phone (attacker.py 157-189).      *)
StoredIsOwn ==
  \A p \in Phones : \A c \in {disk[p], blob[p]} \ {NoClient} : owner[c] = p
=============================================================================
