--------------------------------- MODULE Books ---------------------------------
(* Equipment books and CLIENT logins (server/equipment.py, service.py): an  *)
(* operator chooses targets by the books the console has loaded, or one by  *)
(* one, and types passwords into a dialog, while others edit the inventory  *)
(* and the books.  SERVER checks again when the job is submitted and when a *)
(* target is connected to.                                                  *)
EXTENDS Naturals, FiniteSets

CONSTANTS
  Hosts, Addresses, BookIds,
  MaxEdits,        \* bound: edits of the inventory and of books
  MaxSaves,        \* bound: passwords saved
  None

VARIABLES
  inventory,       \* address of a host, None if it is not listed
  books,           \* equipment-books.json.enc: hosts of a book, {} if there is none
  credentials,     \* client-credentials.json.enc: the address of a record and its password
  loaded, book, checked,  \* console: books it loaded, the selected one, hosts with a check mark
  refresh,         \* console: answer to equipment.book.list under way, None if there is none
  dialog,          \* console: login dialog, what it shows and what is in the field
  call,            \* console: job.start under way
  job,             \* the job submitted last: its rows, and those that are not done
  edits, saves,
  used             \* ghost: the passwords sent, with the address each was sent to

vars == <<inventory, books, credentials, loaded, book, checked, refresh, dialog, call, job,
          edits, saves, used>>

(* A password is known by the address its record was saved for.             *)
Record == [ip : Addresses, password : Addresses \cup {None}]
Call == [names : SUBSET Hosts, book : BookIds \cup {None}]
Job == [call : Call, ip : [Hosts -> Addresses \cup {None}], left : SUBSET Hosts]

Refresh == [rows : [BookIds -> SUBSET Hosts], previous : BookIds \cup {None}]
Dialog == [host : Hosts, ip : Addresses]

TypeOK ==
  /\ inventory \in [Hosts -> Addresses \cup {None}]
  /\ books \in [BookIds -> SUBSET Hosts] /\ loaded \in [BookIds -> SUBSET Hosts]
  /\ credentials \in [Hosts -> Record \cup {None}]
  /\ book \in BookIds \cup {None} /\ checked \in SUBSET Hosts
  /\ refresh \in Refresh \cup {None} /\ dialog \in Dialog \cup {None}
  /\ call \in Call \cup {None} /\ job \in Job \cup {None}
  /\ edits \in 0..MaxEdits /\ saves \in 0..MaxSaves
  /\ used \in SUBSET [password : Addresses, to : Addresses]

(* Assumption: what the constants may be.                                   *)
SettingOK ==
  /\ MaxEdits \in Nat /\ MaxSaves \in Nat
  /\ None \notin Addresses /\ None \notin BookIds /\ None \notin Record
  /\ None \notin Call /\ None \notin Job /\ None \notin Refresh /\ None \notin Dialog

Init ==
  /\ inventory \in [Hosts -> Addresses]
  /\ books \in [BookIds -> SUBSET Hosts] /\ loaded = books
  /\ credentials \in [Hosts -> {[ip |-> a, password |-> a] : a \in Addresses} \cup {None}]
  /\ book = None /\ checked = Hosts
  /\ refresh = None /\ dialog = None /\ call = None /\ job = None
  /\ edits = 0 /\ saves = 0 /\ used = {}

Listed == {h \in Hosts : inventory[h] # None}

-------------------------------------------------------------------------------
(* Edits: a book names listed hosts, but one may leave the inventory later. *)
Edit == edits < MaxEdits /\ edits' = edits + 1

SaveInventory(h) ==
  /\ Edit
  /\ \E a \in Addresses \cup {None} : a # inventory[h] /\ inventory' = [inventory EXCEPT ![h] = a]
  /\ UNCHANGED <<books, credentials, loaded, book, checked, refresh, dialog, call, job, saves, used>>

ChangeBook(b) ==
  /\ Edit
  /\ \E hosts \in SUBSET Listed : hosts # books[b] /\ books' = [books EXCEPT ![b] = hosts]
  /\ UNCHANGED <<inventory, credentials, loaded, book, checked, refresh, dialog, call, job, saves, used>>

-------------------------------------------------------------------------------
(* The console: choose one book and what the check marks become.            *)
RefreshBooks ==
  /\ refresh = None
  /\ \E previous \in {book} \cup BookIds : refresh' = [rows |-> books, previous |-> previous]
  /\ UNCHANGED <<inventory, books, credentials, loaded, book, checked, dialog, call, job, edits, saves, used>>

(* A book that is gone leaves nothing selected, not the hosts it had.       *)
Load(rows, previous) ==
  IF previous # None /\ rows[previous] # {}
  THEN book' = previous /\ checked' = rows[previous]
  ELSE book' = None /\ checked' = IF previous = None THEN checked ELSE {}

Loaded ==
  /\ refresh # None
  /\ loaded' = refresh.rows /\ Load(refresh.rows, refresh.previous) /\ refresh' = None
  /\ UNCHANGED <<inventory, books, credentials, dialog, call, job, edits, saves, used>>

ApplyBookSelection(b) ==
  /\ b # book /\ (b # None => loaded[b] # {})
  /\ book' = b /\ checked' = IF b = None THEN checked ELSE loaded[b]
  /\ UNCHANGED <<inventory, books, credentials, loaded, refresh, dialog, call, job, edits, saves, used>>

Toggle(h) ==
  /\ book = None
  /\ checked' = IF h \in checked THEN checked \ {h} ELSE checked \cup {h}
  /\ UNCHANGED <<inventory, books, credentials, loaded, book, refresh, dialog, call, job, edits, saves, used>>

CheckedHosts == IF book = None THEN checked ELSE loaded[book]

StartJob ==
  /\ call = None /\ CheckedHosts # {}
  /\ call' = [names |-> CheckedHosts, book |-> book]
  /\ UNCHANGED <<inventory, books, credentials, loaded, book, checked, refresh, dialog, job, edits, saves, used>>

-------------------------------------------------------------------------------
(* submit: a book must still be what the console shows.  Bound: a job is    *)
(* submitted when the one before it has connected to all of its targets.    *)
MutantNamed(c) == IF c.book = None THEN c.names ELSE books[c.book]
Named(c) ==
  IF c.book = None THEN c.names
  ELSE IF c.names = books[c.book] THEN books[c.book] ELSE {}

Submit ==
  /\ call # None /\ (job # None => job.left = {})
  /\ LET targets == Named(call) IN
       IF targets # {} /\ targets \subseteq Listed
       THEN job' = [call |-> call, left |-> targets,
                    ip |-> [h \in Hosts |-> IF h \in targets THEN inventory[h] ELSE None]]
       ELSE UNCHANGED job
  /\ call' = None
  /\ UNCHANGED <<inventory, books, credentials, loaded, book, checked, refresh, dialog, edits, saves, used>>

(* client_credentials: a record of another address does not count.          *)
MutantSaved(h) == credentials[h]
Saved(h) == IF credentials[h] # None /\ credentials[h].ip = inventory[h] THEN credentials[h] ELSE None

(* _target_unlocked: to the address of the row, if the host still has it.   *)
MutantStill(h) == inventory[h] # None
Still(h) == inventory[h] # None /\ inventory[h] = job.ip[h]

Connect(h) ==
  /\ job # None /\ h \in job.left
  /\ used' = IF Still(h) /\ Saved(h) # None /\ Saved(h).password # None
             THEN used \cup {[password |-> Saved(h).password, to |-> job.ip[h]]} ELSE used
  /\ job' = [job EXCEPT !.left = @ \ {h}]
  /\ UNCHANGED <<inventory, books, credentials, loaded, book, checked, refresh, dialog, call, edits, saves>>

-------------------------------------------------------------------------------
(* The login dialog shows the address of the moment it was opened; what is  *)
(* typed is saved for the address of the moment it is saved.                *)
EditClientCredentials(h) ==
  /\ dialog = None /\ CheckedHosts = {h} /\ h \in Listed
  /\ dialog' = [host |-> h, ip |-> inventory[h]]
  /\ UNCHANGED <<inventory, books, credentials, loaded, book, checked, refresh, call, job, edits, saves, used>>

Active(h) == job # None /\ h \in job.left

(* A field left blank keeps the password, if it was saved for this address. *)
Password(h, typed, use) ==
  IF ~use THEN None
  ELSE IF typed THEN inventory[h] ELSE IF Saved(h) = None THEN None ELSE Saved(h).password

CredentialsSave(typed, use) ==
  /\ dialog # None /\ saves < MaxSaves /\ saves' = saves + 1
  /\ LET h == dialog.host IN
       IF h \in Listed /\ ~Active(h) /\ (use => Password(h, typed, use) # None)
       THEN credentials' = [credentials EXCEPT ![h] =
              [ip |-> inventory[h], password |-> Password(h, typed, use)]]
       ELSE UNCHANGED credentials
  /\ dialog' = None
  /\ UNCHANGED <<inventory, books, loaded, book, checked, refresh, call, job, edits, used>>

Next ==
  \/ \E h \in Hosts : SaveInventory(h) \/ Toggle(h) \/ Connect(h) \/ EditClientCredentials(h)
  \/ \E b \in BookIds : ChangeBook(b)
  \/ \E b \in BookIds \cup {None} : ApplyBookSelection(b)
  \/ RefreshBooks \/ Loaded \/ StartJob \/ Submit
  \/ \E typed, use \in BOOLEAN : CredentialsSave(typed, use)

Spec == Init /\ [][Next]_vars

-------------------------------------------------------------------------------
(* Properties *)

(* "Equipment book membership changed; refresh targets" (service.py:283): a *)
(* job has exactly the hosts that were shown when it was started, each at   *)
(* the address it had when the job was submitted.                           *)
TargetsAreShown ==
  job # None => {h \in Hosts : job.ip[h] # None} = job.call.names

(* A saved password is sent only to the address its record was saved for,   *)
(* however the inventory changes before, between and after.                 *)
PasswordsStay == \A u \in used : u.to = u.password

BooksHold == TargetsAreShown /\ PasswordsStay
===============================================================================
