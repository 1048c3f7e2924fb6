------------------------------- MODULE FrontEnd -------------------------------
(* The TLS front end of SERVER (server/main.py) and its logins              *)
(* (server/auth.py).  Every connection takes one of the request slots and   *)
(* has a thread; a request is authenticated, then authorized, each under    *)
(* the lock of the service, then executed without it, while an              *)
(* administrator may be changing the account it came with.                  *)
EXTENDS Naturals, Sequences, FiniteSets

CONSTANTS
  Requests, Users, Passwords,
  Slots,          \* TLSServer.slots, 32
  CacheSize,      \* logins remembered without hashing again, 128
  MaxSaves,       \* bound: saved accounts
  None

VARIABLES
  at,             \* where the thread of a request is
  sent,           \* what it asks for
  slots,          \* free slots
  accounts,       \* gui-accounts.json.enc; a new password has a new salt
  cache,          \* _cache in the order of insertion: <<user, account, password>>
  fresh,          \* its entries younger than 60 seconds
  saves,
  known,          \* ghost: its password was the account's since it arrived
  entitled        \* ghost: and then the role of the account allowed it

vars == <<at, sent, slots, accounts, cache, fresh, saves, known, entitled>>

(* What authorize allows a viewer, an operator too, an administrator only.  *)
Roles == {"viewer", "operator", "admin"}
Methods == {"read", "operate", "save"}
Allows(role, method) ==
  method \in CASE role = "viewer" -> {"read"}
               [] role = "operator" -> {"read", "operate"}
               [] role = "admin" -> Methods

(* A request comes with the API token, as a device, or with a login; one    *)
(* that saves an account names it, its role and, or not, its new password.  *)
Login(u, p, m, subject, new, role) ==
  [user |-> u, password |-> p, method |-> m, subject |-> subject, new |-> new, role |-> role]
Asked ==
  {Login(u, p, m, u, None, "viewer") : u \in Users, p \in Passwords, m \in {"read", "operate"}}
    \cup {Login(u, p, "save", s, new, role) :
            u \in Users \cup {"token"}, p \in Passwords, s \in Users,
            new \in Passwords \cup {None}, role \in Roles}
    \cup {Login("device", CHOOSE p \in Passwords : TRUE, "read", CHOOSE u \in Users : TRUE,
                None, "viewer")}
Account == [salt : Nat, password : Passwords, role : Roles]

TypeOK ==
  /\ at \in [Requests -> {"new", "open", "known", "allowed", "answering", "ran", "refused", "closed"}]
  /\ sent \in [Requests -> Asked \cup {None}]
  /\ slots \in 0..Slots
  /\ accounts \in [Users -> Account \cup {None}]
  /\ cache \in Seq(Users \X (Account \cup {None}) \X Passwords) /\ Len(cache) <= CacheSize
  /\ saves \in 0..MaxSaves
  /\ known \subseteq Requests /\ entitled \subseteq Requests

(* Assumption: what the constants may be.                                   *)
SettingOK ==
  /\ IsFiniteSet(Requests) /\ Slots \in Nat /\ MaxSaves \in Nat
  /\ CacheSize \in Nat /\ CacheSize > 0
  /\ None \notin Account /\ None \notin Asked /\ None \notin Passwords /\ Passwords # {}
  /\ "token" \notin Users

Init ==
  /\ at = [r \in Requests |-> "new"] /\ sent = [r \in Requests |-> None]
  /\ slots = Slots
  /\ accounts \in [Users -> {None} \cup {[salt |-> 0, password |-> p, role |-> role] :
                               p \in {CHOOSE p \in Passwords : TRUE}, role \in Roles}]
  /\ cache = <<>> /\ fresh = {} /\ saves = 0 /\ known = {} /\ entitled = {}

-------------------------------------------------------------------------------
Live == {r \in Requests : at[r] \notin {"new", "closed"}}
To(r, place) == at' = [at EXCEPT ![r] = place]

(* The ghosts follow the accounts while a request is being served.          *)
Watch(requests, asked, accs) ==
  LET account(r) == accs[asked[r].user]
      holds(r) == /\ asked[r].user \in Users /\ account(r) # None
                  /\ account(r).password = asked[r].password
      knowing == known \cup {r \in requests : holds(r)} IN
  /\ known' = knowing
  /\ entitled' = entitled \cup
       {r \in requests \cap knowing : Allows(account(r).role, asked[r].method)}

(* process_request: without a free slot, or when no thread can be started,  *)
(* the connection is closed.                                                *)
MutantAccept(r) ==
  /\ at[r] = "new"
  /\ \E q \in Asked : sent' = [sent EXCEPT ![r] = q]
  /\ IF slots = 0
     THEN To(r, "closed") /\ UNCHANGED slots
     ELSE slots' = slots - 1 /\ (To(r, "open") \/ To(r, "closed"))
  /\ Watch({r}, sent', accounts) /\ UNCHANGED <<accounts, cache, fresh, saves>>

Accept(r) ==
  /\ at[r] = "new"
  /\ \E q \in Asked : sent' = [sent EXCEPT ![r] = q]
  /\ \/ slots > 0 /\ slots' = slots - 1 /\ To(r, "open")
     \/ To(r, "closed") /\ UNCHANGED slots
  /\ Watch({r}, sent', accounts) /\ UNCHANGED <<accounts, cache, fresh, saves>>

(* authenticate, under the lock of the service: a remembered login is not   *)
(* hashed again; a valid one is remembered in place of the oldest.          *)
MutantStamp(r) == <<sent[r].user, None, sent[r].password>>
Stamp(r) == <<sent[r].user, accounts[sent[r].user], sent[r].password>>

Remember(s) ==
  LET kept == IF Len(cache) >= CacheSize THEN Tail(cache) ELSE cache IN
  /\ cache' = IF \E i \in DOMAIN kept : kept[i] = s THEN kept ELSE Append(kept, s)
  /\ fresh' = (fresh \cap {cache'[i] : i \in DOMAIN cache'}) \cup {s}

Authenticate(r) ==
  /\ at[r] = "open" /\ sent[r].user \in Users
  /\ LET a == accounts[sent[r].user] IN
     IF Stamp(r) \in fresh THEN To(r, "known") /\ UNCHANGED <<cache, fresh>>
     ELSE IF a # None /\ a.password = sent[r].password
     THEN To(r, "known") /\ Remember(Stamp(r))
     ELSE To(r, "refused") /\ UNCHANGED <<cache, fresh>>
  /\ UNCHANGED <<sent, slots, accounts, saves, known, entitled>>

(* The API token needs no account; a device is answered by AgentManager.rpc *)
(* and not logged in at all.                                                *)
Trust(r) ==
  /\ at[r] = "open" /\ sent[r].user \notin Users
  /\ To(r, IF sent[r].user = "token" THEN "known" ELSE "answering")
  /\ UNCHANGED <<sent, slots, accounts, cache, fresh, saves, known, entitled>>

Expire ==
  /\ \E s \in fresh : fresh' = fresh \ {s}
  /\ UNCHANGED <<at, sent, slots, accounts, cache, saves, known, entitled>>

(* role_for and authorize, under the lock again: the role of now.           *)
MutantAuthorize(r) ==
  /\ at[r] = "known"
  /\ To(r, IF sent[r].user = "token" \/ sent[r].method # "save" \/ accounts[sent[r].user].role = "admin"
           THEN "allowed" ELSE "refused")
  /\ UNCHANGED <<sent, slots, accounts, cache, fresh, saves, known, entitled>>

Authorize(r) ==
  /\ at[r] = "known"
  /\ LET role == IF sent[r].user = "token" THEN "admin" ELSE accounts[sent[r].user].role IN
     To(r, IF Allows(role, sent[r].method) THEN "allowed" ELSE "refused")
  /\ UNCHANGED <<sent, slots, accounts, cache, fresh, saves, known, entitled>>

(* save_account: an account needs a password once; without a new one it     *)
(* keeps its hash; the last administrator keeps the role.                   *)
LastAdmin(u) ==
  /\ accounts[u] # None /\ accounts[u].role = "admin"
  /\ \A v \in Users \ {u} : accounts[v] = None \/ accounts[v].role # "admin"

Saved(q) ==
  IF q.new = None THEN [accounts[q.subject] EXCEPT !.role = q.role]
  ELSE [salt |-> saves + 1, password |-> q.new, role |-> q.role]

Refuses(q) ==
  \/ q.new = None /\ accounts[q.subject] = None
  \/ LastAdmin(q.subject) /\ q.role # "admin"

(* dispatch.                                                                *)
Run(r) ==
  /\ at[r] = "allowed"
  /\ IF sent[r].method = "save" /\ ~Refuses(sent[r])
     THEN /\ saves < MaxSaves /\ saves' = saves + 1
          /\ accounts' = [accounts EXCEPT ![sent[r].subject] = Saved(sent[r])]
     ELSE UNCHANGED <<saves, accounts>>
  /\ To(r, "ran")
  /\ Watch(Live, sent, accounts') /\ UNCHANGED <<sent, slots, cache, fresh>>

(* process_request_thread gives the slot back, after an answer, or 20       *)
(* seconds without the rest of the request.                                 *)
Close(r) ==
  /\ at[r] \in {"open", "answering", "ran", "refused"}
  /\ To(r, "closed") /\ slots' = slots + 1
  /\ UNCHANGED <<sent, accounts, cache, fresh, saves, known, entitled>>

Next ==
  \/ \E r \in Requests :
       Accept(r) \/ Authenticate(r) \/ Trust(r) \/ Authorize(r) \/ Run(r) \/ Close(r)
  \/ Expire

Spec == Init /\ [][Next]_vars

-------------------------------------------------------------------------------
(* Properties *)

(* A login is never used beyond its rights: what is executed had, since it  *)
(* arrived, the password of its account and after that a role that allows   *)
(* it, whatever was saved or remembered meanwhile (main.py:66-84).          *)
RightsAreCurrent ==
  \A r \in Requests : at[r] \in {"allowed", "ran"} /\ sent[r].user \in Users => r \in entitled

(* No failure leaks a request slot (main.py:29-45).                         *)
SlotsReturn == slots + Cardinality(Live) = Slots
===============================================================================
