-------------------------------- MODULE HostKeys --------------------------------
(* The known hosts of SERVER (engine/hostkeys.py and SSHClient.connect).    *)
(* Every connection checks the key of the host against the file it read at  *)
(* its start; only the distribution of SERVER's key may add the key of a    *)
(* host not seen before, under a lock of the process and of the file, to a  *)
(* copy that replaces the file.                                             *)
EXTENDS Naturals, Functions

CONSTANTS
  Connections, Hosts, Keys,
  HostOf,        \* of a connection
  MaxCrashes,    \* bound: stops of SERVER
  None

VARIABLES
  accepts,       \* connections that may register a new key (accept_new_host_key)
  offers,        \* the key a connection is shown
  at,
  file,          \* known_hosts: the key of each host
  seen,          \* what a connection read of the file
  lock,          \* holder of known_hosts.sm-lock
  temps,         \* copies in the directory
  registered,    \* connections reported with host_key_registered
  crashes

vars == <<accepts, offers, at, file, seen, lock, temps, registered, crashes>>

Known == [Hosts -> Keys \cup {None}]
Places == {"new", "handshake", "missing", "load", "decide", "copied", "replaced", "connected",
           "refused"}

TypeOK ==
  /\ accepts \subseteq Connections /\ offers \in [Connections -> Keys]
  /\ at \in [Connections -> Places]
  /\ file \in Known /\ seen \in [Connections -> Known]
  /\ lock \in Connections \cup {None}
  /\ temps \subseteq Connections /\ registered \subseteq Connections
  /\ crashes \in 0..MaxCrashes

(* Assumption: what the constants may be.                                   *)
SettingOK ==
  /\ HostOf \in [Connections -> Hosts]
  /\ None \notin Keys /\ None \notin Connections /\ MaxCrashes \in Nat

Init ==
  /\ accepts \in SUBSET Connections /\ offers \in [Connections -> Keys]
  /\ at = [c \in Connections |-> "new"]
  /\ file = [h \in Hosts |-> None]
  /\ seen = [c \in Connections |-> [h \in Hosts |-> None]]
  /\ lock = None /\ temps = {} /\ registered = {} /\ crashes = 0

setting == <<accepts, offers, crashes>>
To(c, place) == at' = [at EXCEPT ![c] = place]
Refuse(c) == To(c, "refused") /\ lock' = (IF lock = c THEN None ELSE lock)

-------------------------------------------------------------------------------
(* load_system_host_keys, then the key exchange.                            *)
Connect(c) ==
  /\ at[c] = "new"
  /\ seen' = [seen EXCEPT ![c] = file] /\ To(c, "handshake")
  /\ UNCHANGED <<setting, file, lock, temps, registered>>

Handshake(c) ==
  /\ at[c] = "handshake"
  /\ LET known == seen[c][HostOf[c]] IN
     IF known = offers[c] THEN To(c, "connected")
     ELSE IF known = None /\ c \in accepts THEN To(c, "missing")
     ELSE To(c, "refused")
  /\ UNCHANGED <<setting, file, seen, lock, temps, registered>>

(* missing_host_key: the lock, then the file once more.                     *)
MutantLock(c) ==
  /\ at[c] = "missing" /\ To(c, "load")
  /\ UNCHANGED <<setting, file, seen, lock, temps, registered>>

Lock(c) ==
  /\ at[c] = "missing" /\ lock = None
  /\ lock' = c /\ To(c, "load")
  /\ UNCHANGED <<setting, file, seen, temps, registered>>

MutantLoad(c) ==
  /\ at[c] = "load" /\ To(c, "decide")
  /\ UNCHANGED <<setting, file, seen, lock, temps, registered>>

Load(c) ==
  /\ at[c] = "load"
  /\ seen' = [seen EXCEPT ![c] = file] /\ To(c, "decide")
  /\ UNCHANGED <<setting, file, lock, temps, registered>>

(* A known host must offer the key it is known by; a new one is added to a  *)
(* copy.  Writing the copy may fail: it is removed and the call raises.     *)
Decide(c) ==
  /\ at[c] = "decide"
  /\ LET known == seen[c][HostOf[c]] IN
     \/ /\ known = offers[c]
        /\ To(c, "connected") /\ lock' = None /\ UNCHANGED temps
     \/ /\ known \notin {None, offers[c]}
        /\ Refuse(c) /\ UNCHANGED temps
     \/ /\ known = None
        /\ \/ temps' = temps \cup {c} /\ To(c, "copied") /\ UNCHANGED lock
           \/ Refuse(c) /\ UNCHANGED temps
  /\ UNCHANGED <<setting, file, seen, registered>>

Replace(c) ==
  /\ at[c] = "copied" /\ temps' = temps \ {c}
  /\ file' = [seen[c] EXCEPT ![HostOf[c]] = offers[c]] /\ To(c, "replaced")
  /\ UNCHANGED <<setting, seen, lock, registered>>

(* The session takes the key, the lock is given back.                       *)
Register(c) ==
  /\ at[c] = "replaced"
  /\ registered' = registered \cup {c}
  /\ lock' = None /\ To(c, "connected")
  /\ UNCHANGED <<setting, file, seen, temps>>

(* SERVER stops: connections and locks are gone, a copy stays.              *)
Crash ==
  /\ crashes < MaxCrashes /\ crashes' = crashes + 1
  /\ at' = [c \in Connections |-> IF at[c] = "new" THEN "new" ELSE "refused"]
  /\ lock' = None /\ registered' = {}
  /\ UNCHANGED <<accepts, offers, file, seen, temps>>

Next ==
  \/ \E c \in Connections :
       Connect(c) \/ Handshake(c) \/ Lock(c) \/ Load(c) \/ Decide(c) \/ Replace(c) \/ Register(c)
  \/ Crash

Spec == Init /\ [][Next]_vars

-------------------------------------------------------------------------------
(* Properties *)

(* A trusted key is never replaced or lost ("Persist first-contact SSH host *)
(* keys; never replace a previously trusted key", hostkeys.py:1), whatever  *)
(* other connections register at the same time.                             *)
KeyIsKept == \A h \in Hosts : file[h] # None => file'[h] = file[h]
TrustIsKept == [][KeyIsKept]_file

(* A session is only with the key that the file has for the host, and a     *)
(* host that offers different keys at the same time gets one registered.    *)
SessionsAreTrusted ==
  \A c \in Connections : at[c] = "connected" \/ c \in registered =>
    file[HostOf[c]] = offers[c]
===============================================================================
