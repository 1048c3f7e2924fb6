----------------------------- MODULE RemoteCommand -----------------------------
(* One root command on a host over SSH: execute_result and execute_root of  *)
(* engine/ssh.py, capture and capture_root of engine/remote.py.  sudo is    *)
(* tried first, su only when nothing shows that the command started: a      *)
(* marker is printed before it.  The client polls the channel until the     *)
(* exit status is there and nothing is ready to be read; the server sends   *)
(* the status when the process has ended, also ahead of output it has not   *)
(* read from the process yet.                                               *)
EXTENDS Naturals

CONSTANTS
  Most,          \* units of output a command may print
  Limit          \* units the client accepts: 1 MiB, or max_capture_mb

VARIABLES
  login,         \* the login account: "root" or "user"
  may,           \* does the host let sudo, and su, become root?
  rootPassword,  \* was a root password given?
  length,        \* units the command prints
  way,           \* the attempt at hand
  process,       \* of the attempt: its state on the host
  printed,       \* units it printed, the marker included
  arrived,       \* units that reached the client
  got,           \* units the client has read
  status,        \* the exit status reached the client
  starts,        \* ghost: how often the command was started
  overtaken,     \* ghost: an attempt was closed before all its output had come
  result

vars == <<login, may, rootPassword, length, way, process, printed, arrived, got, status, starts,
          overtaken, result>>

Ways == {"direct", "sudo", "su"}
Results == {"none", "output", "no root", "timeout", "overflow", "no password"}

(* The marker goes ahead of the output of the command, unless it runs       *)
(* directly.                                                                *)
Marker == IF way = "direct" THEN 0 ELSE 1

TypeOK ==
  /\ login \in {"root", "user"} /\ may \in SUBSET {"sudo", "su"} /\ rootPassword \in BOOLEAN
  /\ length \in 0..Most /\ way \in Ways \cup {"none"}
  /\ process \in {"none", "asking", "running", "ended"}
  /\ printed \in 0..(Most + 1) /\ arrived \in 0..printed /\ got \in 0..arrived
  /\ status \in BOOLEAN /\ starts \in 0..2 /\ overtaken \in BOOLEAN /\ result \in Results

(* Assumption: what the constants may be.                                   *)
SettingOK == Most \in Nat /\ Limit \in Nat

Init ==
  /\ login \in {"root", "user"} /\ may \in SUBSET {"sudo", "su"} /\ rootPassword \in BOOLEAN
  /\ length \in 0..Most /\ way = "none" /\ process = "none"
  /\ printed = 0 /\ arrived = 0 /\ got = 0 /\ status = FALSE
  /\ starts = 0 /\ overtaken = FALSE /\ result = "none"

setting == <<login, may, rootPassword, length>>

-------------------------------------------------------------------------------
(* A channel is opened for one attempt.                                     *)
Open(w) ==
  /\ way' = w /\ process' = IF w = "direct" THEN "running" ELSE "asking"
  /\ printed' = 0 /\ arrived' = 0 /\ got' = 0 /\ status' = FALSE
  /\ starts' = IF w = "direct" THEN starts + 1 ELSE starts
  /\ UNCHANGED <<setting, overtaken, result>>

Call ==
  /\ way = "none" /\ result = "none"
  /\ Open(IF login = "root" THEN "direct" ELSE "sudo")

(* sudo or su accepts the password and the shell prints the marker, or      *)
(* there is no way to become root.                                          *)
BecomeRoot ==
  /\ process = "asking"
  /\ IF way \in may
     THEN process' = "running" /\ printed' = 1 /\ starts' = starts + 1
     ELSE process' = "ended" /\ UNCHANGED <<printed, starts>>
  /\ UNCHANGED <<setting, way, arrived, got, status, overtaken, result>>

Write ==
  /\ process = "running" /\ printed < length + Marker
  /\ printed' = printed + 1
  /\ UNCHANGED <<setting, way, process, arrived, got, status, starts, overtaken, result>>

Exit ==
  /\ process = "running" /\ printed = length + Marker
  /\ process' = "ended"
  /\ UNCHANGED <<setting, way, printed, arrived, got, status, starts, overtaken, result>>

Arrive ==
  /\ result = "none" /\ arrived < printed
  /\ arrived' = arrived + 1
  /\ UNCHANGED <<setting, way, process, printed, got, status, starts, overtaken, result>>

ArriveStatus ==
  /\ result = "none" /\ process = "ended" /\ ~status
  /\ status' = TRUE
  /\ UNCHANGED <<setting, way, process, printed, arrived, got, starts, overtaken, result>>

-------------------------------------------------------------------------------
Close(how) ==
  /\ result' = how
  /\ UNCHANGED <<setting, way, process, printed, arrived, status, starts>>

(* The loop reads what is ready and gives up beyond the limit.              *)
MutantRead ==
  /\ result = "none" /\ got < arrived
  /\ \E n \in got + 1..arrived :
       /\ got' = n
       /\ UNCHANGED <<setting, way, process, printed, arrived, status, starts, overtaken, result>>

Read ==
  /\ result = "none" /\ got < arrived
  /\ \E n \in got + 1..arrived :
       /\ got' = n
       /\ IF n > Limit
          THEN Close("overflow") /\ UNCHANGED overtaken
          ELSE UNCHANGED <<setting, way, process, printed, arrived, status, starts, overtaken,
                           result>>

(* The exit status is there and nothing is ready: the attempt is over.  With *)
(* the marker what was read is the result; without it su is tried, if there *)
(* is a password for it.                                                    *)
Finished == way # "none" /\ result = "none" /\ status /\ got = arrived

MutantConclude ==
  /\ way # "none" /\ result = "none" /\ status
  /\ overtaken' = overtaken
  /\ IF got >= Marker THEN Close("output") /\ UNCHANGED got
     ELSE /\ IF way = "sudo" /\ rootPassword
             THEN /\ way' = "su" /\ process' = "asking"
                  /\ printed' = 0 /\ arrived' = 0 /\ got' = 0 /\ status' = FALSE
                  /\ UNCHANGED <<setting, starts, result>>
             ELSE Close("no root") /\ UNCHANGED got

Conclude ==
  /\ Finished
  /\ overtaken' = (overtaken \/ arrived < printed)
  /\ IF got >= Marker THEN Close("output") /\ UNCHANGED got
     ELSE /\ IF way = "sudo" /\ rootPassword
             THEN /\ way' = "su" /\ process' = "asking"
                  /\ printed' = 0 /\ arrived' = 0 /\ got' = 0 /\ status' = FALSE
                  /\ UNCHANGED <<setting, starts, result>>
             ELSE Close("no root") /\ UNCHANGED got

(* The deadline passes: the command may go on, and su is not tried.         *)
MutantTimeOut ==
  /\ way # "none" /\ result = "none"
  /\ IF way = "sudo" /\ rootPassword
     THEN Open("su")
     ELSE Close("timeout") /\ UNCHANGED <<got, overtaken>>

TimeOut ==
  /\ way # "none" /\ result = "none"
  /\ Close("timeout") /\ UNCHANGED <<got, overtaken>>

Next ==
  \/ Call \/ BecomeRoot \/ Write \/ Exit \/ Arrive \/ ArriveStatus
  \/ Read \/ Conclude \/ TimeOut

Spec == Init /\ [][Next]_vars

-------------------------------------------------------------------------------
(* Properties *)

(* A command whose result is shown ran, and its output is within the limit  *)
(* ("Capture limit exceeded; artifact was not saved", remote.py:58).  It is *)
(* whole when the exit status overtook none of it; what is lost otherwise   *)
(* is not noticed (ssh.py:152, remote.py:59).                               *)
OutputIsWhole ==
  result = "output" =>
    /\ starts >= 1 /\ got <= Limit
    /\ ~overtaken => got = length + Marker

(* "No root marker means the user's command never started: safe to try su"  *)
(* (engine/ssh.py:171): the command is not started a second time.           *)
StartsOnce == starts <= 1

(* What does hold of it: a second start follows only an attempt that was    *)
(* closed before all its output had come.                                   *)
StartsOnceIfRead == ~overtaken => StartsOnce
===============================================================================
