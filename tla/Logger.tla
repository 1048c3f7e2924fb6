-------------------------------- MODULE Logger --------------------------------
(* Logging of the command line (common/logger.py, main.py): one shared      *)
(* LoggerManager, whose handlers are attached when a thread first asks for  *)
(* a logger and taken off by shutdown.  Lock is class-wide and not          *)
(* reentrant; a body under it is one step here.                             *)
EXTENDS Naturals, FiniteSets, Sequences

CONSTANTS
  Threads,
  MaxFaults, MaxOpens,    \* bounds: failing calls; handlers created
  None

Levels == {"INFO", "DEBUG"}
Texts == {None, "blank", "plain", "address", "control", "long"}

VARIABLES
  instance,        \* LoggerManager._instance: number of the object, 0 for None
  object,          \* the objects created: their flags and level
  thread,          \* what a thread is at, the object it has and what it asks for
  handlers,        \* handlers of the logger "SM_Automation", in order
  open,            \* handlers that hold their stream
  opens, faults

vars == <<instance, object, thread, handlers, open, opens, faults>>

Object == [initialized : BOOLEAN, configured : BOOLEAN, level : Levels]
Handler == [kind : {"console", "file"}, no : 1..MaxOpens, level : Levels]
Ats == {"away", "unseen", "created", "ready", "named", "has"}

TypeOK ==
  /\ object \in Seq(Object) /\ Len(object) <= Cardinality(Threads)
  /\ instance \in 0..Len(object)
  /\ thread \in [Threads -> [at : Ats, self : 0..Len(object), holds : SUBSET Handler]]
  /\ handlers \in Seq(Handler) /\ open \subseteq Handler
  /\ opens \in 0..MaxOpens /\ faults \in 0..MaxFaults

(* Assumption: what the constants may be.                                   *)
SettingOK == IsFiniteSet(Threads) /\ MaxFaults \in Nat /\ MaxOpens \in Nat

Init ==
  /\ instance = 0 /\ object = <<>> /\ handlers = <<>> /\ open = {}
  /\ thread = [t \in Threads |-> [at |-> "away", self |-> 0, holds |-> {}]]
  /\ opens = 0 /\ faults = 0

Attached == {handlers[i] : i \in DOMAIN handlers}
Mine(t) == object[thread[t].self]

(* mkdir and the opening of the file can fail: the call raises.             *)
Fails == faults < MaxFaults /\ faults' = faults + 1

-------------------------------------------------------------------------------
(* __new__: a look without the lock, another one under it.                  *)
Look(t) ==
  /\ thread[t].at = "away"
  /\ thread' = IF instance = 0 THEN [thread EXCEPT ![t].at = "unseen"]
               ELSE [thread EXCEPT ![t].at = "created", ![t].self = instance]
  /\ UNCHANGED <<instance, object, handlers, open, opens, faults>>

New == [initialized |-> FALSE, configured |-> FALSE, level |-> "INFO"]

MutantCreate(t) ==
  /\ thread[t].at = "unseen"
  /\ object' = Append(object, New) /\ instance' = Len(object')
  /\ thread' = [thread EXCEPT ![t].at = "created", ![t].self = instance']
  /\ UNCHANGED <<handlers, open, opens, faults>>

Create(t) ==
  /\ thread[t].at = "unseen"
  /\ IF instance = 0
     THEN object' = Append(object, New) /\ instance' = Len(object')
     ELSE UNCHANGED <<object, instance>>
  /\ thread' = [thread EXCEPT ![t].at = "created", ![t].self = instance']
  /\ UNCHANGED <<handlers, open, opens, faults>>

(* __init__ runs for every LoggerManager(); one that cannot create its      *)
(* directory raises, and the next call initialises the object it left.      *)
Initialize(t) ==
  /\ thread[t].at = "created"
  /\ \/ /\ object' = [object EXCEPT ![thread[t].self].initialized = TRUE]
        /\ thread' = [thread EXCEPT ![t].at = "ready"] /\ UNCHANGED faults
     \/ /\ ~Mine(t).initialized /\ Fails
        /\ thread' = [thread EXCEPT ![t].at = "away"] /\ UNCHANGED object
  /\ UNCHANGED <<instance, handlers, open, opens>>

(* configure: refused while handlers are attached.                          *)
Configure(t, level) ==
  /\ thread[t].at = "ready" /\ ~Mine(t).configured
  /\ \/ object' = [object EXCEPT ![thread[t].self].level = level] /\ UNCHANGED faults
     \/ Fails /\ UNCHANGED object
  /\ UNCHANGED <<instance, thread, handlers, open, opens>>

-------------------------------------------------------------------------------
(* LogContext: empty text becomes "-"; control characters, too long a text  *)
(* and an address that is none are refused before a logger is asked for.    *)
Normalize(text) ==
  CASE text \in {None, "blank"} -> "-"
    [] text \in {"control", "long"} -> "refused"
    [] OTHER -> text

Usable(ip, operator) ==
  Normalize(ip) \in {"-", "address"} /\ Normalize(operator) # "refused"

Ask(t) ==
  /\ thread[t].at = "ready"
  /\ \E ip, operator \in Texts :
       /\ Usable(ip, operator)
       /\ thread' = [thread EXCEPT ![t].at = IF <<ip, operator>> = <<None, None>> THEN "ready" ELSE "named"]
  /\ UNCHANGED <<instance, object, handlers, open, opens, faults>>

(* _configure_logger: attaches both handlers or, when the file cannot be    *)
(* opened, neither.                                                         *)
MutantAttach(t) ==
  /\ opens < MaxOpens /\ opens' = opens + 1
  /\ LET console == [kind |-> "console", no |-> opens', level |-> Mine(t).level]
         file == [console EXCEPT !.kind = "file"] IN
       \/ /\ handlers' = handlers \o <<console, file>> /\ open' = open \cup {console, file}
          /\ object' = [object EXCEPT ![thread[t].self].configured = TRUE] /\ UNCHANGED faults
       \/ /\ Fails /\ handlers' = Append(handlers, console) /\ open' = open \cup {console}
          /\ UNCHANGED object

Attach(t) ==
  /\ opens < MaxOpens /\ opens' = opens + 1
  /\ LET console == [kind |-> "console", no |-> opens', level |-> Mine(t).level]
         file == [console EXCEPT !.kind = "file"] IN
       \/ /\ handlers' = handlers \o <<console, file>> /\ open' = open \cup {console, file}
          /\ object' = [object EXCEPT ![thread[t].self].configured = TRUE] /\ UNCHANGED faults
       \/ Fails /\ UNCHANGED <<handlers, open, object>>

(* get_logger: with a context it is called a second time, and the handlers  *)
(* may have been taken off in between.                                      *)
Get(t) ==
  /\ thread[t].at \in {"ready", "named"}
  /\ IF Mine(t).configured THEN UNCHANGED <<opens, handlers, open, object, faults>> ELSE Attach(t)
  /\ thread' = [thread EXCEPT ![t].at =
       IF ~object'[thread[t].self].configured THEN "away" ELSE IF @ = "named" THEN "ready" ELSE "has"]
  /\ UNCHANGED instance

-------------------------------------------------------------------------------
(* A record goes to the handlers that were attached when it was made, and   *)
(* one that finds its file closed opens it again (logging.FileHandler).     *)
Emit(t) ==
  /\ thread[t].at = "has" /\ thread[t].holds = {}
  /\ thread' = [thread EXCEPT ![t].holds = Attached]
  /\ UNCHANGED <<instance, object, handlers, open, opens, faults>>

Write(t) ==
  /\ thread[t].holds # {}
  /\ open' = open \cup {h \in thread[t].holds : h.kind = "file"}
  /\ thread' = [thread EXCEPT ![t].holds = {}]
  /\ UNCHANGED <<instance, object, handlers, opens, faults>>

(* shutdown: off first, then closed; a file that cannot be flushed raises,  *)
(* and the loop ends there.                                                 *)
Taken(s, k) == {s[i] : i \in 1..k}

Shutdown(t) ==
  /\ thread[t].at \in {"ready", "has"} /\ thread[t].holds = {}
  /\ \E k \in 0..Len(handlers) :
       /\ \/ k = Len(handlers) /\ UNCHANGED faults
          \/ k > 0 /\ handlers[k].kind = "file" /\ Fails
       /\ handlers' = SubSeq(handlers, k + 1, Len(handlers))
       /\ open' = open \ Taken(handlers, k)
  /\ object' = [object EXCEPT ![thread[t].self].configured = FALSE]
  /\ thread' = [thread EXCEPT ![t].at = "away"]
  /\ UNCHANGED <<instance, opens>>

(* main: configure, one logger, one record, and shutdown on every way out.  *)
Next ==
  \/ \E t \in Threads : Look(t) \/ Create(t) \/ Initialize(t) \/ Ask(t) \/ Get(t)
  \/ \E t \in Threads, level \in Levels : Configure(t, level)
  \/ \E t \in Threads : Emit(t) \/ Write(t) \/ Shutdown(t)

Spec == Init /\ [][Next]_vars

-------------------------------------------------------------------------------
(* Properties *)

(* Every record is written once to the console and once to the file: while  *)
(* the manager says that it is configured, one handler of each kind is      *)
(* attached, open and of the level that was configured; otherwise none is,  *)
(* whatever failed and however many threads created the manager.            *)
HandlersExact ==
  /\ Len(handlers) = Cardinality({h.kind : h \in Attached}) /\ Attached \subseteq open
  /\ \A n \in DOMAIN object :
       IF object[n].configured
       THEN Len(handlers) = 2 /\ \A h \in Attached : h.level = object[n].level
       ELSE handlers = <<>>
===============================================================================
