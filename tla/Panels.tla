--------------------------------- MODULE Panels --------------------------------
(* Views of the console that load what they show in the background          *)
(* (desktop/main.py, ci.py, backup_compare.py): each numbers its requests   *)
(* and takes only the answer to the last one, in whatever order they come.  *)
EXTENDS Naturals, FiniteSets

CONSTANTS
  Choices,         \* filters, selected rows or paths, what a panel can be asked for
  MaxAsks,         \* bound: requests
  None

(* CI list, connection map, comparison dialog, preview of a backup, list of *)
(* Windows devices.                                                         *)
Panels == {"assets", "map", "comparison", "preview", "agents"}
Local == "local" \* what a panel shows without asking SERVER

VARIABLES
  number,          \* generation, map_generation, request_number of a panel
  closed,          \* panels whose dialog is closed
  asked, shown,    \* ghost: the choice a panel was last asked for; the one on screen
  answers,         \* answers under way
  busy,            \* AgentDialog.busy: its timer waits for the answer under way
  asks

vars == <<number, closed, asked, shown, answers, busy, asks>>

Answer == [panel : Panels, number : 0..2 * MaxAsks, choice : Choices]

TypeOK ==
  /\ number \in [Panels -> 0..2 * MaxAsks + 1] /\ closed \in SUBSET Panels
  /\ asked \in [Panels -> Choices \cup {None, Local}]
  /\ shown \in [Panels -> Choices \cup {None, Local}]
  /\ answers \in SUBSET Answer /\ busy \in BOOLEAN /\ asks \in 0..MaxAsks

(* Assumption: what the constants may be.                                   *)
SettingOK == MaxAsks \in Nat /\ None \notin Choices

Init ==
  /\ number = [p \in Panels |-> 0] /\ closed = {} /\ answers = {}
  /\ busy = FALSE /\ asks = 0
  /\ asked = [p \in Panels |-> None] /\ shown = asked

-------------------------------------------------------------------------------
(* A new request makes those before it void.                                *)
Ask(p, choice) ==
  /\ asks < MaxAsks /\ asks' = asks + 1
  /\ number' = [number EXCEPT ![p] = @ + 1] /\ asked' = [asked EXCEPT ![p] = choice]
  /\ answers' = answers \cup {[panel |-> p, number |-> number'[p], choice |-> choice]}
  /\ busy' = (busy \/ p = "agents")
  /\ UNCHANGED <<closed, shown>>

(* What needs no request is shown at once, and voids them all the same.     *)
ShowLocal(p) ==
  /\ asks < MaxAsks /\ asks' = asks + 1
  /\ number' = [number EXCEPT ![p] = @ + 1]
  /\ asked' = [asked EXCEPT ![p] = Local] /\ shown' = [shown EXCEPT ![p] = Local]
  /\ UNCHANGED <<closed, answers, busy>>

Refresh(choice) == "assets" \notin closed /\ Ask("assets", choice)
UpdateMap(choice) == Ask("map", choice)
UpdateMapUnfiltered == ShowLocal("map")
LoadHost(choice) == "comparison" \notin closed /\ Ask("comparison", choice)
LoadFailedHost == "comparison" \notin closed /\ ShowLocal("comparison")
View(choice) == "preview" \notin closed /\ Ask("preview", choice)
ViewFolder == "preview" \notin closed /\ ShowLocal("preview")

(* The timer of the device list leaves a request under way alone; a device  *)
(* that was revoked forces another one.                                     *)
RefreshAgents(choice, force) ==
  "agents" \notin closed /\ (busy => force) /\ Ask("agents", choice)

MutantCurrent(a) == a.panel \notin closed
Current(a) == a.number = number[a.panel] /\ a.panel \notin closed

Loaded(a) ==
  /\ a \in answers /\ answers' = answers \ {a}
  /\ shown' = IF Current(a) THEN [shown EXCEPT ![a.panel] = a.choice] ELSE shown
  /\ busy' = (busy /\ ~(Current(a) /\ a.panel = "agents"))
  /\ UNCHANGED <<number, closed, asked, asks>>

(* A page behind the end of the list: the last page is asked for instead.   *)
Clamped(a) ==
  /\ a \in answers /\ a.panel = "assets" /\ Current(a)
  /\ \E choice \in Choices \ {a.choice} :
       /\ asks < MaxAsks /\ asks' = asks + 1
       /\ number' = [number EXCEPT !["assets"] = @ + 1]
       /\ asked' = [asked EXCEPT !["assets"] = choice]
       /\ answers' = (answers \ {a}) \cup {[a EXCEPT !.number = number'["assets"], !.choice = choice]}
  /\ UNCHANGED <<closed, shown, busy>>

(* A request that fails leaves what is on screen.                           *)
Failed(a) ==
  /\ a \in answers /\ answers' = answers \ {a}
  /\ asked' = IF Current(a) THEN [asked EXCEPT ![a.panel] = shown[a.panel]] ELSE asked
  /\ busy' = (busy /\ a.panel # "agents")
  /\ UNCHANGED <<number, closed, shown, asks>>

(* clear empties the list of the session that ended, a dialog is closed.    *)
Clear ==
  /\ asked["assets"] # None
  /\ number' = [number EXCEPT !["assets"] = @ + 1]
  /\ asked' = [asked EXCEPT !["assets"] = None] /\ shown' = [shown EXCEPT !["assets"] = None]
  /\ UNCHANGED <<closed, answers, busy, asks>>

Close(p) ==
  /\ p \in {"comparison", "preview", "agents"} \ closed
  /\ closed' = closed \cup {p}
  /\ number' = IF p = "preview" THEN [number EXCEPT ![p] = @ + 1] ELSE number
  /\ UNCHANGED <<asked, shown, answers, busy, asks>>

Next ==
  \/ \E c \in Choices : Refresh(c) \/ UpdateMap(c) \/ LoadHost(c) \/ View(c)
  \/ \E c \in Choices, force \in BOOLEAN : RefreshAgents(c, force)
  \/ UpdateMapUnfiltered \/ LoadFailedHost \/ ViewFolder
  \/ \E a \in answers : Loaded(a) \/ Clamped(a) \/ Failed(a)
  \/ Clear \/ \E p \in Panels : Close(p)

Spec == Init /\ [][Next]_vars

-------------------------------------------------------------------------------
(* Properties *)

(* However late and in whatever order answers arrive, what a panel shows    *)
(* is what it was last asked for, as soon as no answer to that is awaited.  *)
LatestIsShown ==
  \A p \in Panels \ closed :
    (\A a \in answers : ~(a.panel = p /\ a.number = number[p])) => shown[p] = asked[p]

(* The device list is never left waiting, its timer off, for an answer that *)
(* came or failed already.                                                  *)
TimerGoesOn ==
  busy /\ "agents" \notin closed =>
    \E a \in answers : a.panel = "agents" /\ a.number = number["agents"]

PanelsHold == LatestIsShown /\ TimerGoesOn
===============================================================================
