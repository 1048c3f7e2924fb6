-------------------------------- MODULE Console -------------------------------
(* The Windows console (desktop/main.py): one GUI thread with its timers    *)
(* and dialogs, and a pool of workers that call SERVER.  An answer is       *)
(* handed to the GUI thread whenever it comes, also inside the event loop   *)
(* of a dialog that is asking for a confirmation.                           *)
EXTENDS Naturals, FiniteSets, Sequences

CONSTANTS
  Servers, Hosts,
  MaxFlight,       \* bound: requests of the console at a time
  MaxEpochs,       \* bound: sessions begun and ended
  MaxJobs,         \* bound: jobs submitted
  MaxEvents,       \* bound: requests that are lost, inventories and books that others save
  None

VARIABLES
  truth, shelf,    \* the inventory of each SERVER, its equipment book ({}: there is none)
  jobs,            \* the jobs of all SERVERs
  epoch, client,   \* self.epoch, self.client
  inventory, checked,  \* self.servers, the checked rows of target_table
  listed, chosen,  \* self.equipment_books, book_selector: is the book the active one
  active, loaded,  \* active_job, loaded_job
  pollBusy, inventoryBusy, pending,  \* busy flags, submission_pending
  shown, plan,     \* the patch job on display; patch_plan_id with its button
  dialog,          \* a review that waits for Yes or No, or None
  flight,          \* requests: asked, served or lost, not yet delivered
  events

server == <<truth, shelf, jobs>>
books == <<listed, chosen>>
views == <<inventory, checked, books, shown, plan>>
flags == <<pollBusy, inventoryBusy, pending>>
vars == <<server, epoch, client, views, active, loaded, flags, dialog, flight, events>>

Calls == {"hello", "inventory", "refresh", "books", "poll", "start", "result"}
Kinds == {"command", "list", "plan", "apply"}
Statuses == {"running", "completed", "failed"}
JobIds == 1..MaxJobs
Job == [kind : Kinds, server : Servers, status : Statuses]
Args == UNION {Kinds, JobIds, {None, "book"}}
Request ==
  [epoch : 0..MaxEpochs, server : Servers, call : Calls, arg : Args,
   state : {"asked", "answered", "failed"},
   value : SUBSET (Hosts \cup JobIds \cup (JobIds \X Statuses))]
Dialog == [reviewed : SUBSET Hosts, replaced : BOOLEAN]

(* Assumption: what the constants may be.                                   *)
SettingOK ==
  /\ MaxFlight \in Nat /\ MaxEpochs \in Nat /\ MaxJobs \in Nat /\ MaxEvents \in Nat
  /\ None \notin Servers /\ None \notin JobIds /\ None \notin Request /\ None \notin Dialog

TypeOK ==
  /\ truth \in [Servers -> SUBSET Hosts] /\ shelf \in [Servers -> SUBSET Hosts]
  /\ jobs \in Seq(Job) /\ Len(jobs) <= MaxJobs
  /\ epoch \in 0..MaxEpochs /\ client \in Servers \cup {None}
  /\ inventory \subseteq Hosts /\ checked \subseteq inventory
  /\ listed \subseteq Hosts /\ chosen \in BOOLEAN
  /\ {active, loaded, shown, plan} \subseteq JobIds \cup {None}
  /\ {pollBusy, inventoryBusy, pending} \subseteq BOOLEAN
  /\ dialog \in Dialog \cup {None}
  /\ \A i \in 1..MaxFlight : flight[i] = None \/ flight[i].call \in Calls
  /\ events \in 0..MaxEvents

Init ==
  /\ truth = [s \in Servers |-> Hosts] /\ shelf \in [Servers -> SUBSET Hosts]
  /\ jobs = <<>> /\ epoch = 0 /\ client = None
  /\ inventory = {} /\ checked = {} /\ listed = {} /\ chosen = FALSE
  /\ active = None /\ loaded = None /\ shown = None /\ plan = None
  /\ pollBusy = FALSE /\ inventoryBusy = FALSE /\ pending = FALSE
  /\ dialog = None /\ flight = [i \in 1..MaxFlight |-> None]
  /\ events = 0

-------------------------------------------------------------------------------
(* work: a worker of the pool makes the call, in the session it began in.   *)
Free(f) == {i \in DOMAIN f : f[i] = None}
Work(f, e, s, call, arg) ==
  [f EXCEPT ![CHOOSE i \in Free(f) : \A k \in Free(f) : i <= k] =
     [epoch |-> e, server |-> s, call |-> call, arg |-> arg, state |-> "asked", value |-> {}]]

CanWork == Free(flight) # {}
User == dialog = None       \* a dialog takes all input

(* poll: at most one of its own at a time.                                  *)
Polled(f, e, s, busy) == IF busy THEN f ELSE Work(f, e, s, "poll", None)

Connect(s) ==
  /\ User /\ CanWork /\ epoch < MaxEpochs
  /\ flight' = Work(flight, epoch, s, "hello", None)
  /\ UNCHANGED <<server, epoch, client, views, active, loaded, flags, dialog, events>>

(* attach_client and disconnect_server begin a new epoch and clear all that *)
(* the last one left behind; a review stays open.                           *)
Cleared ==
  /\ inventory' = {} /\ checked' = {} /\ listed' = {} /\ chosen' = FALSE
  /\ shown' = None /\ plan' = None /\ active' = None
  /\ pending' = FALSE /\ inventoryBusy' = FALSE
  /\ dialog' = IF dialog = None THEN None ELSE [dialog EXCEPT !.replaced = TRUE]

Disconnect ==
  /\ User /\ client # None /\ epoch < MaxEpochs
  /\ epoch' = epoch + 1 /\ client' = None /\ pollBusy' = FALSE /\ Cleared
  /\ UNCHANGED <<server, loaded, flight, events>>

(* The timers: refresh_agent_inventory every 30 seconds, poll more often.   *)
Refresh ==
  /\ client # None /\ ~inventoryBusy /\ CanWork
  /\ inventoryBusy' = TRUE /\ flight' = Work(flight, epoch, client, "refresh", None)
  /\ UNCHANGED <<server, epoch, client, views, active, loaded, pollBusy, pending, dialog,
                 events>>

Poll ==
  /\ client # None /\ ~pollBusy /\ CanWork
  /\ pollBusy' = TRUE /\ flight' = Work(flight, epoch, client, "poll", None)
  /\ UNCHANGED <<server, epoch, client, views, active, loaded, inventoryBusy, pending, dialog,
                 events>>

(* The rows are the user's while no book is active.                         *)
Toggle(h) ==
  /\ User /\ h \in inventory /\ ~chosen
  /\ checked' = IF h \in checked THEN checked \ {h} ELSE checked \cup {h}
  /\ UNCHANGED <<server, epoch, client, inventory, books, shown, plan, active, loaded, flags,
                 dialog, flight, events>>

(* apply_book_selection: the rows of the active book are checked.           *)
Choose(book) ==
  /\ User /\ (book => listed # {}) /\ chosen' = book
  /\ checked' = IF book THEN listed \cap inventory ELSE checked
  /\ UNCHANGED <<server, epoch, client, inventory, listed, shown, plan, active, loaded, flags,
                 dialog, flight, events>>

(* refresh_books, also after manage_books with the book chosen there: what  *)
(* the selector is set back to when the answer comes is what it was before. *)
Selection(book) == IF book THEN "book" ELSE None
RefreshBooks ==
  /\ User /\ client # None /\ CanWork
  /\ \E book \in {chosen, TRUE} :
       flight' = Work(flight, epoch, client, "books", Selection(book))
  /\ UNCHANGED <<server, epoch, client, views, active, loaded, flags, dialog, events>>

(* checked_hosts                                                            *)
CheckedHosts == IF chosen THEN listed ELSE checked

(* start_job: nothing while a submission is unanswered or nothing checked.  *)
Startable == client # None /\ ~pending /\ CheckedHosts # {} /\ CanWork
Start(kind) ==
  /\ pending' = TRUE
  /\ flight' = Work(flight, epoch, client, "start", kind)

(* run_command, transfer_file, run_accounts: a message box shows the        *)
(* targets; what is submitted after Yes is read again: the rows checked, or *)
(* the hosts of the active book, as they are by then.                       *)
Review ==
  /\ User /\ client # None /\ CheckedHosts # {}
  /\ dialog' = [reviewed |-> CheckedHosts, replaced |-> FALSE]
  /\ UNCHANGED <<server, epoch, client, views, active, loaded, flags, flight, events>>

Answer ==
  /\ dialog # None /\ dialog' = None
  /\ \/ Startable /\ Start("command")
     \/ UNCHANGED <<pending, flight>>
  /\ UNCHANGED <<server, epoch, client, views, active, loaded, pollBusy, inventoryBusy, events>>

(* query_patches, plan_patches, apply_patches and a change of the packages  *)
(* asked for: the plan is given up, also when the job is not started.       *)
Patch(kind) ==
  /\ User /\ client # None /\ plan' = None
  /\ \/ Startable /\ Start(kind)
     \/ (pending \/ CheckedHosts = {}) /\ UNCHANGED <<pending, flight>>
  /\ UNCHANGED <<server, epoch, client, inventory, checked, books, shown, active, loaded,
                 pollBusy, inventoryBusy, dialog, events>>

QueryPatches == Patch("list")
PlanPatches == Patch("plan")
ApplyPatches == plan # None /\ Patch("apply")

Invalidate ==
  /\ User /\ plan # None /\ plan' = None
  /\ UNCHANGED <<server, epoch, client, inventory, checked, books, shown, active, loaded,
                 flags, dialog, flight, events>>

-------------------------------------------------------------------------------
(* SERVER: it takes a request when it comes.                                *)
JobsOf(s) == {j \in DOMAIN jobs : jobs[j].server = s}
Value(r) ==
  CASE r.call = "hello" -> {}
    [] r.call \in {"inventory", "refresh"} -> truth[r.server]
    [] r.call = "books" -> shelf[r.server]
    [] r.call = "poll" -> {<<j, jobs[j].status>> : j \in JobsOf(r.server)}
    [] r.call = "start" -> {Len(jobs) + 1}
    [] r.call = "result" -> {r.arg}

(* A submission may be refused; any request may be lost before SERVER takes *)
(* it, or its answer after that.                                            *)
Serve(i) ==
  /\ flight[i] # None
  /\ LET r == flight[i]
         answered == [flight EXCEPT ![i].state = "answered", ![i].value = Value(r)]
         failed == [flight EXCEPT ![i].state = "failed"] IN
     /\ r.state = "asked"
     /\ \/ r.call # "start" /\ flight' = answered /\ UNCHANGED <<jobs, events>>
        \/ /\ r.call = "start" /\ Len(jobs) < MaxJobs
           /\ jobs' = Append(jobs, [kind |-> r.arg, server |-> r.server, status |-> "running"])
           /\ \/ flight' = answered /\ UNCHANGED events
              \/ flight' = failed /\ events < MaxEvents /\ events' = events + 1
        \/ r.call = "start" /\ flight' = failed /\ UNCHANGED <<jobs, events>>
        \/ flight' = failed /\ events < MaxEvents /\ events' = events + 1 /\ UNCHANGED jobs
  /\ UNCHANGED <<truth, shelf, epoch, client, views, active, loaded, flags, dialog>>

Finish(j) ==
  /\ j \in DOMAIN jobs /\ jobs[j].status = "running"
  /\ \E s \in {"completed", "failed"} : jobs' = [jobs EXCEPT ![j].status = s]
  /\ UNCHANGED <<truth, shelf, epoch, client, views, active, loaded, flags, dialog, flight,
                 events>>

Save(s) ==
  /\ events < MaxEvents /\ events' = events + 1
  /\ \E hosts \in SUBSET Hosts :
       \/ truth' = [truth EXCEPT ![s] = hosts] /\ UNCHANGED shelf
       \/ shelf' = [shelf EXCEPT ![s] = hosts] /\ UNCHANGED truth
  /\ UNCHANGED <<jobs, epoch, client, views, active, loaded, flags, dialog, flight>>

-------------------------------------------------------------------------------
(* Callbacks in the GUI thread, each for request i of this epoch.           *)
MutantMine(i) == flight[i] # None
Mine(i) == flight[i] # None /\ flight[i].epoch = epoch
Is(i, call) == Mine(i) /\ flight[i].call = call /\ flight[i].state = "answered"
Landed(i) == [flight EXCEPT ![i] = None]

(* An answer to a session that is over is dropped.                          *)
Drop(i) ==
  /\ flight[i] # None /\ flight[i].state # "asked" /\ ~Mine(i)
  /\ flight' = Landed(i)
  /\ UNCHANGED <<server, epoch, client, views, active, loaded, flags, dialog, events>>

(* attach_client, with the reload and the poll it ends with.                *)
Attach(i) ==
  /\ Is(i, "hello") /\ epoch < MaxEpochs /\ Cardinality(Free(Landed(i))) >= 2
  /\ LET s == flight[i].server IN
     /\ epoch' = epoch + 1 /\ client' = s
     /\ flight' = Work(Work(Landed(i), epoch + 1, s, "inventory", None), epoch + 1, s, "poll", None)
     /\ pollBusy' = TRUE
  /\ loaded' = None /\ Cleared
  /\ UNCHANGED <<server, events>>

(* set_inventory: without a book the first rows of a session are all        *)
(* checked, later ones only if the very same target was.  The answer to     *)
(* reload is followed by a request for the books.                           *)
MutantKeep(rows) == rows \ (inventory \ checked)
Keep(rows) == IF inventory = {} THEN rows ELSE rows \cap checked

SetInventory(i) ==
  /\ Is(i, "inventory") \/ Is(i, "refresh")
  /\ inventory' = flight[i].value
  /\ checked' = IF chosen THEN listed \cap flight[i].value ELSE Keep(flight[i].value)
  /\ inventoryBusy' = (inventoryBusy /\ flight[i].call # "refresh")
  /\ dialog' = IF dialog = None \/ chosen \/ inventory # {} THEN dialog
               ELSE [dialog EXCEPT !.replaced = TRUE]
  /\ flight' = IF flight[i].call = "refresh" THEN Landed(i)
               ELSE Work(Landed(i), epoch, client, "books", Selection(chosen))
  /\ UNCHANGED <<server, epoch, client, books, shown, plan, active, loaded, pollBusy, pending,
                 events>>

(* loaded of refresh_books: the selector is set back to what it was; when   *)
(* that book is gone, nothing is checked.  A review stays open.             *)
SetBooks(i) ==
  /\ Is(i, "books")
  /\ LET was == flight[i].arg = "book" IN
     /\ listed' = flight[i].value /\ chosen' = (was /\ listed' # {})
     /\ checked' = IF was THEN listed' \cap inventory ELSE checked
     /\ dialog' = IF dialog = None \/ ~chosen' \/ (chosen /\ listed' = listed) THEN dialog
                  ELSE [dialog EXCEPT !.replaced = TRUE]
  /\ flight' = Landed(i)
  /\ UNCHANGED <<server, epoch, client, inventory, shown, plan, active, loaded, flags, events>>

Started(i) ==
  /\ Is(i, "start")
  /\ \E j \in flight[i].value : active' = j
  /\ loaded' = None /\ pending' = FALSE
  /\ flight' = Polled(Landed(i), epoch, client, pollBusy) /\ pollBusy' = TRUE
  /\ UNCHANGED <<server, epoch, client, views, inventoryBusy, dialog, events>>

(* set_jobs: statuses as they were when SERVER answered; the results of the *)
(* active job are fetched once when it has ended.                           *)
SetJobs(i) ==
  /\ Is(i, "poll")
  /\ LET load == /\ active # None /\ loaded # active
                 /\ \E s \in {"completed", "failed"} : <<active, s>> \in flight[i].value IN
     /\ loaded' = IF load THEN active ELSE loaded
     /\ flight' = IF load THEN Work(Landed(i), epoch, client, "result", active) ELSE Landed(i)
  /\ pollBusy' = FALSE
  /\ UNCHANGED <<server, epoch, client, inventory, checked, books, shown, plan, active,
                 inventoryBusy, pending, dialog, events>>

(* display_patches: a plan all of whose targets completed can be applied, a *)
(* query gives it up, any other patch job only replaces the display.        *)
Display(i) ==
  /\ Is(i, "result")
  /\ LET j == flight[i].arg IN
     /\ shown' = IF jobs[j].kind = "command" THEN shown ELSE j
     /\ plan' = CASE jobs[j].kind = "list" -> None
                  [] jobs[j].kind = "plan" /\ jobs[j].status = "completed" -> j
                  [] OTHER -> plan
  /\ flight' = Landed(i)
  /\ UNCHANGED <<server, epoch, client, inventory, checked, books, active, loaded, flags,
                 dialog, events>>

(* failure: any failed request lets the next poll begin.                    *)
MutantFailed(i) ==
  /\ Mine(i) /\ flight[i].state = "failed"
  /\ pollBusy' = FALSE
  /\ pending' = pending
  /\ inventoryBusy' = (inventoryBusy /\ flight[i].call # "refresh")
  /\ loaded' = IF flight[i].call = "result" /\ loaded = flight[i].arg THEN None ELSE loaded
  /\ flight' = Landed(i)
  /\ UNCHANGED <<server, epoch, client, views, active, dialog, events>>

Failed(i) ==
  /\ Mine(i) /\ flight[i].state = "failed"
  /\ pollBusy' = FALSE
  /\ pending' = (pending /\ flight[i].call # "start")
  /\ inventoryBusy' = (inventoryBusy /\ flight[i].call # "refresh")
  /\ loaded' = IF flight[i].call = "result" /\ loaded = flight[i].arg THEN None ELSE loaded
  /\ flight' = Landed(i)
  /\ UNCHANGED <<server, epoch, client, views, active, dialog, events>>

Callback(i) ==
  \/ Drop(i) \/ Attach(i) \/ SetInventory(i) \/ SetBooks(i) \/ Started(i) \/ SetJobs(i)
  \/ Display(i) \/ Failed(i)

Next ==
  \/ \E s \in Servers : Connect(s) \/ Save(s)
  \/ Disconnect \/ Refresh \/ Poll \/ RefreshBooks \/ Review \/ Answer
  \/ \E book \in BOOLEAN : Choose(book)
  \/ QueryPatches \/ PlanPatches \/ ApplyPatches \/ Invalidate
  \/ \E h \in Hosts : Toggle(h)
  \/ \E j \in JobIds : Finish(j)
  \/ \E i \in 1..MaxFlight : Serve(i) \/ Callback(i)

Spec == Init /\ [][Next]_vars

-------------------------------------------------------------------------------
(* Properties *)
InFlight(calls) == \E i \in DOMAIN flight : Mine(i) /\ flight[i].call \in calls

(* Nothing of one SERVER is ever displayed, or usable, in a session with    *)
(* another ("Old connection" answers, test_desktop_recovery.py:125-139).    *)
OneSession ==
  \A j \in {active, shown, plan} \ {None} : j \in JobsOf(client)

(* A busy flag is up only while the request that takes it down is under     *)
(* way: the console never stops polling, refreshing or submitting for good. *)
FlagsComeDown ==
  /\ pollBusy => InFlight({"poll"})
  /\ inventoryBusy => InFlight({"refresh"})
  /\ pending => InFlight({"start"})

(* What is submitted after a review was reviewed, whatever inventories come *)
(* behind the dialog.  Three things can put others in its place, each named *)
(* where it happens: another session (Cleared), the rows of an empty table, *)
(* which come all checked (SetInventory), and an answer to refresh_books    *)
(* that makes a book active or changes the hosts of the active one          *)
(* (SetBooks): start_job reads the targets after Yes (desktop/main.py:1594). *)
SubmitsReviewed ==
  dialog # None /\ pending' /\ ~pending => dialog.replaced \/ CheckedHosts \subseteq dialog.reviewed
ReviewedIsSubmitted == [][SubmitsReviewed]_vars

(* The plan that can be applied is the plan on display.                     *)
PlanIsShown == plan # None => shown = plan
===============================================================================
