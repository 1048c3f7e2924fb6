------------------------------ MODULE Operations ------------------------------
(* The components that share no state with each other here: the targets of  *)
(* jobs, what is done on a host, the files of SERVER and the console.  A    *)
(* behaviour is of one of them, its scenario, and the others do not move.   *)
(* Components name their own state, and a variable is what the component of *)
(* the scenario means by it; one that the component does not have is None.  *)
EXTENDS Naturals, FiniteSets

CONSTANTS
  None,
  Targets, Jobs, JobOf, AddressOf, Devices, Slots,  \* targets of jobs
  Addresses, MaxMoves,                              \* targets, assets and books
  Ops, Own, Extra,                                  \* accounts
  Files, MaxSwaps,                                  \* patches, and files of backups
  Most, Limit,                                      \* commands
  Connections, PublicKeys, HostOf, MaxCrashes,      \* host keys, and crashes of transfers
  Chunks, Names,                                    \* transfers
  FrontRequests, Users, Passwords, RequestSlots, CacheSize,  \* front end
  Servers, ConsoleHosts, MaxFlight, MaxEpochs, MaxJobs, MaxEvents,  \* console
  Hosts,                                            \* host keys, assets and books
  Agents,                                           \* assets
  Units, MaxUnread,                                 \* discovery
  BookIds,                                          \* books
  Choices, MaxAsks,                                 \* panels
  PageHosts,                                        \* pages
  Consoles, Images,                                 \* media
  DaySlots, WeekDays, MonthDays, Months, MaxDays, CronSteps, Last, MaxLate,  \* cron
  Threads, MaxOpens,                                \* logger
  MaxEdits, MaxFaults, MaxChanges, MaxSaves         \* bounds, of each scenario

VARIABLES
  scenario,
  kind, at, outcome, cancelled, slots, heavy, locks, moved, version, saved, early, job, step,
  told, busy, flock, account, file, read, temps, todo, raced, dropped, edits, faults, how,
  phase, packages, source, upload, root, unread, sent, plan, running, installed, swaps, login,
  may, rootPassword, length, way, process, printed, arrived, got, status, starts,
  overtaken, result, accepts, offers, seen, lock, registered, crashes, side, target, pending, mem,
  disk, sig, late, used, excused, byLate, accounts, cache, fresh, saves, known, entitled,
  truth, shelf, jobs, epoch, client, inventory, checked, active, loaded, pollBusy, inventoryBusy,
  shown, dialog, flight, events, ip, moves, acked, doubt, family, smt, siblings, sockets,
  cpu, group, sees, raw, row, was, changes, real, capture, artifact, content, metadata,
  manifest, report, then, now, books, credentials, book, refresh, call, number, closed,
  asked, answers, asks, listing, stamp, load, mounts, listed, chosen, zone, line, after,
  next, instance, object, thread, handlers, open, opens

(* The variables that only one component has.                               *)
ofTargets == <<kind, outcome, cancelled, heavy, locks, version, saved, early>>
ofAccounts == <<step, flock, account, todo, dropped>>
ofPatches == <<how, phase, packages, upload, root, unread, running, installed, swaps>>
ofCommands == <<login, may, rootPassword, length, way, process, printed, arrived, status,
      starts>>
ofHostKeys == <<accepts, offers, lock, registered>>
ofTransfers == <<side, target, mem, sig, late, excused, byLate>>
ofFrontEnd == <<accounts, fresh, known, entitled>>
ofConsole == <<truth, shelf, jobs, epoch, client, active, pollBusy, inventoryBusy, flight, events>>
ofAssets == <<ip, moves, acked, doubt>>
ofDiscovery == <<family, smt, siblings, sockets, cpu, group, sees, raw, was>>
ofBackups == <<real, capture, artifact, content, metadata, manifest, report, then, now>>
ofBooks == <<books, credentials, book, refresh>>
ofPanels == <<number, closed, asked, answers, asks>>
ofPages == <<listing, stamp, load>>
ofMedia == <<mounts>>
ofCron == <<zone, line, after, next>>
ofLogger == <<instance, object, thread, handlers, open, opens>>
shared == <<at, slots, moved, job, told, busy, file, read, temps, raced, edits, faults,
    source, sent, plan, got, result, overtaken, seen, crashes, pending, disk, used, cache, saves,
    inventory, checked, loaded, shown, dialog, row, changes, call, listed, chosen>>
allVars == <<scenario, shared, ofTargets, ofAccounts, ofPatches, ofCommands, ofHostKeys,
    ofTransfers, ofFrontEnd, ofConsole, ofAssets, ofDiscovery, ofBackups, ofBooks, ofPanels,
    ofPages, ofMedia, ofCron, ofLogger>>

T == INSTANCE Targets
A == INSTANCE Accounts WITH
  MaxEdits <- MaxEdits["accounts"], MaxFaults <- MaxFaults["accounts"]
P == INSTANCE Patches WITH
  MaxEdits <- MaxEdits["patches"], MaxFaults <- MaxFaults["patches"]
R == INSTANCE RemoteCommand
H == INSTANCE HostKeys WITH
  Keys <- PublicKeys
X == INSTANCE Transfers WITH
  MaxChanges <- MaxChanges["transfers"], MaxFaults <- MaxFaults["transfers"]
F == INSTANCE FrontEnd WITH
  MaxSaves <- MaxSaves["frontend"], Slots <- RequestSlots,
  Requests <- FrontRequests
C == INSTANCE Console WITH
  Hosts <- ConsoleHosts
I == INSTANCE Assets WITH
  MaxEdits <- MaxEdits["assets"], MaxFaults <- MaxFaults["assets"]
D == INSTANCE Discovery WITH
  MaxChanges <- MaxChanges["discovery"], MaxFaults <- MaxFaults["discovery"]
K == INSTANCE Backups WITH
  MaxChanges <- MaxChanges["backups"], MaxFaults <- MaxFaults["backups"]
B == INSTANCE Books WITH
  MaxEdits <- MaxEdits["books"], MaxSaves <- MaxSaves["books"]
N == INSTANCE Panels
G == INSTANCE Pages WITH
  MaxChanges <- MaxChanges["pages"], Hosts <- PageHosts
M == INSTANCE Media WITH
  MaxChanges <- MaxChanges["media"], MaxFaults <- MaxFaults["media"]
Q == INSTANCE Cron WITH
  Slots <- DaySlots, Steps <- CronSteps, Late <- MaxLate
L == INSTANCE Logger WITH
  MaxFaults <- MaxFaults["logger"]

(* Assumption: the constants are what each component takes them for.        *)
ASSUME SettingsOK ==
  /\ T!SettingOK /\ A!SettingOK /\ P!SettingOK /\ R!SettingOK /\ H!SettingOK /\ X!SettingOK
  /\ F!SettingOK /\ C!SettingOK /\ I!SettingOK /\ D!SettingOK /\ K!SettingOK /\ B!SettingOK
  /\ N!SettingOK /\ G!SettingOK /\ M!SettingOK /\ Q!SettingOK /\ L!SettingOK

(* A component does not have the variables of the others.                   *)
Unused ==
  /\ scenario # "targets" =>
       /\ kind = None /\ outcome = None /\ cancelled = None /\ heavy = None /\ locks = None
       /\ version = None /\ saved = None /\ early = None
  /\ scenario # "accounts" =>
       /\ step = None /\ flock = None /\ account = None /\ todo = None /\ dropped = None
  /\ scenario # "patches" =>
       /\ how = None /\ phase = None /\ packages = None /\ upload = None /\ root = None
       /\ unread = None /\ running = None /\ installed = None /\ swaps = None
  /\ scenario # "commands" =>
       /\ login = None /\ may = None /\ rootPassword = None /\ length = None /\ way = None
       /\ process = None /\ printed = None /\ arrived = None /\ status = None /\ starts = None
  /\ scenario # "hostkeys" =>
       /\ accepts = None /\ offers = None /\ lock = None /\ registered = None
  /\ scenario # "transfers" =>
       /\ side = None /\ target = None /\ mem = None /\ sig = None /\ late = None
       /\ excused = None /\ byLate = None
  /\ scenario # "frontend" =>
       /\ accounts = None /\ fresh = None /\ known = None /\ entitled = None
  /\ scenario # "console" =>
       /\ truth = None /\ shelf = None /\ jobs = None /\ epoch = None /\ client = None /\ active = None
       /\ pollBusy = None /\ inventoryBusy = None /\ flight = None /\ events = None
  /\ scenario # "assets" => ip = None /\ moves = None /\ acked = None /\ doubt = None
  /\ scenario # "discovery" =>
       /\ family = None /\ smt = None /\ siblings = None /\ sockets = None /\ cpu = None
       /\ group = None /\ sees = None /\ raw = None /\ was = None
  /\ scenario # "backups" =>
       /\ real = None /\ capture = None /\ artifact = None /\ content = None
       /\ metadata = None /\ manifest = None /\ report = None /\ then = None /\ now = None
  /\ scenario # "books" =>
       /\ books = None /\ credentials = None /\ book = None /\ refresh = None
  /\ scenario # "panels" =>
       /\ number = None /\ closed = None /\ asked = None /\ answers = None /\ asks = None
  /\ scenario # "pages" => listing = None /\ stamp = None /\ load = None
  /\ scenario # "media" => mounts = None
  /\ scenario # "cron" => zone = None /\ line = None /\ after = None /\ next = None
  /\ scenario # "logger" =>
       /\ instance = None /\ object = None /\ thread = None /\ handlers = None /\ open = None
       /\ opens = None
  /\ scenario \notin {"targets", "patches", "hostkeys", "transfers", "frontend", "discovery",
                  "backups"} =>
       /\ at = None
  /\ scenario \notin {"targets", "frontend"} => slots = None
  /\ scenario \notin {"targets", "pages"} => moved = None
  /\ scenario \notin {"accounts", "assets", "books"} => job = None
  /\ scenario \notin {"accounts", "patches", "transfers"} => told = None
  /\ scenario \notin {"accounts", "panels"} => busy = None
  /\ scenario \notin {"accounts", "hostkeys", "media"} => file = None
  /\ scenario \notin {"accounts", "media"} => read = None
  /\ scenario \notin {"accounts", "hostkeys"} => temps = None
  /\ scenario \notin {"accounts", "patches"} => raced = None
  /\ scenario \notin {"accounts", "patches", "assets", "books"} => edits = None
  /\ scenario \notin {"accounts", "patches", "transfers", "assets", "discovery", "backups",
                  "media", "logger"} =>
       /\ faults = None
  /\ scenario \notin {"patches", "transfers"} => source = None
  /\ scenario \notin {"patches", "frontend"} => sent = None
  /\ scenario \notin {"patches", "console"} => plan = None
  /\ scenario \notin {"commands", "pages"} => got = None
  /\ scenario \notin {"commands", "backups"} => result = None /\ overtaken = None
  /\ scenario \notin {"hostkeys", "pages"} => seen = None
  /\ scenario \notin {"hostkeys", "transfers"} => crashes = None
  /\ scenario \notin {"transfers", "console"} => pending = None
  /\ scenario \notin {"transfers", "assets"} => disk = None
  /\ scenario \notin {"transfers", "books"} => used = None
  /\ scenario \notin {"frontend", "assets", "pages"} => cache = None
  /\ scenario \notin {"frontend", "books"} => saves = None
  /\ scenario \notin {"console", "books"} =>
       /\ inventory = None /\ checked = None /\ loaded = None
  /\ scenario \notin {"console", "panels"} => shown = None
  /\ scenario \notin {"console", "books", "media"} => dialog = None
  /\ scenario \notin {"discovery", "backups"} => row = None
  /\ scenario \notin {"discovery", "backups", "pages", "media"} => changes = None
  /\ scenario \notin {"books", "media"} => call = None
  /\ scenario \notin {"console", "media"} => listed = None /\ chosen = None

OthersStay ==
  /\ scenario # "targets" => UNCHANGED ofTargets
  /\ scenario # "accounts" => UNCHANGED ofAccounts
  /\ scenario # "patches" => UNCHANGED ofPatches
  /\ scenario # "commands" => UNCHANGED ofCommands
  /\ scenario # "hostkeys" => UNCHANGED ofHostKeys
  /\ scenario # "transfers" => UNCHANGED ofTransfers
  /\ scenario # "frontend" => UNCHANGED ofFrontEnd
  /\ scenario # "console" => UNCHANGED ofConsole
  /\ scenario # "assets" => UNCHANGED ofAssets
  /\ scenario # "discovery" => UNCHANGED ofDiscovery
  /\ scenario # "backups" => UNCHANGED ofBackups
  /\ scenario # "books" => UNCHANGED ofBooks
  /\ scenario # "panels" => UNCHANGED ofPanels
  /\ scenario # "pages" => UNCHANGED ofPages
  /\ scenario # "media" => UNCHANGED ofMedia
  /\ scenario # "cron" => UNCHANGED ofCron
  /\ scenario # "logger" => UNCHANGED ofLogger
  /\ scenario \notin {"targets", "patches", "hostkeys", "transfers", "frontend", "discovery",
                "backups"} =>
       UNCHANGED at
  /\ scenario \notin {"targets", "frontend"} => UNCHANGED slots
  /\ scenario \notin {"targets", "pages"} => UNCHANGED moved
  /\ scenario \notin {"accounts", "assets", "books"} => UNCHANGED job
  /\ scenario \notin {"accounts", "patches", "transfers"} => UNCHANGED told
  /\ scenario \notin {"accounts", "panels"} => UNCHANGED busy
  /\ scenario \notin {"accounts", "hostkeys", "media"} => UNCHANGED file
  /\ scenario \notin {"accounts", "media"} => UNCHANGED read
  /\ scenario \notin {"accounts", "hostkeys"} => UNCHANGED temps
  /\ scenario \notin {"accounts", "patches"} => UNCHANGED raced
  /\ scenario \notin {"accounts", "patches", "assets", "books"} => UNCHANGED edits
  /\ scenario \notin {"accounts", "patches", "transfers", "assets", "discovery", "backups",
                "media", "logger"} =>
       UNCHANGED faults
  /\ scenario \notin {"patches", "transfers"} => UNCHANGED source
  /\ scenario \notin {"patches", "frontend"} => UNCHANGED sent
  /\ scenario \notin {"patches", "console"} => UNCHANGED plan
  /\ scenario \notin {"commands", "pages"} => UNCHANGED got
  /\ scenario \notin {"commands", "backups"} => UNCHANGED <<result, overtaken>>
  /\ scenario \notin {"hostkeys", "pages"} => UNCHANGED seen
  /\ scenario \notin {"hostkeys", "transfers"} => UNCHANGED crashes
  /\ scenario \notin {"transfers", "console"} => UNCHANGED pending
  /\ scenario \notin {"transfers", "assets"} => UNCHANGED disk
  /\ scenario \notin {"transfers", "books"} => UNCHANGED used
  /\ scenario \notin {"frontend", "assets", "pages"} => UNCHANGED cache
  /\ scenario \notin {"frontend", "books"} => UNCHANGED saves
  /\ scenario \notin {"console", "books"} => UNCHANGED <<inventory, checked, loaded>>
  /\ scenario \notin {"console", "panels"} => UNCHANGED shown
  /\ scenario \notin {"console", "books", "media"} => UNCHANGED dialog
  /\ scenario \notin {"discovery", "backups"} => UNCHANGED row
  /\ scenario \notin {"discovery", "backups", "pages", "media"} => UNCHANGED changes
  /\ scenario \notin {"books", "media"} => UNCHANGED call
  /\ scenario \notin {"console", "media"} => UNCHANGED <<listed, chosen>>

OperationsInit ==
  /\ \/ scenario = "targets" /\ T!Init
     \/ scenario = "accounts" /\ A!Init
     \/ scenario = "patches" /\ P!Init
     \/ scenario = "commands" /\ R!Init
     \/ scenario = "hostkeys" /\ H!Init
     \/ scenario = "transfers" /\ X!Init
     \/ scenario = "frontend" /\ F!Init
     \/ scenario = "console" /\ C!Init
     \/ scenario = "assets" /\ I!Init
     \/ scenario = "discovery" /\ D!Init
     \/ scenario = "backups" /\ K!Init
     \/ scenario = "books" /\ B!Init
     \/ scenario = "panels" /\ N!Init
     \/ scenario = "pages" /\ G!Init
     \/ scenario = "media" /\ M!Init
     \/ scenario = "cron" /\ Q!Init
     \/ scenario = "logger" /\ L!Init
  /\ Unused

OperationsNext ==
  /\ \/ scenario = "targets" /\ T!Next
     \/ scenario = "accounts" /\ A!Next
     \/ scenario = "patches" /\ P!Next
     \/ scenario = "commands" /\ R!Next
     \/ scenario = "hostkeys" /\ H!Next
     \/ scenario = "transfers" /\ X!Next
     \/ scenario = "frontend" /\ F!Next
     \/ scenario = "console" /\ C!Next
     \/ scenario = "assets" /\ I!Next
     \/ scenario = "discovery" /\ D!Next
     \/ scenario = "backups" /\ K!Next
     \/ scenario = "books" /\ B!Next
     \/ scenario = "panels" /\ N!Next
     \/ scenario = "pages" /\ G!Next
     \/ scenario = "media" /\ M!Next
     \/ scenario = "cron" /\ Q!Next
     \/ scenario = "logger" /\ L!Next
  /\ UNCHANGED scenario /\ OthersStay

OperationsSpec == OperationsInit /\ [][OperationsNext]_allVars

-------------------------------------------------------------------------------
(* Properties: what each component promises, in its scenario.               *)

(* Types: every reachable state of every scenario has the declared types.   *)
TypesHold ==
  /\ scenario = "targets" => T!TypeOK
  /\ scenario = "accounts" => A!TypeOK
  /\ scenario = "patches" => P!TypeOK
  /\ scenario = "commands" => R!TypeOK
  /\ scenario = "hostkeys" => H!TypeOK
  /\ scenario = "transfers" => X!TypeOK
  /\ scenario = "frontend" => F!TypeOK
  /\ scenario = "console" => C!TypeOK
  /\ scenario = "assets" => I!TypeOK
  /\ scenario = "discovery" => D!TypeOK
  /\ scenario = "backups" => K!TypeOK
  /\ scenario = "books" => B!TypeOK
  /\ scenario = "panels" => N!TypeOK
  /\ scenario = "pages" => G!TypeOK
  /\ scenario = "media" => M!TypeOK
  /\ scenario = "cron" => Q!TypeOK
  /\ scenario = "logger" => L!TypeOK

(* Targets: changes of one host exclude each other and start from a current *)
(* backup, and a target cancelled before it was connected is not touched.   *)
ChangesAreSafe == scenario = "targets" => T!ChangesAreSafe
CancelledInTime == scenario = "targets" => T!CancelledInTime

(* Accounts: what a check saw still holds when the command runs, keys that  *)
(* are reported as deployed are in the file, and no copy of it stays.       *)
AccountsHold == scenario = "accounts" => A!AccountsHold

(* Patches: what is installed is what the administrator reviewed, on the    *)
(* packages he reviewed it for, and nothing stays in the staging            *)
(* directories: only one that SERVER could not name may stay, empty, and    *)
(* its job fails.                                                           *)
PatchesHold == scenario = "patches" => P!PatchesHold

(* SSH: unless the exit status overtakes output of an attempt, a command's  *)
(* output is complete or it is reported as failed, and a command is not     *)
(* started a second time; a registered key is never replaced, whatever      *)
(* connections register at once, and a session is only with the registered  *)
(* key.                                                                     *)
EngineHolds ==
  [][/\ scenario = "commands" => (R!OutputIsWhole /\ R!StartsOnceIfRead)'
     /\ scenario = "hostkeys" => H!KeyIsKept /\ H!SessionsAreTrusted']_allVars

(* Transfers: success means that one version of the source is there as a    *)
(* whole; what is published is never short, is such a version unless a late *)
(* commit published it, and is not replaced; and every pending file has a   *)
(* record to resume it from, unless its record could not be saved or a      *)
(* request for it came late.                                                *)
TransfersHold ==
  [][scenario = "transfers" => X!TargetStays /\ X!PublishedWhole' /\ X!NoOrphans']_allVars

(* Front end: a request is served with the rights that the account has      *)
(* while it is at work, and every slot is given back.                       *)
FrontEndHolds == scenario = "frontend" => F!RightsAreCurrent /\ F!SlotsReturn

(* Console: what it shows and sends belongs to one session, and its busy    *)
(* flags come down whatever becomes of an answer, and what is submitted     *)
(* after a review was reviewed, unless another session, the rows of an      *)
(* empty table or an answer to refresh_books replaced it behind the dialog. *)
ConsoleHolds ==
  [][scenario = "console" => C!SubmitsReviewed /\ C!OneSession' /\ C!FlagsComeDown']_allVars

(* CI registry: an edit reported as updated is not lost to a collection,    *)
(* and an observation is filed for the machine that it describes.           *)
RecordsHold == scenario = "assets" => I!RecordsHold

(* Backups: a backup shown as completed holds what the host had, and what a *)
(* comparison reports are differences; but files that the exit status of a  *)
(* capture overtook read as missing.                                        *)
BackupsHold == scenario = "backups" => K!BackupsHold

(* Equipment books: a job runs on the hosts selected in a book, and a       *)
(* password goes to the address it was saved for.                           *)
BooksHold == scenario = "books" => B!BooksHold

(* Views of the console: stale answers are dropped, lists are loaded whole. *)
ViewsHold ==
  /\ scenario = "panels" => N!PanelsHold
  /\ scenario = "pages" => G!ListsHold
  /\ scenario = "media" => M!PackagesAreTheChosen

(* Algorithms: the next time of a cron line and what a collection says of   *)
(* processors agree with their reference definitions.                       *)
AlgorithmsAgree ==
  /\ scenario = "cron" => Q!EarliestIsNext
  /\ scenario = "discovery" => D!DiscoveryIsHonest

(* Logging: while the manager is configured its logger has each handler     *)
(* once, open and of the configured level, and otherwise none.  A record    *)
(* that is in flight when they are closed can still open its file again.    *)
HandlersExact == scenario = "logger" => L!HandlersExact
===============================================================================
