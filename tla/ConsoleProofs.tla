---------------------------- MODULE ConsoleProofs -----------------------------
(* What is proved of the console and its views.                             *)
EXTENDS ServerProofs, WellFoundedInduction

-------------------------------------------------------------------------------
(* Equipment books                                                          *)

(* A record keeps a password of the address it was saved for, or none.      *)
BooksKept == \A h \in Hosts :
  credentials[h] # None => credentials[h].password \in {None, credentials[h].ip}

BooksInv == B!TypeOK /\ BooksKept /\ B!TargetsAreShown /\ B!PasswordsStay

(* The initial states *)

LEMMA BooksInit == B!SettingOK /\ B!Init => BooksInv
<1>. SUFFICES ASSUME B!SettingOK, B!Init PROVE BooksInv
  OBVIOUS
<1>1. credentials \in [Hosts -> B!Record \cup {None}]
  BY DEF B!Init, B!Record
<1>2. 0 \in 0..MaxEdits["books"] /\ 0 \in 0..MaxSaves["books"]
  BY DEF B!SettingOK
<1>3. B!TypeOK
  BY <1>1, <1>2 DEF B!Init, B!TypeOK
<1>4. BooksKept
  BY DEF B!Init, BooksKept
<1>5. B!TargetsAreShown /\ B!PasswordsStay
  BY DEF B!Init, B!TargetsAreShown, B!PasswordsStay
<1>. QED  BY <1>3, <1>4, <1>5 DEF BooksInv

(* The steps *)

LEMMA BooksSaveInventoryKeeps ==
  ASSUME B!SettingOK, BooksInv, NEW h \in Hosts, B!SaveInventory(h)
  PROVE  BooksInv'
<1>. USE DEF BooksInv, B!SaveInventory, B!Edit
<1>1. B!TypeOK'  BY DEF B!SettingOK, B!TypeOK, B!Job, B!Record
<1>2. BooksKept'  BY DEF B!TypeOK, BooksKept
<1>3. B!TargetsAreShown'  BY DEF B!TargetsAreShown
<1>4. B!PasswordsStay'  BY DEF B!PasswordsStay
<1>. QED  BY <1>1, <1>2, <1>3, <1>4

LEMMA BooksToggleKeeps ==
  ASSUME B!SettingOK, BooksInv, NEW h \in Hosts, B!Toggle(h)
  PROVE  BooksInv'
<1>. USE DEF BooksInv, B!Toggle
<1>1. B!TypeOK'  BY DEF B!SettingOK, B!TypeOK, B!Job, B!Record
<1>2. BooksKept'  BY DEF B!TypeOK, BooksKept
<1>3. B!TargetsAreShown'  BY DEF B!TargetsAreShown
<1>4. B!PasswordsStay'  BY DEF B!PasswordsStay
<1>. QED  BY <1>1, <1>2, <1>3, <1>4

LEMMA BooksEditClientCredentialsKeeps ==
  ASSUME B!SettingOK, BooksInv, NEW h \in Hosts, B!EditClientCredentials(h)
  PROVE  BooksInv'
<1>. USE DEF BooksInv, B!EditClientCredentials, B!Listed
<1>1. B!TypeOK'  BY DEF B!SettingOK, B!TypeOK, B!Job, B!Record, B!Dialog
<1>2. BooksKept'  BY DEF B!TypeOK, BooksKept
<1>3. B!TargetsAreShown'  BY DEF B!TargetsAreShown
<1>4. B!PasswordsStay'  BY DEF B!PasswordsStay
<1>. QED  BY <1>1, <1>2, <1>3, <1>4

LEMMA BooksConnectKeeps ==
  ASSUME B!SettingOK, BooksInv, NEW h \in Hosts, B!Connect(h)
  PROVE  BooksInv'
<1>. USE DEF BooksInv, B!Still, B!Saved
<1>a. /\ job \in B!Job /\ h \in job.left /\ job' = [job EXCEPT !.left = job.left \ {h}]
      /\ UNCHANGED <<inventory, books, credentials, loaded, book, checked, refresh, dialog,
           call, edits, saves>>
  BY DEF B!Connect, B!TypeOK
<1>b. /\ job' \in B!Job /\ job'.ip = job.ip /\ job'.call = job.call /\ job # None
           /\ job' # None
  BY <1>a DEF B!Job, B!SettingOK
<1>c. \/ used' = used
      \/ /\ used' = used \cup {[password |-> credentials[h].password, to |-> job.ip[h]]}
         /\ credentials[h] # None /\ credentials[h] \in B!Record
              /\ credentials[h].password # None
         /\ credentials[h].ip = inventory[h] /\ inventory[h] = job.ip[h]
              /\ inventory[h] \in Addresses
  <2>1. credentials[h] \in B!Record \cup {None} /\ inventory[h] \in Addresses \cup {None}
    BY DEF B!TypeOK
  <2>2. CASE B!Still(h) /\ B!Saved(h) # None /\ B!Saved(h).password # None
    BY <2>1, <2>2 DEF B!Connect, B!Still, B!Saved
  <2>3. CASE ~(B!Still(h) /\ B!Saved(h) # None /\ B!Saved(h).password # None)
    BY <2>3 DEF B!Connect
  <2>. QED  BY <2>2, <2>3
<1>1. B!TypeOK'
  <2>1. used' \in SUBSET [password : Addresses, to : Addresses]
    BY <1>c DEF B!TypeOK, B!Record
  <2>. QED  BY <1>a, <1>b, <2>1 DEF B!TypeOK
<1>2. BooksKept'  BY <1>a, <1>b, <1>c DEF B!TypeOK, BooksKept
<1>3. B!TargetsAreShown'  BY <1>a, <1>b, <1>c DEF B!TargetsAreShown
<1>4. B!PasswordsStay'
  <2>1. credentials[h] # None => credentials[h].password \in {None, credentials[h].ip}
    BY DEF BooksKept
  <2>. QED  BY <1>c, <2>1 DEF B!PasswordsStay
<1>. QED  BY <1>1, <1>2, <1>3, <1>4

LEMMA BooksChangeBookKeeps ==
  ASSUME B!SettingOK, BooksInv, NEW b \in BookIds, B!ChangeBook(b)
  PROVE  BooksInv'
<1>. USE DEF BooksInv, B!ChangeBook, B!Edit, B!Listed
<1>1. B!TypeOK'  BY DEF B!SettingOK, B!TypeOK, B!Job, B!Record
<1>2. BooksKept'  BY DEF B!TypeOK, BooksKept
<1>3. B!TargetsAreShown'  BY DEF B!TargetsAreShown
<1>4. B!PasswordsStay'  BY DEF B!PasswordsStay
<1>. QED  BY <1>1, <1>2, <1>3, <1>4

LEMMA BooksApplyBookSelectionKeeps ==
  ASSUME B!SettingOK, BooksInv, NEW b \in BookIds \cup {None}, B!ApplyBookSelection(b)
  PROVE  BooksInv'
<1>. USE DEF BooksInv, B!ApplyBookSelection
<1>1. B!TypeOK'  BY DEF B!SettingOK, B!TypeOK, B!Job, B!Record
<1>2. BooksKept'  BY DEF B!TypeOK, BooksKept
<1>3. B!TargetsAreShown'  BY DEF B!TargetsAreShown
<1>4. B!PasswordsStay'  BY DEF B!PasswordsStay
<1>. QED  BY <1>1, <1>2, <1>3, <1>4

LEMMA BooksRefreshBooksKeeps ==
  ASSUME B!SettingOK, BooksInv, B!RefreshBooks
  PROVE  BooksInv'
<1>. USE DEF BooksInv, B!RefreshBooks, B!Refresh
<1>1. B!TypeOK'  BY DEF B!SettingOK, B!TypeOK, B!Job, B!Record
<1>2. BooksKept'  BY DEF B!TypeOK, BooksKept
<1>3. B!TargetsAreShown'  BY DEF B!TargetsAreShown
<1>4. B!PasswordsStay'  BY DEF B!PasswordsStay
<1>. QED  BY <1>1, <1>2, <1>3, <1>4

LEMMA BooksLoadedKeeps ==
  ASSUME B!SettingOK, BooksInv, B!Loaded
  PROVE  BooksInv'
<1>. USE DEF BooksInv, B!Loaded, B!Load
<1>1. B!TypeOK'  BY DEF B!SettingOK, B!TypeOK, B!Job, B!Record, B!Refresh
<1>2. BooksKept'  BY DEF B!TypeOK, BooksKept
<1>3. B!TargetsAreShown'  BY DEF B!TargetsAreShown
<1>4. B!PasswordsStay'  BY DEF B!PasswordsStay
<1>. QED  BY <1>1, <1>2, <1>3, <1>4

LEMMA BooksStartJobKeeps ==
  ASSUME B!SettingOK, BooksInv, B!StartJob
  PROVE  BooksInv'
<1>. USE DEF BooksInv, B!StartJob, B!CheckedHosts, B!Call
<1>1. B!TypeOK'  BY DEF B!SettingOK, B!TypeOK, B!Job, B!Record
<1>2. BooksKept'  BY DEF B!TypeOK, BooksKept
<1>3. B!TargetsAreShown'  BY DEF B!TargetsAreShown
<1>4. B!PasswordsStay'  BY DEF B!PasswordsStay
<1>. QED  BY <1>1, <1>2, <1>3, <1>4

LEMMA BooksSubmitKeeps ==
  ASSUME B!SettingOK, BooksInv, B!Submit
  PROVE  BooksInv'
<1>. USE DEF BooksInv, B!Listed
<1>a. /\ UNCHANGED <<inventory, books, credentials, loaded, book, checked, refresh, dialog,
           edits, saves, used>>
      /\ call' = None /\ call \in B!Call
  BY DEF B!Submit, B!TypeOK
<1>b. \/ job' = job
      \/ \E targets \in SUBSET B!Listed :
           /\ targets = call.names
           /\ job' = [call |-> call, left |-> targets,
                      ip |-> [h \in Hosts |-> IF h \in targets THEN inventory[h] ELSE None]]
  <2>1. B!Named(call) \in {{}, call.names}
    BY DEF B!Named
  <2>. QED  BY <2>1 DEF B!Submit
<1>1. B!TypeOK'
  <2>1. job' \in B!Job \cup {None}
    BY <1>a, <1>b DEF B!TypeOK, B!Job
  <2>. QED  BY <1>a, <2>1 DEF B!TypeOK
<1>2. BooksKept'  BY <1>a, <1>b DEF B!TypeOK, BooksKept
<1>3. B!TargetsAreShown'
  <2>1. CASE job' = job
    BY <2>1 DEF B!TargetsAreShown
  <2>2. CASE \E targets \in SUBSET B!Listed :
               /\ targets = call.names
               /\ job' = [call |-> call, left |-> targets,
                          ip |-> [h \in Hosts |-> IF h \in targets THEN inventory[h] ELSE None]]
    <3>1. PICK targets \in SUBSET B!Listed :
               /\ targets = call.names
               /\ job' = [call |-> call, left |-> targets,
                          ip |-> [h \in Hosts |-> IF h \in targets THEN inventory[h] ELSE None]]
      BY <2>2
    <3>2. /\ job'.call.names = targets
          /\ \A h \in Hosts : job'.ip[h] = IF h \in targets THEN inventory[h] ELSE None
      BY <3>1
    <3>. QED  BY <3>2 DEF B!TargetsAreShown, B!Listed
  <2>. QED  BY <1>b, <2>1, <2>2
<1>4. B!PasswordsStay'  BY <1>a, <1>b DEF B!PasswordsStay
<1>. QED  BY <1>1, <1>2, <1>3, <1>4

LEMMA BooksCredentialsSaveKeeps ==
  ASSUME B!SettingOK, BooksInv, NEW typed \in BOOLEAN, NEW use \in BOOLEAN,
           B!CredentialsSave(typed, use)
  PROVE  BooksInv'
<1>. USE DEF BooksInv, B!Listed
<1>a. /\ UNCHANGED <<inventory, books, loaded, book, checked, refresh, call, job, edits,
           used>>
      /\ dialog' = None /\ saves' \in 0..MaxSaves["books"]
  BY DEF B!CredentialsSave, B!TypeOK, B!SettingOK
<1>b. \/ credentials' = credentials
      \/ \E h \in Hosts, p \in Addresses \cup {None} :
           /\ credentials' = [credentials EXCEPT ![h] = [ip |-> inventory[h],
                password |-> p]]
           /\ p \in {None, inventory[h]} /\ inventory[h] \in Addresses
  <2>1. CASE credentials' = credentials
    BY <2>1
  <2>2. CASE credentials' # credentials
    <3>1. dialog.host \in Hosts
      BY DEF B!CredentialsSave, B!TypeOK, B!Dialog
    <3>2. PICK h \in Hosts : h = dialog.host
      BY <3>1
    <3>3. /\ inventory[h] # None
          /\ credentials' = [credentials EXCEPT ![h] =
               [ip |-> inventory[h], password |-> B!Password(h, typed, use)]]
      BY <2>2, <3>2 DEF B!CredentialsSave, B!Listed
    <3>4. inventory[h] \in Addresses
      BY <3>3 DEF B!TypeOK
    <3>5. B!Password(h, typed, use) \in {None, inventory[h]}
      <4>1. B!Saved(h) # None => B!Saved(h).password \in {None, inventory[h]}
        BY DEF B!Saved, BooksKept
      <4>. QED  BY <4>1 DEF B!Password
    <3>. QED  BY <3>3, <3>4, <3>5
  <2>. QED  BY <2>1, <2>2
<1>1. B!TypeOK'
  <2>1. credentials' \in [Hosts -> B!Record \cup {None}]
    BY <1>b DEF B!TypeOK, B!Record
  <2>. QED  BY <1>a, <2>1 DEF B!TypeOK
<1>2. BooksKept'  BY <1>a, <1>b DEF B!TypeOK, BooksKept
<1>3. B!TargetsAreShown'  BY <1>a, <1>b DEF B!TargetsAreShown
<1>4. B!PasswordsStay'  BY <1>a, <1>b DEF B!PasswordsStay
<1>. QED  BY <1>1, <1>2, <1>3, <1>4

LEMMA BooksStep == B!SettingOK /\ BooksInv /\ [B!Next]_(B!vars) => BooksInv'
<1>. SUFFICES ASSUME B!SettingOK, BooksInv, [B!Next]_(B!vars) PROVE BooksInv'
  OBVIOUS
<1>1. CASE \E h \in Hosts : B!SaveInventory(h)
  BY <1>1, BooksSaveInventoryKeeps
<1>2. CASE \E h \in Hosts : B!Toggle(h)
  BY <1>2, BooksToggleKeeps
<1>3. CASE \E h \in Hosts : B!Connect(h)
  BY <1>3, BooksConnectKeeps
<1>4. CASE \E h \in Hosts : B!EditClientCredentials(h)
  BY <1>4, BooksEditClientCredentialsKeeps
<1>5. CASE \E b \in BookIds : B!ChangeBook(b)
  BY <1>5, BooksChangeBookKeeps
<1>6. CASE \E b \in BookIds \cup {None} : B!ApplyBookSelection(b)
  BY <1>6, BooksApplyBookSelectionKeeps
<1>7. CASE B!RefreshBooks
  BY <1>7, BooksRefreshBooksKeeps
<1>8. CASE B!Loaded
  BY <1>8, BooksLoadedKeeps
<1>9. CASE B!StartJob
  BY <1>9, BooksStartJobKeeps
<1>10. CASE B!Submit
  BY <1>10, BooksSubmitKeeps
<1>11. CASE \E typed, use \in BOOLEAN : B!CredentialsSave(typed, use)
  BY <1>11, BooksCredentialsSaveKeeps
<1>12. CASE UNCHANGED B!vars
  <2>. USE <1>12 DEF B!vars, BooksInv
  <2>1. B!TypeOK'
    BY DEF B!TypeOK
  <2>2. BooksKept' /\ B!TargetsAreShown' /\ B!PasswordsStay'
    BY DEF BooksKept, B!TargetsAreShown, B!PasswordsStay
  <2>. QED  BY <2>1, <2>2
<1>. QED  BY <1>1, <1>2, <1>3, <1>4, <1>5, <1>6, <1>7, <1>8, <1>9, <1>10, <1>11, <1>12
             DEF B!Next

LEMMA BooksRuns ==
  ASSUME [OperationsNext]_allVars, scenario' = "books"
  PROVE  scenario = "books" /\ [B!Next]_(B!vars)
<1>1. CASE OperationsNext
  BY <1>1 DEF OperationsNext
<1>2. CASE UNCHANGED allVars
  BY <1>2 DEF allVars, shared, ofBooks, B!vars
<1>. QED  BY <1>1, <1>2

LEMMA BooksAlways == OperationsSpec => [](scenario = "books" => BooksInv)
<1>1. OperationsInit => (scenario = "books" => BooksInv)
  BY SettingsOK, BooksInit DEF OperationsInit
<1>2. (scenario = "books" => BooksInv) /\ [OperationsNext]_allVars
        => (scenario = "books" => BooksInv)'
  BY SettingsOK, BooksRuns, BooksStep
<1>. QED  BY <1>1, <1>2, PTL DEF OperationsSpec

(* For any hosts, addresses and books: a job has exactly the hosts that     *)
(* were shown when it was started, and a saved password is sent only to the *)
(* address it was saved for.                                                *)
THEOREM BooksCorrect == OperationsSpec => []BooksHold
<1>1. (scenario = "books" => BooksInv) => BooksHold
  BY DEF BooksInv, BooksHold, B!BooksHold
<1>. QED  BY <1>1, BooksAlways, PTL

-------------------------------------------------------------------------------
(* Media                                                                    *)

(* At the directory of an identity there is nothing but its image.          *)
MountsAreTheirs == \A i \in Images : mounts[i] \subseteq {i}

(* What a dialog lists and what was chosen is of the image it is about.     *)
ListedIsMounted == \A c \in Consoles : listed[c] # None => listed[c] = dialog[c]
ChosenIsMounted == \A c \in Consoles : chosen[c] # None => chosen[c].id = chosen[c].image

(* A console mounts an image only when it has no dialog open.               *)
MountOpensDialog == call # None => dialog[call.console] = None

MediaInv ==
  /\ M!TypeOK /\ MountsAreTheirs /\ ListedIsMounted /\ ChosenIsMounted /\ MountOpensDialog
  /\ M!PackagesAreTheChosen

LEMMA MediaInit == M!SettingOK /\ M!Init => MediaInv
BY DEF M!SettingOK, M!Init, MediaInv, M!TypeOK, MountsAreTheirs, ListedIsMounted,
   ChosenIsMounted, MountOpensDialog, M!PackagesAreTheChosen

LEMMA MediaMountKeeps ==
  ASSUME M!SettingOK, MediaInv, M!Mount PROVE MediaInv'
<1>. USE DEF M!Mount
<1>1. /\ call.image \in Images /\ call.console \in Consoles /\ dialog[call.console] = None
      /\ UNCHANGED <<file, listed, chosen, read, changes>> /\ call' = None
  BY DEF MediaInv, M!TypeOK, MountOpensDialog
<1>2. mounts' \in [Images -> SUBSET Images] /\ MountsAreTheirs'
  BY <1>1 DEF MediaInv, M!TypeOK, MountsAreTheirs, M!Mounted
<1>3. \/ dialog' = [dialog EXCEPT ![call.console] = call.image]
      \/ dialog' = dialog
  OBVIOUS
<1>4. faults' \in 0..MaxFaults["media"]
  BY DEF M!Fault, M!SettingOK, MediaInv, M!TypeOK
<1>5. M!TypeOK'
  BY <1>1, <1>2, <1>3, <1>4 DEF MediaInv, M!TypeOK
<1>6. ListedIsMounted'
  BY <1>1, <1>3 DEF MediaInv, M!TypeOK, ListedIsMounted
<1>. QED
  BY <1>1, <1>2, <1>5, <1>6 DEF MediaInv, ChosenIsMounted, MountOpensDialog,
     M!PackagesAreTheChosen

LEMMA MediaStep == M!SettingOK /\ MediaInv /\ [M!Next]_(M!vars) => MediaInv'
<1>. SUFFICES ASSUME M!SettingOK, MediaInv, [M!Next]_(M!vars) PROVE MediaInv'
  OBVIOUS
<1>. USE DEF M!SettingOK, MediaInv, M!TypeOK, MountsAreTheirs, ListedIsMounted,
             ChosenIsMounted, MountOpensDialog, M!PackagesAreTheChosen
<1>1. CASE M!Replace
  BY <1>1 DEF M!Replace
<1>2. CASE M!Reboot
  BY <1>2 DEF M!Reboot
<1>3. CASE M!Mount
  BY <1>3, MediaMountKeeps
<1>4. ASSUME NEW c \in Consoles, M!Open(c) PROVE MediaInv'
  BY <1>4 DEF M!Open
<1>5. ASSUME NEW c \in Consoles, M!Unmount(c) PROVE MediaInv'
  BY <1>5 DEF M!Unmount, M!Fault
<1>6. ASSUME NEW c \in Consoles, M!Packages(c) PROVE MediaInv'
  BY <1>6 DEF M!Packages
<1>7. ASSUME NEW c \in Consoles, M!Select(c) PROVE MediaInv'
  BY <1>7 DEF M!Select, M!Package
<1>8. ASSUME NEW c \in Consoles, M!Close(c) PROVE MediaInv'
  BY <1>8 DEF M!Close
<1>9. ASSUME NEW c \in Consoles, M!Plan(c) PROVE MediaInv'
  BY <1>9 DEF M!Plan, M!Package
<1>10. CASE UNCHANGED M!vars
  BY <1>10 DEF M!vars
<1>. QED  BY <1>1, <1>2, <1>3, <1>4, <1>5, <1>6, <1>7, <1>8, <1>9, <1>10 DEF M!Next

LEMMA MediaRuns ==
  ASSUME [OperationsNext]_allVars, scenario' = "media"
  PROVE  scenario = "media" /\ [M!Next]_(M!vars)
<1>1. CASE OperationsNext
  BY <1>1 DEF OperationsNext
<1>2. CASE UNCHANGED allVars
  BY <1>2 DEF allVars, shared, ofMedia, M!vars
<1>. QED  BY <1>1, <1>2

LEMMA MediaAlways == OperationsSpec => [](scenario = "media" => MediaInv)
<1>1. OperationsInit => (scenario = "media" => MediaInv)
  BY SettingsOK, MediaInit DEF OperationsInit
<1>2. (scenario = "media" => MediaInv) /\ [OperationsNext]_allVars
        => (scenario = "media" => MediaInv)'
  BY SettingsOK, MediaRuns, MediaStep
<1>. QED  BY <1>1, <1>2, PTL DEF OperationsSpec

-------------------------------------------------------------------------------
(* Panels                                                                   *)

(* Numbers only grow, and an answer under way has the number of its request. *)
AnswersNumbered == \A a \in answers : a.number <= number[a.panel]
AnswersDiffer ==
  \A a, b \in answers : a.panel = b.panel /\ a.number = b.number => a = b
CurrentIsAsked == \A a \in answers : N!Current(a) => asked[a.panel] = a.choice

(* Dialogs close, the list and the map stay; the numbers keep within the    *)
(* bound on requests, of which a list that is emptied needs twice as many.  *)
DialogsClose == closed \subseteq {"comparison", "preview", "agents"}
NumbersBounded ==
  /\ number["assets"] <= 2 * asks
  /\ asked["assets"] # None => number["assets"] < 2 * asks
  /\ \A p \in N!Panels \ {"assets"} :
       number[p] <= asks + 1 /\ (p \notin closed => number[p] <= asks)

PanelsInv ==
  /\ N!TypeOK /\ AnswersNumbered /\ AnswersDiffer /\ CurrentIsAsked /\ DialogsClose
  /\ NumbersBounded /\ N!LatestIsShown /\ N!TimerGoesOn

LEMMA PanelsInit == N!SettingOK /\ N!Init => PanelsInv
<1>. SUFFICES ASSUME N!SettingOK, N!Init PROVE PanelsInv
  OBVIOUS
<1>. USE DEF N!SettingOK, N!Init, N!Panels
<1>1. N!TypeOK
  <2>1. 0 \in 0..2 * MaxAsks + 1 /\ 0 \in 0..MaxAsks
    OBVIOUS
  <2>. QED  BY <2>1 DEF N!TypeOK
<1>2. NumbersBounded
  BY DEF NumbersBounded
<1>. QED
  BY <1>1, <1>2 DEF PanelsInv, AnswersNumbered, AnswersDiffer, CurrentIsAsked,
     DialogsClose, N!LatestIsShown, N!TimerGoesOn

LEMMA PanelsAskKeeps ==
  ASSUME N!SettingOK, PanelsInv, NEW p \in N!Panels \ closed, NEW choice \in Choices,
         N!Ask(p, choice)
  PROVE  PanelsInv'
<1>. USE DEF N!Ask
<1>1. /\ asks \in Nat /\ asks' = asks + 1 /\ asks' \in 0..MaxAsks /\ MaxAsks \in Nat
      /\ number[p] \in Nat /\ number'[p] = number[p] + 1
      /\ \A q \in N!Panels \ {p} : number'[q] = number[q]
      /\ UNCHANGED <<closed, shown>>
  BY DEF N!SettingOK, PanelsInv, N!TypeOK
<1>2. /\ asked'[p] = choice /\ choice # None
      /\ \A q \in N!Panels \ {p} : asked'[q] = asked[q]
  BY DEF N!SettingOK, PanelsInv, N!TypeOK
<1>3. NumbersBounded' /\ number'[p] \in 0..2 * MaxAsks
  BY <1>1, <1>2 DEF PanelsInv, NumbersBounded, N!TypeOK, N!Panels
<1>. DEFINE new == [panel |-> p, number |-> number'[p], choice |-> choice]
<1>4. new \in N!Answer /\ answers' = answers \cup {new}
  BY <1>3 DEF N!Answer
<1>5. N!TypeOK'
  BY <1>1, <1>3, <1>4 DEF PanelsInv, N!TypeOK
<1>6. \A a \in answers : /\ a.panel \in N!Panels /\ a.number \in Nat
                         /\ a.number <= number[a.panel] /\ number[a.panel] \in Nat
  BY DEF PanelsInv, N!TypeOK, N!Answer, AnswersNumbered
<1>7. \A a \in answers : a.panel = p => a.number < number'[p]
  BY <1>1, <1>6
<1>8. AnswersNumbered'
  <2>1. \A a \in answers : a.number <= number'[a.panel]
    BY <1>1, <1>6
  <2>2. new.number <= number'[new.panel]
    BY <1>3
  <2>. QED  BY <1>4, <2>1, <2>2 DEF AnswersNumbered
<1>9. AnswersDiffer'
  BY <1>3, <1>4, <1>6, <1>7 DEF PanelsInv, AnswersDiffer
<1>10. CurrentIsAsked'
  BY <1>1, <1>2, <1>3, <1>4, <1>6, <1>7 DEF PanelsInv, CurrentIsAsked, N!Current
<1>11. N!LatestIsShown'
  BY <1>1, <1>2, <1>4 DEF PanelsInv, N!LatestIsShown
<1>12. N!TimerGoesOn'
  <2>1. CASE p = "agents"
    BY <1>4, <2>1 DEF N!TimerGoesOn
  <2>2. CASE p # "agents"
    BY <1>1, <1>4, <2>2 DEF PanelsInv, N!TimerGoesOn, N!Panels
  <2>. QED  BY <2>1, <2>2
<1>. QED
  BY <1>1, <1>3, <1>5, <1>8, <1>9, <1>10, <1>11, <1>12 DEF PanelsInv, DialogsClose

LEMMA PanelsLocalKeeps ==
  ASSUME N!SettingOK, PanelsInv, NEW p \in {"map", "comparison", "preview"} \ closed,
         N!ShowLocal(p)
  PROVE  PanelsInv'
<1>. USE DEF N!ShowLocal
<1>0. p \in N!Panels /\ p \notin {"assets", "agents"}
  BY DEF N!Panels
<1>1. /\ asks \in Nat /\ asks' = asks + 1 /\ asks' \in 0..MaxAsks /\ MaxAsks \in Nat
      /\ number[p] \in Nat /\ number'[p] = number[p] + 1
      /\ \A q \in N!Panels \ {p} : number'[q] = number[q]
      /\ UNCHANGED <<closed, answers, busy>>
  BY <1>0 DEF N!SettingOK, PanelsInv, N!TypeOK
<1>2. /\ asked'[p] = N!Local /\ shown'[p] = N!Local
      /\ \A q \in N!Panels \ {p} : asked'[q] = asked[q] /\ shown'[q] = shown[q]
  BY <1>0 DEF PanelsInv, N!TypeOK
<1>3. NumbersBounded' /\ number'[p] \in 0..2 * MaxAsks + 1
  BY <1>0, <1>1, <1>2 DEF PanelsInv, NumbersBounded, N!TypeOK, N!Panels
<1>4. N!TypeOK'
  BY <1>1, <1>3 DEF PanelsInv, N!TypeOK
<1>5. \A a \in answers : /\ a.panel \in N!Panels /\ a.number \in Nat
                         /\ a.number <= number[a.panel] /\ number[a.panel] \in Nat
  BY DEF PanelsInv, N!TypeOK, N!Answer, AnswersNumbered
<1>6. \A a \in answers : a.panel = p => a.number < number'[p]
  BY <1>1, <1>5
<1>7. AnswersNumbered'
  BY <1>1, <1>5 DEF AnswersNumbered
<1>8. AnswersDiffer'
  BY <1>1 DEF PanelsInv, AnswersDiffer
<1>9. CurrentIsAsked'
  BY <1>1, <1>2, <1>3, <1>5, <1>6 DEF PanelsInv, CurrentIsAsked, N!Current
<1>10. N!LatestIsShown'
  BY <1>1, <1>2 DEF PanelsInv, N!LatestIsShown
<1>11. N!TimerGoesOn'
  BY <1>0, <1>1 DEF PanelsInv, N!TimerGoesOn, N!Panels
<1>. QED
  BY <1>1, <1>3, <1>4, <1>7, <1>8, <1>9, <1>10, <1>11 DEF PanelsInv, DialogsClose

LEMMA PanelsAnswered ==
  ASSUME PanelsInv, NEW a \in answers
  PROVE  /\ a \in N!Answer /\ a.panel \in N!Panels /\ a.choice \in Choices
         /\ a.number \in Nat /\ number[a.panel] \in Nat /\ a.number <= number[a.panel]
         /\ \A b \in answers \ {a} : ~(b.panel = a.panel /\ b.number = a.number)
BY DEF PanelsInv, N!TypeOK, N!Answer, AnswersNumbered, AnswersDiffer

LEMMA PanelsLoadedKeeps ==
  ASSUME N!SettingOK, PanelsInv, NEW a \in answers, N!Loaded(a)
  PROVE  PanelsInv'
<1>. USE DEF N!Loaded
<1>1. answers' = answers \ {a} /\ UNCHANGED <<number, closed, asked, asks>>
  OBVIOUS
<1>2. N!TypeOK'
  BY <1>1, PanelsAnswered DEF PanelsInv, N!TypeOK
<1>3. AnswersNumbered' /\ AnswersDiffer' /\ CurrentIsAsked' /\ NumbersBounded' /\ DialogsClose'
  BY <1>1 DEF PanelsInv, AnswersNumbered, AnswersDiffer, CurrentIsAsked, N!Current,
     NumbersBounded, DialogsClose
<1>4. N!LatestIsShown'
  <2>. SUFFICES ASSUME NEW p \in N!Panels \ closed,
                       \A b \in answers \ {a} : ~(b.panel = p /\ b.number = number[p])
                PROVE  shown'[p] = asked[p]
    BY <1>1 DEF N!LatestIsShown
  <2>1. CASE N!Current(a) /\ p = a.panel
    BY <2>1, PanelsAnswered DEF PanelsInv, N!TypeOK, CurrentIsAsked
  <2>2. CASE ~(N!Current(a) /\ p = a.panel)
    <3>1. shown'[p] = shown[p]
      BY <2>2, PanelsAnswered DEF PanelsInv, N!TypeOK
    <3>2. \A b \in answers : ~(b.panel = p /\ b.number = number[p])
      BY <2>2 DEF N!Current
    <3>. QED  BY <3>1, <3>2 DEF PanelsInv, N!LatestIsShown
  <2>. QED  BY <2>1, <2>2
<1>5. N!TimerGoesOn'
  <2>. SUFFICES ASSUME busy', "agents" \notin closed
                PROVE  \E b \in answers \ {a} : b.panel = "agents" /\ b.number = number["agents"]
    BY <1>1 DEF N!TimerGoesOn
  <2>1. busy /\ ~(N!Current(a) /\ a.panel = "agents")
    OBVIOUS
  <2>2. PICK b \in answers : b.panel = "agents" /\ b.number = number["agents"]
    BY <2>1 DEF PanelsInv, N!TimerGoesOn
  <2>. QED  BY <2>1, <2>2 DEF N!Current
<1>. QED  BY <1>2, <1>3, <1>4, <1>5 DEF PanelsInv

LEMMA PanelsFailedKeeps ==
  ASSUME N!SettingOK, PanelsInv, NEW a \in answers, N!Failed(a)
  PROVE  PanelsInv'
<1>. USE DEF N!Failed
<1>1. answers' = answers \ {a} /\ UNCHANGED <<number, closed, shown, asks>>
  OBVIOUS
<1>2. N!TypeOK'
  BY <1>1, PanelsAnswered DEF PanelsInv, N!TypeOK
<1>3. AnswersNumbered' /\ AnswersDiffer' /\ DialogsClose'
  BY <1>1 DEF PanelsInv, AnswersNumbered, AnswersDiffer, DialogsClose
<1>4. CurrentIsAsked'
  <2>. SUFFICES ASSUME NEW b \in answers \ {a}, N!Current(b)
                PROVE  asked'[b.panel] = b.choice
    BY <1>1 DEF CurrentIsAsked, N!Current
  <2>1. asked[b.panel] = b.choice
    BY DEF PanelsInv, CurrentIsAsked
  <2>2. ~(N!Current(a) /\ a.panel = b.panel)
    BY PanelsAnswered DEF N!Current
  <2>. QED  BY <2>1, <2>2, PanelsAnswered DEF PanelsInv, N!TypeOK
<1>5. NumbersBounded'
  <2>1. N!Current(a) => asked[a.panel] # None
    BY PanelsAnswered DEF N!SettingOK, PanelsInv, CurrentIsAsked
  <2>2. asked'["assets"] # None => asked["assets"] # None
    BY <2>1 DEF PanelsInv, N!TypeOK
  <2>. QED  BY <1>1, <2>2 DEF PanelsInv, NumbersBounded
<1>6. N!LatestIsShown'
  <2>. SUFFICES ASSUME NEW p \in N!Panels \ closed,
                       \A b \in answers \ {a} : ~(b.panel = p /\ b.number = number[p])
                PROVE  shown[p] = asked'[p]
    BY <1>1 DEF N!LatestIsShown
  <2>1. CASE N!Current(a) /\ p = a.panel
    BY <2>1, PanelsAnswered DEF PanelsInv, N!TypeOK
  <2>2. CASE ~(N!Current(a) /\ p = a.panel)
    <3>1. asked'[p] = asked[p]
      BY <2>2, PanelsAnswered DEF PanelsInv, N!TypeOK
    <3>2. \A b \in answers : ~(b.panel = p /\ b.number = number[p])
      BY <2>2 DEF N!Current
    <3>. QED  BY <3>1, <3>2 DEF PanelsInv, N!LatestIsShown
  <2>. QED  BY <2>1, <2>2
<1>7. N!TimerGoesOn'
  BY <1>1 DEF PanelsInv, N!TimerGoesOn
<1>. QED  BY <1>2, <1>3, <1>4, <1>5, <1>6, <1>7 DEF PanelsInv

LEMMA PanelsClampedKeeps ==
  ASSUME N!SettingOK, PanelsInv, NEW a \in answers, N!Clamped(a)
  PROVE  PanelsInv'
<1>1. PICK choice \in Choices \ {a.choice} :
        /\ asks < MaxAsks /\ asks' = asks + 1
        /\ number' = [number EXCEPT !["assets"] = @ + 1]
        /\ asked' = [asked EXCEPT !["assets"] = choice]
        /\ answers' = (answers \ {a})
                        \cup {[a EXCEPT !.number = number'["assets"], !.choice = choice]}
  BY DEF N!Clamped
<1>2. /\ a.panel = "assets" /\ N!Current(a) /\ "assets" \in N!Panels
      /\ UNCHANGED <<closed, shown, busy>>
  BY DEF N!Clamped, N!Panels
<1>3. /\ asks \in Nat /\ asks' \in 0..MaxAsks /\ MaxAsks \in Nat
      /\ number["assets"] \in Nat /\ number'["assets"] = number["assets"] + 1
      /\ \A q \in N!Panels \ {"assets"} : number'[q] = number[q]
  BY <1>1, <1>2 DEF N!SettingOK, PanelsInv, N!TypeOK
<1>4. /\ asked'["assets"] = choice /\ choice # None /\ asked["assets"] # None
      /\ \A q \in N!Panels \ {"assets"} : asked'[q] = asked[q]
  BY <1>1, <1>2, PanelsAnswered DEF N!SettingOK, PanelsInv, N!TypeOK, CurrentIsAsked
<1>5. NumbersBounded' /\ number'["assets"] \in 0..2 * MaxAsks
  BY <1>1, <1>2, <1>3, <1>4 DEF PanelsInv, NumbersBounded, N!TypeOK, N!Panels
<1>6. PICK new \in N!Answer :
        /\ new.panel = "assets" /\ new.number = number'["assets"] /\ new.choice = choice
        /\ answers' = (answers \ {a}) \cup {new}
  BY <1>1, <1>2, <1>5, PanelsAnswered DEF N!Answer
<1>7. N!TypeOK'
  BY <1>1, <1>2, <1>3, <1>5, <1>6 DEF PanelsInv, N!TypeOK
<1>8. \A b \in answers : /\ b.panel \in N!Panels /\ b.number \in Nat
                         /\ b.number <= number[b.panel] /\ number[b.panel] \in Nat
  BY PanelsAnswered
<1>9. \A b \in answers : b.panel = "assets" => b.number < number'["assets"]
  BY <1>3, <1>8
<1>10. AnswersNumbered'
  <2>1. \A b \in answers : b.number <= number'[b.panel]
    BY <1>3, <1>8
  <2>2. new.number <= number'[new.panel]
    BY <1>5, <1>6
  <2>. QED  BY <1>6, <2>1, <2>2 DEF AnswersNumbered
<1>11. AnswersDiffer'
  BY <1>5, <1>6, <1>8, <1>9 DEF PanelsInv, AnswersDiffer
<1>12. CurrentIsAsked'
  BY <1>2, <1>3, <1>4, <1>6, <1>8, <1>9 DEF PanelsInv, CurrentIsAsked, N!Current
<1>13. N!LatestIsShown'
  BY <1>2, <1>3, <1>4, <1>6 DEF PanelsInv, N!LatestIsShown
<1>14. N!TimerGoesOn'
  BY <1>2, <1>3, <1>6 DEF PanelsInv, N!TimerGoesOn, N!Panels
<1>. QED
  BY <1>2, <1>5, <1>7, <1>10, <1>11, <1>12, <1>13, <1>14 DEF PanelsInv, DialogsClose

LEMMA PanelsClearKeeps ==
  ASSUME N!SettingOK, PanelsInv, N!Clear PROVE PanelsInv'
<1>. USE DEF N!Clear
<1>1. /\ asks \in Nat /\ asks \in 0..MaxAsks /\ MaxAsks \in Nat /\ "assets" \in N!Panels
      /\ number["assets"] \in Nat /\ number'["assets"] = number["assets"] + 1
      /\ \A q \in N!Panels \ {"assets"} : number'[q] = number[q]
      /\ UNCHANGED <<closed, answers, busy, asks>>
  BY DEF N!SettingOK, PanelsInv, N!TypeOK, N!Panels
<1>2. /\ asked["assets"] # None /\ asked'["assets"] = None /\ shown'["assets"] = None
      /\ \A q \in N!Panels \ {"assets"} : asked'[q] = asked[q] /\ shown'[q] = shown[q]
  BY <1>1 DEF PanelsInv, N!TypeOK
<1>3. NumbersBounded' /\ number'["assets"] \in 0..2 * MaxAsks + 1
  BY <1>1, <1>2 DEF PanelsInv, NumbersBounded, N!TypeOK, N!Panels
<1>4. N!TypeOK'
  BY <1>1, <1>3 DEF PanelsInv, N!TypeOK
<1>5. \A b \in answers : /\ b.panel \in N!Panels /\ b.number \in Nat
                         /\ b.number <= number[b.panel] /\ number[b.panel] \in Nat
  BY PanelsAnswered
<1>6. AnswersNumbered' /\ AnswersDiffer'
  BY <1>1, <1>5 DEF PanelsInv, AnswersNumbered, AnswersDiffer
<1>7. CurrentIsAsked'
  BY <1>1, <1>2, <1>5 DEF PanelsInv, CurrentIsAsked, N!Current
<1>8. N!LatestIsShown' /\ N!TimerGoesOn'
  BY <1>1, <1>2 DEF PanelsInv, N!LatestIsShown, N!TimerGoesOn, N!Panels
<1>. QED  BY <1>1, <1>3, <1>4, <1>6, <1>7, <1>8 DEF PanelsInv, DialogsClose

LEMMA PanelsCloseKeeps ==
  ASSUME N!SettingOK, PanelsInv, NEW p \in N!Panels, N!Close(p) PROVE PanelsInv'
<1>. USE DEF N!Close
<1>1. /\ asks \in 0..MaxAsks /\ MaxAsks \in Nat /\ p # "assets" /\ p # "map"
      /\ p \notin closed /\ closed' = closed \cup {p}
      /\ number'[p] \in {number[p], number[p] + 1} /\ number[p] \in Nat
      /\ \A q \in N!Panels \ {p} : number'[q] = number[q]
      /\ UNCHANGED <<asked, shown, answers, busy, asks>>
  BY DEF N!SettingOK, PanelsInv, N!TypeOK
<1>2. NumbersBounded' /\ number'[p] \in 0..2 * MaxAsks + 1
  BY <1>1 DEF PanelsInv, NumbersBounded, N!TypeOK, N!Panels
<1>3. N!TypeOK'
  BY <1>1, <1>2 DEF PanelsInv, N!TypeOK
<1>4. \A b \in answers : /\ b.panel \in N!Panels /\ b.number \in Nat
                         /\ b.number <= number[b.panel] /\ number[b.panel] \in Nat
  BY PanelsAnswered
<1>5. AnswersNumbered' /\ AnswersDiffer'
  BY <1>1, <1>4 DEF PanelsInv, AnswersNumbered, AnswersDiffer
<1>6. CurrentIsAsked'
  BY <1>1, <1>4 DEF PanelsInv, CurrentIsAsked, N!Current
<1>7. N!LatestIsShown' /\ N!TimerGoesOn'
  BY <1>1 DEF PanelsInv, N!LatestIsShown, N!TimerGoesOn, N!Panels
<1>8. DialogsClose'
  BY DEF PanelsInv, DialogsClose
<1>. QED  BY <1>2, <1>3, <1>5, <1>6, <1>7, <1>8 DEF PanelsInv

LEMMA PanelsStep == N!SettingOK /\ PanelsInv /\ [N!Next]_(N!vars) => PanelsInv'
<1>. SUFFICES ASSUME N!SettingOK, PanelsInv, [N!Next]_(N!vars) PROVE PanelsInv'
  OBVIOUS
<1>1. "assets" \notin closed /\ "map" \notin closed
  BY DEF PanelsInv, DialogsClose
<1>2. ASSUME NEW c \in Choices,
             N!Refresh(c) \/ N!UpdateMap(c) \/ N!LoadHost(c) \/ N!View(c)
      PROVE  PanelsInv'
  BY <1>1, <1>2, PanelsAskKeeps DEF N!Refresh, N!UpdateMap, N!LoadHost, N!View, N!Panels
<1>3. ASSUME NEW c \in Choices, NEW force \in BOOLEAN, N!RefreshAgents(c, force)
      PROVE  PanelsInv'
  BY <1>3, PanelsAskKeeps DEF N!RefreshAgents, N!Panels
<1>4. CASE N!UpdateMapUnfiltered \/ N!LoadFailedHost \/ N!ViewFolder
  BY <1>1, <1>4, PanelsLocalKeeps DEF N!UpdateMapUnfiltered, N!LoadFailedHost, N!ViewFolder
<1>5. ASSUME NEW a \in answers, N!Loaded(a) \/ N!Clamped(a) \/ N!Failed(a)
      PROVE  PanelsInv'
  BY <1>5, PanelsLoadedKeeps, PanelsClampedKeeps, PanelsFailedKeeps
<1>6. CASE N!Clear
  BY <1>6, PanelsClearKeeps
<1>7. ASSUME NEW p \in N!Panels, N!Close(p) PROVE PanelsInv'
  BY <1>7, PanelsCloseKeeps
<1>8. CASE UNCHANGED N!vars
  BY <1>8 DEF N!vars, PanelsInv, N!TypeOK, AnswersNumbered, AnswersDiffer,
     CurrentIsAsked, N!Current, DialogsClose, NumbersBounded, N!LatestIsShown,
     N!TimerGoesOn
<1>. QED  BY <1>2, <1>3, <1>4, <1>5, <1>6, <1>7, <1>8 DEF N!Next

LEMMA PanelsRuns ==
  ASSUME [OperationsNext]_allVars, scenario' = "panels"
  PROVE  scenario = "panels" /\ [N!Next]_(N!vars)
<1>1. CASE OperationsNext
  BY <1>1 DEF OperationsNext
<1>2. CASE UNCHANGED allVars
  BY <1>2 DEF allVars, shared, ofPanels, N!vars
<1>. QED  BY <1>1, <1>2

LEMMA PanelsAlways == OperationsSpec => [](scenario = "panels" => PanelsInv)
<1>1. OperationsInit => (scenario = "panels" => PanelsInv)
  BY SettingsOK, PanelsInit DEF OperationsInit
<1>2. (scenario = "panels" => PanelsInv) /\ [OperationsNext]_allVars
        => (scenario = "panels" => PanelsInv)'
  BY SettingsOK, PanelsRuns, PanelsStep
<1>. QED  BY <1>1, <1>2, PTL DEF OperationsSpec

-------------------------------------------------------------------------------
(* The numbers of a set are well ordered: what induction would say of them. *)
LEMMA NatOrder ==
  \E W : IsWellFoundedOn(W, Nat) /\ \A x, y \in Nat : x < y => <<x, y>> \in W
<1>. DEFINE W == {ss \in Nat \X Nat : ss[1] < ss[2]}
<1>1. IsWellFoundedOn(W, Nat)
  BY NatLessThanWellFounded DEF OpToRel
<1>2. \A x, y \in Nat : x < y => <<x, y>> \in W
  OBVIOUS
<1>. QED  BY <1>1, <1>2

LEMMA LeastExists ==
  ASSUME NEW S, S \subseteq Nat, S # {} PROVE \E x \in S : \A y \in S : x <= y
<1>1. PICK W : IsWellFoundedOn(W, Nat) /\ \A x, y \in Nat : x < y => <<x, y>> \in W
  BY NatOrder
<1>2. \E x \in S : \A y \in S : ~(<<y, x>> \in W)
  <2>1. IsWellFoundedOn(W, Nat)
    BY <1>1
  <2>. HIDE <1>1
  <2>. QED  BY <2>1, WFMin
<1>3. PICK x \in S : \A y \in S : ~(<<y, x>> \in W)
  BY <1>2
<1>4. ASSUME NEW y \in S PROVE x <= y
  <2>1. ~(<<y, x>> \in W) /\ x \in Nat /\ y \in Nat
    BY <1>3
  <2>2. ~(y < x)
    BY <1>1, <2>1
  <2>. QED  BY <2>1, <2>2
<1>. QED  BY <1>4

LEMMA GreatestExists ==
  ASSUME NEW m \in Nat, NEW S, S \subseteq 0..m, S # {}
  PROVE  \E x \in S : \A y \in S : x >= y
<1>. DEFINE U == {x \in Nat : \A y \in S : x >= y}
<1>1. U \subseteq Nat /\ m \in U
  OBVIOUS
<1>. HIDE DEF U
<1>2. PICK u \in U : \A v \in U : u <= v
  BY <1>1, LeastExists
<1>3. u \in Nat /\ \A y \in S : u >= y
  BY DEF U
<1>4. u \in S
  <2>. SUFFICES ASSUME u \notin S PROVE FALSE
    OBVIOUS
  <2>1. \A y \in S : y < u /\ y \in Nat
    BY <1>3
  <2>2. PICK w \in S : TRUE
    OBVIOUS
  <2>3. u - 1 \in Nat /\ \A y \in S : u - 1 >= y
    BY <1>3, <2>1, <2>2
  <2>4. u - 1 \in U
    BY <2>3 DEF U
  <2>. QED  BY <1>2, <1>3, <2>4
<1>. QED  BY <1>3, <1>4

-------------------------------------------------------------------------------
(* Pages                                                                    *)

(* What the component counts is what the library's theorems are about.      *)
LEMMA PagesFinite == \A S : G!IsFiniteSet(S) <=> IsFiniteSet(S)
BY DEF G!IsFiniteSet, IsFiniteSet

LEMMA PagesCount == \A S : G!Cardinality(S) = Cardinality(S)
BY DEF G!Cardinality, Cardinality, G!IsFiniteSet, IsFiniteSet

(* What was loaded so far are as many rows as the next page follows; if the *)
(* list did not change meanwhile, they are its beginning.                   *)
LoadFits ==
  load # None =>
    /\ load.offset = Len(load.rows)
    /\ ~moved => /\ load.offset <= Len(listing)
                 /\ \A i \in DOMAIN load.rows : load.rows[i].host = listing[i]

PagesInv == G!TypeOK /\ LoadFits /\ G!PagesComplete /\ G!NewestIsKept

LEMMA PagesInit == G!SettingOK /\ G!Init => PagesInv
<1>. SUFFICES ASSUME G!SettingOK, G!Init PROVE PagesInv
  OBVIOUS
<1>1. listing \in Seq(PageHosts)
  <2>1. G!Cardinality(PageHosts) \in Nat
    BY PagesFinite, PagesCount, FS_CardinalityType DEF G!SettingOK
  <2>. QED  BY <2>1, SeqDef DEF G!Init, G!Orders
<1>2. 0 \in 0..MaxChanges["pages"]
  BY DEF G!SettingOK
<1>. QED
  BY <1>1, <1>2 DEF G!Init, PagesInv, G!TypeOK, LoadFits, G!PagesComplete, G!NewestIsKept

(* A page has one row, or none behind the end of the list.                  *)
LEMMA PagesPage ==
  ASSUME G!SettingOK, PagesInv, NEW offset \in Nat
  PROVE  LET page == G!CachedConnections(offset) IN
           /\ page \in Seq(G!Row) /\ (offset >= Len(listing) => page = <<>>)
           /\ offset < Len(listing) =>
                Len(page) = 1 /\ page[1].host = listing[offset + 1] /\ page # <<>>
<1>1. CASE offset >= Len(listing)
  BY <1>1 DEF G!CachedConnections, PagesInv, G!TypeOK
<1>2. CASE offset < Len(listing)
  <2>1. listing[offset + 1] \in PageHosts
    BY <1>2 DEF PagesInv, G!TypeOK
  <2>. DEFINE r == [host |-> listing[offset + 1], stamp |-> stamp[listing[offset + 1]]]
  <2>2. r \in G!Row
    BY <2>1 DEF PagesInv, G!TypeOK, G!Row
  <2>3. G!CachedConnections(offset) = <<r>>
    BY <1>2 DEF G!CachedConnections, PagesInv, G!TypeOK
  <2>. QED  BY <1>2, <2>2, <2>3
<1>. QED  BY <1>1, <1>2 DEF PagesInv, G!TypeOK

LEMMA PagesNewest ==
  ASSUME NEW m \in Nat, NEW S, S \subseteq 0..m, S # {}
  PROVE  G!Newest(S) \in S /\ \A y \in S : G!Newest(S) >= y
BY GreatestExists DEF G!Newest

LEMMA PagesRemember ==
  ASSUME G!SettingOK, PagesInv, NEW rows \in Seq(G!Row), G!RememberConnections(rows)
  PROVE  /\ cache' \in [PageHosts -> 0..MaxChanges["pages"]]
         /\ seen' \in [PageHosts -> 0..MaxChanges["pages"]] /\ G!NewestIsKept'
<1>. DEFINE m == MaxChanges["pages"]
            of(h) == {rows[i].stamp : i \in {i \in DOMAIN rows : rows[i].host = h}}
<1>1. m \in Nat /\ \A h \in PageHosts : of(h) \subseteq 0..m
  <2>1. \A i \in DOMAIN rows : rows[i] \in G!Row
    OBVIOUS
  <2>. QED  BY <2>1 DEF G!SettingOK, G!Row
<1>2. /\ cache' = [h \in PageHosts |->
                     IF of(h) = {} THEN cache[h] ELSE G!Newer(cache[h], G!Newest(of(h)))]
      /\ seen' = [h \in PageHosts |-> G!Newest(of(h) \cup {seen[h]})]
  BY DEF G!RememberConnections
<1>3. ASSUME NEW h \in PageHosts
      PROVE  cache'[h] \in 0..m /\ seen'[h] \in 0..m /\ cache'[h] = seen'[h]
  <2>1. cache[h] \in 0..m /\ seen[h] = cache[h]
    BY DEF PagesInv, G!TypeOK, G!NewestIsKept
  <2>2. PICK n : n = G!Newest(of(h) \cup {seen[h]})
    OBVIOUS
  <2>3. n \in of(h) \cup {seen[h]} /\ \A y \in of(h) \cup {seen[h]} : n >= y
    <3>1. of(h) \cup {seen[h]} \subseteq 0..m /\ of(h) \cup {seen[h]} # {}
      BY <1>1, <2>1
    <3>. HIDE DEF m, of
    <3>. QED  BY <1>1, <2>2, <3>1, PagesNewest
  <2>4. CASE of(h) = {}
    <3>1. cache'[h] = cache[h] /\ seen'[h] = n
      BY <1>2, <2>2, <2>4
    <3>2. n = seen[h]
      BY <2>3, <2>4
    <3>. QED  BY <2>1, <3>1, <3>2
  <2>5. CASE of(h) # {}
    <3>1. PICK o : o = G!Newest(of(h))
      OBVIOUS
    <3>2. o \in of(h) /\ \A y \in of(h) : o >= y
      <4>. HIDE DEF m, of
      <4>. QED  BY <1>1, <2>5, <3>1, PagesNewest
    <3>3. cache'[h] = (IF o >= cache[h] THEN o ELSE cache[h]) /\ seen'[h] = n
      BY <1>2, <2>2, <2>5, <3>1 DEF G!Newer
    <3>4. o \in 0..m /\ n \in 0..m /\ n >= o /\ n >= cache[h] /\ (n = cache[h] \/ o >= n)
      <4>. HIDE DEF m, of
      <4>. QED  BY <1>1, <2>1, <2>3, <3>2
    <3>. QED  BY <1>1, <2>1, <3>3, <3>4
  <2>. QED  BY <2>4, <2>5
<1>. HIDE DEF m, of
<1>. QED  BY <1>2, <1>3 DEF G!NewestIsKept, m

LEMMA PagesPageKeeps ==
  ASSUME G!SettingOK, PagesInv, G!Page
  PROVE  PagesInv'
<1>1. /\ load # None /\ UNCHANGED <<listing, stamp, changes, moved>>
      /\ load.kind \in {"edit", "cache"} /\ load.offset \in Nat /\ load.rows \in Seq(G!Row)
      /\ load.offset = Len(load.rows)
      /\ ~moved => /\ load.offset <= Len(listing)
                   /\ \A i \in DOMAIN load.rows : load.rows[i].host = listing[i]
  BY DEF G!Page, PagesInv, G!TypeOK, LoadFits
<1>2. PICK page : page = G!CachedConnections(load.offset)
  OBVIOUS
<1>3. /\ page \in Seq(G!Row) /\ (load.offset >= Len(listing) => page = <<>>)
      /\ load.offset < Len(listing) =>
           Len(page) = 1 /\ page[1].host = listing[load.offset + 1] /\ page # <<>>
  BY <1>1, <1>2, PagesPage
<1>4. PICK rows : rows = load.rows \o page
  OBVIOUS
<1>5. PICK offset : offset = load.offset + Len(page)
  OBVIOUS
<1>6. rows \in Seq(G!Row) /\ offset \in Nat /\ offset = Len(rows)
  BY <1>1, <1>3, <1>4, <1>5
<1>7. listing \in Seq(PageHosts) /\ Len(listing) \in Nat
  BY DEF PagesInv, G!TypeOK
<1>8. ~moved => /\ offset <= Len(listing) /\ \A i \in DOMAIN rows : rows[i].host = listing[i]
                /\ page = <<>> => offset = Len(listing)
  <2>. SUFFICES ASSUME ~moved
                PROVE  /\ offset <= Len(listing)
                       /\ \A i \in DOMAIN rows : rows[i].host = listing[i]
                       /\ page = <<>> => offset = Len(listing)
    OBVIOUS
  <2>1. CASE load.offset >= Len(listing)
    <3>0. page = <<>>
      BY <1>3, <2>1
    <3>1. rows = load.rows /\ offset = load.offset
      BY <1>1, <1>4, <1>5, <3>0, ConcatEmptySeq
    <3>. QED  BY <1>1, <1>7, <2>1, <3>1
  <2>2. CASE load.offset < Len(listing)
    <3>0. Len(page) = 1 /\ page # <<>> /\ load.offset \in Nat
      BY <1>1, <1>3, <2>2
    <3>1. offset = load.offset + 1 /\ offset <= Len(listing) /\ page # <<>>
      BY <1>5, <1>7, <2>2, <3>0
    <3>2. \A i \in 1..Len(rows) : rows[i].host = listing[i]
      <4>. SUFFICES ASSUME NEW i \in 1..Len(rows) PROVE rows[i].host = listing[i]
        OBVIOUS
      <4>1. CASE i <= Len(load.rows)
        BY <1>1, <1>3, <1>4, <1>6, <4>1
      <4>2. CASE i > Len(load.rows)
        <5>1. i = load.offset + 1
          BY <1>1, <1>6, <3>1, <4>2
        <5>2. rows[i] = page[1]
          <6>1. \A k \in 1..Len(load.rows) + Len(page) :
                  rows[k] = IF k <= Len(load.rows) THEN load.rows[k]
                            ELSE page[k - Len(load.rows)]
            BY <1>1, <1>3, <1>4, ConcatProperties
          <6>2. i = Len(load.rows) + 1 /\ Len(page) = 1 /\ Len(load.rows) \in Nat
            BY <1>1, <1>3, <2>2, <5>1
          <6>. QED  BY <6>1, <6>2
        <5>. QED  BY <1>3, <2>2, <5>1, <5>2
      <4>. QED  BY <1>1, <1>6, <4>1, <4>2
    <3>3. DOMAIN rows = 1..Len(rows)
      BY <1>6
    <3>. QED  BY <3>1, <3>2, <3>3
  <2>. QED  BY <1>1, <1>7, <2>1, <2>2
<1>9. CASE G!Ends(page, offset)
  <2>1. /\ load' = None /\ got' = [rows |-> rows, list |-> listing, moved |-> moved]
        /\ IF load.kind = "cache" THEN G!RememberConnections(rows) ELSE UNCHANGED <<cache, seen>>
    BY <1>2, <1>4, <1>5, <1>9 DEF G!Page
  <2>2. /\ cache' \in [PageHosts -> 0..MaxChanges["pages"]]
        /\ seen' \in [PageHosts -> 0..MaxChanges["pages"]] /\ G!NewestIsKept'
    BY <1>6, <2>1, PagesRemember DEF PagesInv, G!TypeOK, G!NewestIsKept
  <2>3. got' \in [rows : Seq(G!Row), list : Seq(PageHosts), moved : BOOLEAN]
    BY <1>6, <1>7, <2>1 DEF PagesInv, G!TypeOK
  <2>4. G!TypeOK'
    BY <1>1, <2>1, <2>2, <2>3 DEF PagesInv, G!TypeOK
  <2>5. G!PagesComplete'
    <3>1. ~moved => Len(rows) = Len(listing)
      BY <1>6, <1>7, <1>8, <1>9 DEF G!Ends
    <3>2. ~moved => \A i \in DOMAIN listing : rows[i].host = listing[i]
      BY <1>6, <1>7, <1>8, <3>1
    <3>. QED  BY <2>1, <3>1, <3>2 DEF G!PagesComplete
  <2>. QED  BY <2>1, <2>2, <2>4, <2>5 DEF PagesInv, LoadFits
<1>10. CASE ~G!Ends(page, offset)
  <2>1. /\ load' = [load EXCEPT !.rows = rows, !.offset = offset]
        /\ UNCHANGED <<got, cache, seen>>
    BY <1>2, <1>4, <1>5, <1>10 DEF G!Page
  <2>2. load \in [kind : {"edit", "cache"}, offset : Nat, rows : Seq(G!Row)]
    BY <1>1 DEF PagesInv, G!TypeOK
  <2>3. /\ load' \in [kind : {"edit", "cache"}, offset : Nat, rows : Seq(G!Row)]
        /\ load'.rows = rows /\ load'.offset = offset
    BY <1>6, <2>1, <2>2
  <2>4. G!TypeOK'
    BY <1>1, <2>1, <2>3 DEF PagesInv, G!TypeOK
  <2>5. LoadFits'
    BY <1>1, <1>6, <1>8, <2>3 DEF LoadFits
  <2>. QED  BY <1>1, <2>1, <2>4, <2>5 DEF PagesInv, G!PagesComplete, G!NewestIsKept
<1>. QED  BY <1>9, <1>10

LEMMA PagesChangeKeeps ==
  ASSUME G!SettingOK, PagesInv, G!Change
  PROVE  PagesInv'
<1>1. PICK h \in PageHosts :
        listing' \in {G!Without(h), <<h>> \o G!Without(h), Append(G!Without(h), h)}
  BY DEF G!Change
<1>2. G!Without(h) \in Seq(PageHosts)
  <2>1. CASE \E i \in DOMAIN listing : listing[i] = h
    <3>1. PICK i : i = CHOOSE k \in DOMAIN listing : listing[k] = h
      OBVIOUS
    <3>2. i \in 1..Len(listing) /\ listing \in Seq(PageHosts)
      BY <2>1, <3>1 DEF PagesInv, G!TypeOK
    <3>3. /\ SubSeq(listing, 1, i - 1) \in Seq(PageHosts)
          /\ SubSeq(listing, i + 1, Len(listing)) \in Seq(PageHosts)
      BY <3>2, SubSeqProperties
    <3>. QED  BY <2>1, <3>1, <3>3 DEF G!Without
  <2>2. CASE ~\E i \in DOMAIN listing : listing[i] = h
    BY <2>2 DEF G!Without, PagesInv, G!TypeOK
  <2>. QED  BY <2>1, <2>2
<1>3. listing' \in Seq(PageHosts)
  <2>1. PICK s \in Seq(PageHosts) : s = G!Without(h)
    BY <1>2
  <2>2. <<h>> \o s \in Seq(PageHosts) /\ Append(s, h) \in Seq(PageHosts)
    OBVIOUS
  <2>. QED  BY <1>1, <2>1, <2>2
<1>4. changes' \in 0..MaxChanges["pages"]
  BY DEF G!SettingOK, PagesInv, G!TypeOK, G!Change
<1>. QED
  BY <1>3, <1>4 DEF G!Change, PagesInv, G!TypeOK, LoadFits, G!PagesComplete, G!NewestIsKept

LEMMA PagesStep == G!SettingOK /\ PagesInv /\ [G!Next]_(G!vars) => PagesInv'
<1>. SUFFICES ASSUME G!SettingOK, PagesInv, [G!Next]_(G!vars) PROVE PagesInv'
  OBVIOUS
<1>1. CASE G!Change
  BY <1>1, PagesChangeKeeps
<1>2. ASSUME NEW h \in PageHosts, G!DisplayConnections(h) PROVE PagesInv'
  <2>1. changes' \in 0..MaxChanges["pages"]
    BY <1>2 DEF G!SettingOK, PagesInv, G!TypeOK, G!DisplayConnections
  <2>2. PICK n \in 0..MaxChanges["pages"] : n = changes'
    BY <2>1
  <2>3. /\ stamp' = [stamp EXCEPT ![h] = n] /\ UNCHANGED <<listing, moved, load, got>>
        /\ \/ cache' = [cache EXCEPT ![h] = n] /\ seen' = [seen EXCEPT ![h] = n]
           \/ UNCHANGED <<cache, seen>>
    BY <1>2, <2>2 DEF G!DisplayConnections
  <2>4. /\ stamp' \in [PageHosts -> 0..MaxChanges["pages"]]
        /\ cache' \in [PageHosts -> 0..MaxChanges["pages"]]
        /\ seen' \in [PageHosts -> 0..MaxChanges["pages"]]
        /\ UNCHANGED <<listing, moved, load, got>>
    BY <2>3 DEF PagesInv, G!TypeOK
  <2>5. G!NewestIsKept'
    BY <2>3 DEF PagesInv, G!TypeOK, G!NewestIsKept
  <2>. QED
    BY <2>1, <2>4, <2>5 DEF PagesInv, G!TypeOK, LoadFits, G!PagesComplete
<1>3. CASE G!EditFiltered \/ G!RestoreConnectionCache
  <2>1. PICK manner \in {"edit", "cache"} :
          load' = [kind |-> manner, offset |-> 0, rows |-> <<>>]
    BY <1>3 DEF G!EditFiltered, G!RestoreConnectionCache
  <2>2. /\ load' \in [kind : {"edit", "cache"}, offset : Nat, rows : Seq(G!Row)]
        /\ load'.offset = 0 /\ load'.rows = <<>> /\ moved' = FALSE
        /\ UNCHANGED <<listing, stamp, changes, got, cache, seen>>
    BY <1>3, <2>1 DEF G!EditFiltered, G!RestoreConnectionCache
  <2>3. G!TypeOK'
    BY <2>2 DEF PagesInv, G!TypeOK
  <2>4. LoadFits'
    BY <2>2 DEF LoadFits, PagesInv, G!TypeOK
  <2>. QED  BY <2>2, <2>3, <2>4 DEF PagesInv, G!PagesComplete, G!NewestIsKept
<1>4. CASE G!Page
  BY <1>4, PagesPageKeeps
<1>5. CASE UNCHANGED G!vars
  BY <1>5 DEF G!vars, PagesInv, G!TypeOK, LoadFits, G!PagesComplete, G!NewestIsKept
<1>. QED  BY <1>1, <1>2, <1>3, <1>4, <1>5 DEF G!Next

LEMMA PagesRuns ==
  ASSUME [OperationsNext]_allVars, scenario' = "pages"
  PROVE  scenario = "pages" /\ [G!Next]_(G!vars)
<1>1. CASE OperationsNext
  BY <1>1 DEF OperationsNext
<1>2. CASE UNCHANGED allVars
  BY <1>2 DEF allVars, shared, ofPages, G!vars
<1>. QED  BY <1>1, <1>2

LEMMA PagesAlways == OperationsSpec => [](scenario = "pages" => PagesInv)
<1>1. OperationsInit => (scenario = "pages" => PagesInv)
  BY SettingsOK, PagesInit DEF OperationsInit
<1>2. (scenario = "pages" => PagesInv) /\ [OperationsNext]_allVars
        => (scenario = "pages" => PagesInv)'
  BY SettingsOK, PagesRuns, PagesStep
<1>. QED  BY <1>1, <1>2, PTL DEF OperationsSpec

(* For any choices, hosts and images: a panel shows what it was last asked  *)
(* for, a list that did not change while its pages were loaded is complete, *)
(* no snapshot is replaced by an older one, and a plan reads the packages   *)
(* of the image that was searched.                                          *)
THEOREM ViewsCorrect == OperationsSpec => []ViewsHold
<1>1. (scenario = "panels" => PanelsInv) => (scenario = "panels" => N!PanelsHold)
  BY DEF PanelsInv, N!PanelsHold
<1>2. (scenario = "pages" => PagesInv) => (scenario = "pages" => G!ListsHold)
  BY DEF PagesInv, G!ListsHold
<1>3. (scenario = "media" => MediaInv) => (scenario = "media" => M!PackagesAreTheChosen)
  BY DEF MediaInv
<1>4. (scenario = "media" => MediaInv) /\ (scenario = "panels" => PanelsInv)
        /\ (scenario = "pages" => PagesInv) => ViewsHold
  BY <1>1, <1>2, <1>3 DEF ViewsHold
<1>. QED  BY <1>4, MediaAlways, PanelsAlways, PagesAlways, PTL

-------------------------------------------------------------------------------
(* Collection                                                               *)

(* What was read is what the machine had at some moment of the collection:  *)
(* processors with the first capture, quotas later.                         *)
Raw ==
  [logical : Units \cup {None}, affinity : Units \cup {None}, active : {TRUE, FALSE, None},
   twice : BOOLEAN, serial : BOOLEAN, group : {"v2", "v1", "hidden", None},
   quotas : (SUBSET Units) \cup {None}]

CountsFit ==
  at \in {"root", "limits", "parse"} =>
    \E first \in was :
      /\ raw.logical \in {None, first.logical}
      /\ raw.affinity = IF "affinity_cpus" \in sees THEN first.affinity ELSE None

RawFits ==
  /\ at # "done" => row = None
  /\ at \in {"root", "limits", "parse"} =>
       /\ raw \in Raw
       /\ raw.active \in {None, smt} /\ (raw.twice => smt)
       /\ raw.group = IF "cgroup" \in sees THEN group ELSE None
       /\ raw.quotas # None =>
            /\ raw.group \in {"v2", "hidden"}
            /\ group = "v2" => \E last \in was : raw.quotas = last.quotas

CpuKnown == cpu \in was /\ \A c \in was : D!Possible(c)
ToldFits == (siblings => smt) /\ (family = "windows" => sockets \subseteq D!Told(smt))

DiscoveryInv ==
  /\ D!TypeOK /\ CountsFit /\ RawFits /\ CpuKnown /\ ToldFits /\ D!DiscoveryIsHonest

LEMMA DiscoveryInit == D!SettingOK /\ D!Init => DiscoveryInv
<1>. SUFFICES ASSUME D!SettingOK, D!Init PROVE DiscoveryInv
  OBVIOUS
<1>1. sockets \subseteq D!Socket /\ ToldFits
  <2>1. D!Told(smt) \subseteq D!Socket
    BY DEF D!Told
  <2>2. family = "windows" => sockets \subseteq D!Told(smt)
    BY DEF D!Init
  <2>3. family # "windows" => sockets = {}
    BY DEF D!Init
  <2>4. siblings => smt
    BY DEF D!Init
  <2>. QED  BY <2>1, <2>2, <2>3, <2>4 DEF ToldFits
<1>2. cpu \in D!Cpu /\ D!Possible(cpu)
  <2>1. [logical |-> 1, affinity |-> 1, quotas |-> {}] \in D!Cpu
    <3>1. 1 \in Units
      BY DEF D!SettingOK
    <3>. QED  BY <3>1 DEF D!Cpu
  <2>2. D!Possible([logical |-> 1, affinity |-> 1, quotas |-> {}])
    BY DEF D!Possible
  <2>. QED  BY <2>1, <2>2 DEF D!Init
<1>3. 0 \in 0..MaxChanges["discovery"] /\ 0 \in 0..MaxFaults["discovery"]
  BY DEF D!SettingOK
<1>4. sees \subseteq D!Sections /\ group \in {"v2", "v1", "hidden"}
  BY DEF D!Init
<1>5. D!TypeOK
  BY <1>1, <1>2, <1>3, <1>4 DEF D!Init, D!TypeOK
<1>. QED
  BY <1>1, <1>2, <1>5 DEF D!Init, DiscoveryInv, CountsFit, RawFits, CpuKnown,
     D!DiscoveryIsHonest, D!SmtIsTrue, D!AllocationIsTrue, D!Completed

(* The least of a set of numbers, which a greater number does not change.   *)
LEMMA DiscoveryLeast ==
  ASSUME NEW S, S \subseteq Nat, NEW least \in S, NEW more \in Nat, least <= more
  PROVE  D!Min(S \cup {more}) = D!Min(S)
<1>1. PICK x \in S : \A y \in S : x <= y
  BY LeastExists
<1>2. x \in Nat /\ x <= more
  BY <1>1
<1>3. \A z \in S : (\A y \in S : z <= y) => z = x
  BY <1>1
<1>4. \A z \in S \cup {more} : (\A y \in S \cup {more} : z <= y) => z = x
  BY <1>1, <1>2
<1>5. D!Min(S) = x
  BY <1>1, <1>3 DEF D!Min
<1>6. D!Min(S \cup {more}) = x
  BY <1>1, <1>2, <1>4 DEF D!Min
<1>. QED  BY <1>5, <1>6

(* Threads per core, as Windows tells them.                                 *)
LEMMA DiscoveryCores ==
  ASSUME D!SettingOK, NEW on \in BOOLEAN, NEW s \in D!Told(on), ~D!Unclear(s)
  PROVE  s.logical > D!Cores(s) <=> on
<1>1. s \in D!Socket
  BY DEF D!Told
<1>2. PICK enabled \in {1, 2} :
        /\ s.cores \in {2, None} /\ s.enabled \in {enabled, None}
        /\ (enabled = 1 => s.enabled = 1)
        /\ s.logical \in {IF on THEN 2 * enabled ELSE enabled, None}
  BY DEF D!Told
<1>3. D!Cores(s) # None /\ s.logical # None
  BY DEF D!Unclear
<1>4. D!Cores(s) = enabled
  BY <1>2, <1>3 DEF D!Cores, D!SettingOK
<1>5. s.logical = IF on THEN 2 * enabled ELSE enabled
  BY <1>2, <1>3
<1>. QED  BY <1>2, <1>4, <1>5

LEMMA DiscoveryWindows ==
  ASSUME D!SettingOK, DiscoveryInv, family = "windows"
  PROVE  D!WindowsSmt \in {"unknown", IF smt THEN "on" ELSE "off"}
<1>1. smt \in BOOLEAN /\ sockets \subseteq D!Told(smt)
  BY DEF DiscoveryInv, D!TypeOK, ToldFits
<1>2. \A s \in sockets : ~D!Unclear(s) => (s.logical > D!Cores(s) <=> smt)
  BY <1>1, DiscoveryCores
<1>. QED  BY <1>1, <1>2 DEF D!WindowsSmt

LEMMA DiscoveryAllocated ==
  ASSUME D!SettingOK, DiscoveryInv, at = "parse", group # "hidden",
         "cgroup" \notin D!Warnings(raw), {"affinity_cpus", "cgroup"} \subseteq sees
  PROVE  \E first, last \in was : D!Allocated(raw) = D!Min({first.affinity} \cup last.quotas)
<1>1. PICK first \in was : raw.logical \in {None, first.logical} /\ raw.affinity = first.affinity
  BY DEF DiscoveryInv, CountsFit
<1>2. raw \in Raw /\ raw.group = group /\ group # None
  BY DEF DiscoveryInv, RawFits, D!TypeOK, D!SettingOK
<1>3. raw.quotas # None
  BY <1>2 DEF D!Warnings
<1>4. PICK last \in was : raw.quotas = last.quotas
  BY <1>2, <1>3 DEF DiscoveryInv, RawFits
<1>5. /\ first.affinity \in Units /\ first.logical \in Units /\ first.affinity <= first.logical
      /\ last.quotas \subseteq Units
  BY DEF DiscoveryInv, D!TypeOK, CpuKnown, D!Possible, D!Cpu
<1>6. Units \subseteq Nat /\ None \notin Units
  BY DEF D!SettingOK
<1>. DEFINE S == {first.affinity} \cup last.quotas
<1>7. D!Known(raw) = S \/ D!Known(raw) = S \cup {first.logical}
  BY <1>1, <1>3, <1>4, <1>5, <1>6 DEF D!Known
<1>8. D!Min(S \cup {first.logical}) = D!Min(S)
  BY <1>5, <1>6, DiscoveryLeast
<1>9. D!Allocated(raw) = D!Min(S)
  BY <1>7, <1>8 DEF D!Allocated
<1>. QED  BY <1>9

LEMMA DiscoveryParseKeeps ==
  ASSUME D!SettingOK, DiscoveryInv, D!Parse
  PROVE  DiscoveryInv'
<1>. USE DEF D!Parse
<1>1. /\ at = "parse" /\ at' = "done"
      /\ UNCHANGED <<family, smt, siblings, sockets, group, sees, cpu, raw, was, changes, faults>>
  BY DEF D!machine
<1>2. D!TypeOK'
  BY <1>1 DEF DiscoveryInv, D!TypeOK
<1>3. raw.active \in {None, smt} /\ (raw.twice => smt) /\ smt \in BOOLEAN
  BY <1>1 DEF DiscoveryInv, RawFits, D!TypeOK
<1>4. D!SmtIsTrue'
  <2>1. CASE family = "linux"
    <3>1. row'.smt = D!LinuxSmt(raw)
      BY <2>1
    <3>. QED  BY <1>1, <1>3, <3>1 DEF D!SmtIsTrue, D!LinuxSmt
  <2>2. CASE family = "aix"
    <3>1. row'.smt = D!AixSmt(raw)
      BY <2>2
    <3>. QED  BY <1>1, <1>3, <3>1 DEF D!SmtIsTrue, D!AixSmt
  <2>3. CASE family = "windows"
    <3>1. row'.smt = D!WindowsSmt
      BY <2>3
    <3>. QED  BY <1>1, <2>3, <3>1, DiscoveryWindows DEF D!SmtIsTrue
  <2>. QED  BY <2>1, <2>2, <2>3 DEF DiscoveryInv, D!TypeOK, D!Families
<1>5. D!AllocationIsTrue'
  <2>. SUFFICES ASSUME family = "linux", group # "hidden", "cgroup" \notin row'.warnings,
                       {"affinity_cpus", "cgroup"} \subseteq sees
                PROVE  \E first, last \in was :
                         row'.cpus = D!Min({first.affinity} \cup last.quotas)
    BY <1>1 DEF D!AllocationIsTrue
  <2>1. row'.cpus = D!Allocated(raw) /\ row'.warnings = D!Warnings(raw)
    OBVIOUS
  <2>. QED  BY <1>1, <2>1, DiscoveryAllocated
<1>. QED
  BY <1>1, <1>2, <1>4, <1>5 DEF DiscoveryInv, CountsFit, RawFits, CpuKnown, ToldFits,
     D!DiscoveryIsHonest

LEMMA DiscoveryProbeKeeps ==
  ASSUME D!SettingOK, DiscoveryInv, D!Probe
  PROVE  DiscoveryInv'
<1>1. /\ at = "probe" /\ row' = row /\ row = None
      /\ UNCHANGED <<family, smt, siblings, sockets, group, sees, cpu, was, changes>>
  BY DEF D!Probe, D!Failed, D!machine, DiscoveryInv, RawFits
<1>2. faults' \in 0..MaxFaults["discovery"] /\ at' \in {"parse", "limits", "root", "done"}
  BY DEF D!Probe, D!Failed, D!Fault, D!SettingOK, DiscoveryInv, D!TypeOK
<1>3. D!TypeOK'
  BY <1>1, <1>2 DEF DiscoveryInv, D!TypeOK
<1>4. ASSUME at' # "done"
      PROVE  /\ raw' \in Raw /\ raw'.active \in {None, smt} /\ (raw'.twice => smt)
             /\ raw'.group = IF "cgroup" \in sees THEN group ELSE None
             /\ raw'.quotas = None
             /\ raw'.logical \in {None, cpu.logical}
             /\ raw'.affinity = IF "affinity_cpus" \in sees THEN cpu.affinity ELSE None
  <2>1. raw' = D!Answers
    BY <1>4 DEF D!Probe, D!Failed
  <2>2. /\ cpu.logical \in Units /\ cpu.affinity \in Units /\ smt \in BOOLEAN
        /\ siblings \in BOOLEAN /\ group \in {"v2", "v1", "hidden"} /\ (siblings => smt)
    BY DEF DiscoveryInv, D!TypeOK, D!Cpu, ToldFits
  <2>3. /\ raw'.logical \in {None, cpu.logical} /\ raw'.logical \in Units \cup {None}
        /\ raw'.affinity = IF "affinity_cpus" \in sees THEN cpu.affinity ELSE None
        /\ raw'.affinity \in Units \cup {None}
    BY <2>1, <2>2 DEF D!Answers, D!Read
  <2>4. /\ raw'.active \in {None, smt} /\ raw'.twice = ("lscpu" \in sees /\ siblings)
        /\ raw'.serial = ("serial_number" \in sees)
    BY <2>1 DEF D!Answers, D!Read
  <2>5. /\ raw'.group = IF "cgroup" \in sees THEN group ELSE None
        /\ raw'.quotas = None
    BY <2>1 DEF D!Answers, D!Read
  <2>6. raw'.active \in {TRUE, FALSE, None} /\ (raw'.twice => smt)
    BY <2>2, <2>4
  <2>7. raw' = [logical |-> raw'.logical, affinity |-> raw'.affinity, active |-> raw'.active,
                twice |-> raw'.twice, serial |-> raw'.serial, group |-> raw'.group,
                quotas |-> raw'.quotas]
    BY <2>1 DEF D!Answers
  <2>8. raw'.twice \in BOOLEAN /\ raw'.serial \in BOOLEAN
    BY <2>4
  <2>9. raw'.group \in {"v2", "v1", "hidden", None} /\ raw'.quotas \in (SUBSET Units) \cup {None}
    BY <2>2, <2>5
  <2>10. raw' \in Raw
    BY <2>3, <2>6, <2>7, <2>8, <2>9 DEF Raw
  <2>. QED  BY <2>3, <2>4, <2>5, <2>6, <2>10
<1>5. CountsFit' /\ RawFits'
  BY <1>1, <1>2, <1>4 DEF DiscoveryInv, CpuKnown, CountsFit, RawFits
<1>6. D!DiscoveryIsHonest'
  BY <1>1 DEF D!DiscoveryIsHonest, D!SmtIsTrue, D!AllocationIsTrue, D!Completed
<1>. QED  BY <1>1, <1>3, <1>5, <1>6 DEF DiscoveryInv, CpuKnown, ToldFits

LEMMA DiscoveryRootKeeps ==
  ASSUME D!SettingOK, DiscoveryInv, D!Root
  PROVE  DiscoveryInv'
<1>1. /\ at = "root" /\ at' = "limits" /\ row' = row /\ row = None
      /\ UNCHANGED <<family, smt, siblings, sockets, group, sees, cpu, was, changes>>
  BY DEF D!Root, D!machine, DiscoveryInv, RawFits
<1>2. faults' \in 0..MaxFaults["discovery"]
  BY DEF D!Root, D!Fault, D!SettingOK, DiscoveryInv, D!TypeOK
<1>3. D!TypeOK'
  BY <1>1, <1>2 DEF DiscoveryInv, D!TypeOK
<1>4. raw \in Raw /\ raw' \in {raw, [raw EXCEPT !.serial = TRUE]}
  BY <1>1 DEF D!Root, DiscoveryInv, RawFits
<1>5. /\ raw' \in Raw /\ raw'.active = raw.active /\ raw'.twice = raw.twice
      /\ raw'.group = raw.group /\ raw'.quotas = raw.quotas
      /\ raw'.logical = raw.logical /\ raw'.affinity = raw.affinity
  BY <1>4 DEF Raw
<1>6. CountsFit' /\ RawFits'
  BY <1>1, <1>5 DEF DiscoveryInv, CountsFit, RawFits
<1>7. D!DiscoveryIsHonest'
  BY <1>1 DEF D!DiscoveryIsHonest, D!SmtIsTrue, D!AllocationIsTrue, D!Completed
<1>. QED  BY <1>1, <1>3, <1>6, <1>7 DEF DiscoveryInv, CpuKnown, ToldFits

LEMMA DiscoveryLimitsKeeps ==
  ASSUME D!SettingOK, DiscoveryInv, D!Limits
  PROVE  DiscoveryInv'
<1>1. /\ at = "limits" /\ at' \in {"parse", "done"} /\ row' = row /\ row = None
      /\ UNCHANGED <<family, smt, siblings, sockets, group, sees, cpu, was, changes>>
  BY DEF D!Limits, D!Failed, D!machine, DiscoveryInv, RawFits
<1>2. faults' \in 0..MaxFaults["discovery"]
  BY DEF D!Limits, D!Failed, D!Fault, D!SettingOK, DiscoveryInv, D!TypeOK
<1>3. D!TypeOK'
  BY <1>1, <1>2 DEF DiscoveryInv, D!TypeOK
<1>4. raw \in Raw
  BY <1>1 DEF DiscoveryInv, RawFits
<1>5. \/ raw' = raw
      \/ /\ raw.group \in {"v2", "hidden"}
         /\ \E quotas \in IF group = "v2" THEN {cpu.quotas} ELSE SUBSET cpu.quotas :
              raw' = [raw EXCEPT !.quotas = quotas]
  BY DEF D!Limits, D!Failed
<1>6. CASE raw' = raw
  <2>1. CountsFit' /\ RawFits'
    BY <1>1, <1>6 DEF DiscoveryInv, CountsFit, RawFits
  <2>. QED
    BY <1>1, <1>3, <2>1 DEF DiscoveryInv, CpuKnown, ToldFits, D!DiscoveryIsHonest,
       D!SmtIsTrue, D!AllocationIsTrue, D!Completed
<1>7. CASE /\ raw.group \in {"v2", "hidden"}
           /\ \E quotas \in IF group = "v2" THEN {cpu.quotas} ELSE SUBSET cpu.quotas :
                raw' = [raw EXCEPT !.quotas = quotas]
  <2>1. PICK quotas : /\ group = "v2" => quotas = cpu.quotas
                      /\ quotas \subseteq cpu.quotas
                      /\ raw' = [raw EXCEPT !.quotas = quotas]
    BY <1>7
  <2>2. quotas \subseteq Units
    BY <2>1 DEF DiscoveryInv, D!TypeOK, D!Cpu
  <2>3. /\ raw' \in Raw /\ raw'.active = raw.active /\ raw'.twice = raw.twice
        /\ raw'.group = raw.group /\ raw'.quotas = quotas
        /\ raw'.logical = raw.logical /\ raw'.affinity = raw.affinity
    BY <1>4, <2>1, <2>2 DEF Raw
  <2>4. CountsFit'
    BY <1>1, <2>3 DEF DiscoveryInv, CountsFit
  <2>5. RawFits'
    BY <1>1, <1>7, <2>1, <2>3 DEF DiscoveryInv, RawFits, CpuKnown
  <2>. QED
    BY <1>1, <1>3, <2>4, <2>5 DEF DiscoveryInv, CpuKnown, ToldFits, D!DiscoveryIsHonest,
       D!SmtIsTrue, D!AllocationIsTrue, D!Completed
<1>. QED  BY <1>5, <1>6, <1>7

LEMMA DiscoveryChangeKeeps ==
  ASSUME D!SettingOK, DiscoveryInv, D!Change
  PROVE  DiscoveryInv'
<1>1. /\ at # "done" /\ row = None
      /\ UNCHANGED <<family, smt, siblings, sockets, group, sees, at, raw, row, faults>>
  BY DEF D!Change, D!machine, DiscoveryInv, RawFits
<1>2. PICK c \in D!Cpu : D!Possible(c) /\ cpu' = c /\ was' = was \cup {c}
  BY DEF D!Change
<1>3. changes' \in 0..MaxChanges["discovery"]
  BY DEF D!Change, D!SettingOK, DiscoveryInv, D!TypeOK
<1>4. D!TypeOK'
  BY <1>1, <1>2, <1>3 DEF DiscoveryInv, D!TypeOK
<1>5. CountsFit' /\ CpuKnown'
  BY <1>1, <1>2 DEF DiscoveryInv, CountsFit, CpuKnown
<1>6. RawFits'
  BY <1>1, <1>2 DEF DiscoveryInv, RawFits
<1>7. D!DiscoveryIsHonest'
  BY <1>1 DEF D!DiscoveryIsHonest, D!SmtIsTrue, D!AllocationIsTrue, D!Completed
<1>. QED  BY <1>1, <1>4, <1>5, <1>6, <1>7 DEF DiscoveryInv, ToldFits

LEMMA DiscoveryStep == D!SettingOK /\ DiscoveryInv /\ [D!Next]_(D!vars) => DiscoveryInv'
<1>. SUFFICES ASSUME D!SettingOK, DiscoveryInv, [D!Next]_(D!vars) PROVE DiscoveryInv'
  OBVIOUS
<1>1. CASE UNCHANGED D!vars
  BY <1>1 DEF D!vars, D!machine, DiscoveryInv, D!TypeOK, CountsFit, RawFits, CpuKnown,
     ToldFits, D!DiscoveryIsHonest, D!SmtIsTrue, D!AllocationIsTrue, D!Completed
<1>. QED
  BY <1>1, DiscoveryChangeKeeps, DiscoveryProbeKeeps, DiscoveryRootKeeps,
     DiscoveryLimitsKeeps, DiscoveryParseKeeps DEF D!Next

LEMMA DiscoveryRuns ==
  ASSUME [OperationsNext]_allVars, scenario' = "discovery"
  PROVE  scenario = "discovery" /\ [D!Next]_(D!vars)
<1>1. CASE OperationsNext
  BY <1>1 DEF OperationsNext
<1>2. CASE UNCHANGED allVars
  BY <1>2 DEF allVars, shared, ofDiscovery, D!vars, D!machine
<1>. QED  BY <1>1, <1>2

LEMMA DiscoveryAlways == OperationsSpec => [](scenario = "discovery" => DiscoveryInv)
<1>1. OperationsInit => (scenario = "discovery" => DiscoveryInv)
  BY SettingsOK, DiscoveryInit DEF OperationsInit
<1>2. (scenario = "discovery" => DiscoveryInv) /\ [OperationsNext]_allVars
        => (scenario = "discovery" => DiscoveryInv)'
  BY SettingsOK, DiscoveryRuns, DiscoveryStep
<1>. QED  BY <1>1, <1>2, PTL DEF OperationsSpec

-------------------------------------------------------------------------------
(* Cron lines                                                               *)

(* Days are what the slots of a day divide the instants into.               *)
LEMMA CronDivide ==
  ASSUME NEW n \in Int, NEW s \in Nat, s > 0
  PROVE  /\ n \div s \in Int /\ n % s \in 0..s - 1
         /\ n = (n \div s) * s + (n % s)
OBVIOUS

LEMMA CronTimes ==
  ASSUME NEW p \in Int, NEW q \in Int, NEW s \in Nat, p <= q
  PROVE  p * s \in Int /\ q * s \in Int /\ p * s <= q * s
OBVIOUS

LEMMA CronNextDay ==
  ASSUME NEW p \in Int, NEW s \in Nat
  PROVE  (p + 1) * s = p * s + s
OBVIOUS

LEMMA CronDayOf ==
  ASSUME NEW n \in Int, NEW d \in Int, NEW r \in Int, NEW s \in Nat, 0 <= r, r < s, n = d * s + r
  PROVE  n \div s = d /\ n % s = r
<1>. DEFINE q == n \div s
            m == n % s
<1>1. q \in Int /\ m \in Int /\ 0 <= m /\ m < s /\ n = q * s + m
  BY CronDivide
<1>2. d * s \in Int /\ q * s \in Int
  BY <1>1, CronTimes
<1>3. ~(d < q)
  <2>. SUFFICES ASSUME d + 1 <= q PROVE FALSE
    BY <1>1
  <2>1. (d + 1) * s <= q * s /\ (d + 1) * s = d * s + s
    BY <1>1, CronTimes, CronNextDay
  <2>. HIDE DEF q, m
  <2>. QED  BY <1>1, <1>2, <2>1
<1>4. ~(q < d)
  <2>. SUFFICES ASSUME q + 1 <= d PROVE FALSE
    BY <1>1
  <2>1. (q + 1) * s <= d * s /\ (q + 1) * s = q * s + s
    BY <1>1, CronTimes, CronNextDay
  <2>. HIDE DEF q, m
  <2>. QED  BY <1>1, <1>2, <2>1
<1>5. q = d
  <2>. HIDE DEF q, m
  <2>. QED  BY <1>1, <1>3, <1>4
<1>6. m = r
  <2>. HIDE DEF q, m
  <2>. QED  BY <1>1, <1>2, <1>5
<1>. QED  BY <1>5, <1>6

LEMMA CronDayRises ==
  ASSUME NEW n \in Int, NEW m \in Int, NEW s \in Nat, s > 0, n <= m
  PROVE  n \div s <= m \div s
<1>. DEFINE p == n \div s
            q == m \div s
<1>1. /\ p \in Int /\ q \in Int /\ p * s \in Int /\ q * s \in Int
      /\ p * s <= n /\ m < q * s + s
  BY CronDivide, CronTimes
<1>2. ~(q < p)
  <2>. SUFFICES ASSUME q + 1 <= p PROVE FALSE
    BY <1>1
  <2>1. (q + 1) * s <= p * s /\ (q + 1) * s = q * s + s
    BY <1>1, CronTimes, CronNextDay
  <2>. HIDE DEF p, q
  <2>. QED  BY <1>1, <2>1
<1>. HIDE DEF p, q
<1>3. p <= q
  BY <1>1, <1>2
<1>. QED  BY <1>3 DEF p, q

CronLine ==
  /\ line \in [time : {p \in Q!Part(DaySlots - 1) : Q!Valid(p, 0, DaySlots - 1)},
               dom : {[base |-> "*", start |-> 0, end |-> 0, step |-> s] : s \in {1, 2}}
                     \cup {[base |-> "number", start |-> 2, end |-> 0, step |-> 1]},
               dow : {[base |-> "*", start |-> 0, end |-> 0, step |-> 1],
                      [base |-> "number", start |-> WeekDays, end |-> 0, step |-> 1]},
               months : {0..Months - 1, {1}}]
CronZone == zone \in Q!Zones /\ Q!NoDayTwice(zone)

CronInv == Q!TypeOK /\ CronLine /\ CronZone /\ Q!EarliestIsNext

LEMMA CronInit == Q!SettingOK /\ Q!Init => CronInv
<1>. SUFFICES ASSUME Q!SettingOK, Q!Init PROVE CronInv
  OBVIOUS
<1>1. after \in 0..Last + MaxLate /\ next = after
  BY DEF Q!Init, Q!SettingOK
<1>2. (MaxDays + 1) * DaySlots \in Nat
  BY DEF Q!SettingOK
<1>3. Q!TypeOK
  BY <1>1, <1>2 DEF Q!TypeOK, Q!Init, Q!SettingOK
<1>. QED  BY <1>1, <1>3 DEF Q!Init, CronInv, CronLine, CronZone, Q!EarliestIsNext

(* Local time, and the day it is, of an instant.                            *)
LEMMA CronLocal ==
  ASSUME Q!SettingOK, CronZone, NEW t \in Int
  PROVE  /\ Q!Offset(t) \in 0..2 /\ Q!Local(t) \in Int
         /\ t <= Q!Local(t) /\ Q!Local(t) <= t + 2
         /\ Q!Offset(t) \in {zone.before, zone.from}
<1>1. zone.before \in 0..2 /\ zone.from \in 0..2
  BY DEF CronZone, Q!Zones
<1>2. Q!Offset(t) \in {zone.before, zone.from}
  BY DEF Q!Offset
<1>. QED  BY <1>1, <1>2 DEF Q!Local

LEMMA CronNoDayTwice ==
  ASSUME Q!SettingOK, CronZone, NEW t \in Int, NEW u \in Int, t <= u
  PROVE  Q!Day(Q!Local(t)) <= Q!Day(Q!Local(u))
<1>1. zone.before \in Int /\ zone.from \in Int /\ zone.at \in Int
  BY DEF CronZone, Q!Zones, Q!SettingOK
<1>2. \A m, n \in Int : m <= n => Q!Day(m) \in Int /\ Q!Day(n) \in Int /\ Q!Day(m) <= Q!Day(n)
  BY CronDayRises, CronDivide DEF Q!SettingOK, Q!Day
<1>3. Q!Day(zone.at - 1 + zone.before) <= Q!Day(zone.at + zone.from)
  BY DEF CronZone, Q!NoDayTwice
<1>4. CASE t < zone.at /\ u >= zone.at
  <2>1. Q!Local(t) = t + zone.before /\ Q!Local(u) = u + zone.from
    BY <1>1, <1>4 DEF Q!Local, Q!Offset
  <2>2. t + zone.before <= zone.at - 1 + zone.before /\ zone.at + zone.from <= u + zone.from
    BY <1>1, <1>4
  <2>3. Q!Day(t + zone.before) <= Q!Day(zone.at - 1 + zone.before)
    BY <1>1, <1>2, <2>2
  <2>4. Q!Day(zone.at + zone.from) <= Q!Day(u + zone.from)
    BY <1>1, <1>2, <2>2
  <2>5. /\ Q!Day(t + zone.before) \in Int /\ Q!Day(zone.at - 1 + zone.before) \in Int
        /\ Q!Day(zone.at + zone.from) \in Int /\ Q!Day(u + zone.from) \in Int
    BY <1>1, <1>2
  <2>. QED  BY <1>3, <2>1, <2>3, <2>4, <2>5
<1>5. CASE ~(t < zone.at /\ u >= zone.at)
  <2>1. Q!Local(t) <= Q!Local(u) /\ Q!Local(t) \in Int /\ Q!Local(u) \in Int
    BY <1>1, <1>5 DEF Q!Local, Q!Offset
  <2>. QED  BY <1>2, <2>1
<1>. QED  BY <1>4, <1>5

LEMMA CronTimesOfDay ==
  ASSUME Q!SettingOK, CronLine
  PROVE  Q!Times(line) \subseteq 0..DaySlots - 1
<1>1. /\ line.time.base \in Q!Bases /\ line.time.start \in 0..DaySlots - 1
      /\ line.time.end \in 0..DaySlots - 1
  BY DEF CronLine, Q!Part
<1>. QED  BY <1>1 DEF Q!Times, Q!Field, Q!SettingOK

(* A candidate of a day is an instant of that day that the line names.      *)
LEMMA CronCandidateNamed ==
  ASSUME Q!SettingOK, CronLine, CronZone, NEW day \in Int, NEW a \in Int,
         NEW t \in Q!Candidates(line, day, a)
  PROVE  /\ t \in Int /\ t > a /\ Q!Day(Q!Local(t)) = day
         /\ Q!DayMatch(line, day) => Q!Named(t)
<1>1. PICK slot \in Q!Times(line) : t > a /\ Q!Local(t) = day * DaySlots + slot
  BY DEF Q!Candidates
<1>2. slot \in 0..DaySlots - 1 /\ DaySlots \in Nat
  BY CronTimesOfDay DEF Q!SettingOK
<1>3. day * DaySlots + slot \in Int
  BY <1>2, CronTimes
<1>4. t \in Int
  <2>1. PICK one \in Q!Times(line), fold \in {0, 1} :
          t = Q!FromWall(day * DaySlots + one, fold)
    BY DEF Q!Candidates
  <2>2. one \in 0..DaySlots - 1 /\ day * DaySlots + one \in Int
    BY <1>2, CronTimes, CronTimesOfDay
  <2>3. PICK wall \in Int : wall = day * DaySlots + one
    BY <2>2
  <2>. DEFINE named == {u \in wall - 2..wall : Q!Local(u) = wall}
  <2>4. CASE named = {}
    <3>1. t \in {wall - zone.before, wall - zone.from}
      BY <2>1, <2>3, <2>4 DEF Q!FromWall
    <3>. QED  BY <3>1 DEF CronZone, Q!Zones
  <2>5. CASE named # {}
    <3>1. \A u \in named : u \in {wall - zone.before, wall - zone.from} /\ u \in Int
      BY CronLocal DEF Q!Local, CronZone, Q!Zones
    <3>2. t = CHOOSE x \in named : \A u \in named : IF fold = 0 THEN x <= u ELSE u <= x
      BY <2>1, <2>3, <2>5 DEF Q!FromWall
    <3>3. \E x \in named : \A u \in named : IF fold = 0 THEN x <= u ELSE u <= x
      BY <2>5, <3>1
    <3>. HIDE DEF named
    <3>. QED  BY <3>1, <3>2, <3>3
  <2>. QED  BY <2>4, <2>5
<1>5. Q!Day(Q!Local(t)) = day /\ Q!Local(t) % DaySlots = slot
  <2>1. PICK wall \in Int : wall = Q!Local(t) /\ wall = day * DaySlots + slot
    BY <1>1, <1>3
  <2>2. slot \in Int /\ 0 <= slot /\ slot < DaySlots
    BY <1>2
  <2>3. wall \div DaySlots = day /\ wall % DaySlots = slot
    BY <1>2, <2>1, <2>2, CronDayOf
  <2>. QED  BY <2>1, <2>3 DEF Q!Day
<1>. QED  BY <1>1, <1>4, <1>5 DEF Q!Named

(* What the line names is a candidate of its day.                           *)
LEMMA CronNamedCandidate ==
  ASSUME Q!SettingOK, CronLine, CronZone, NEW a \in Int, NEW t \in Int, t > a, Q!Named(t)
  PROVE  t \in Q!Candidates(line, Q!Day(Q!Local(t)), a)
<1>1. PICK wall \in Int : wall = Q!Local(t)
  BY CronLocal
<1>2. PICK day \in Int : day = Q!Day(wall)
  BY <1>1, CronDivide DEF Q!Day, Q!SettingOK
<1>3. PICK slot \in Q!Times(line) : slot = wall % DaySlots
  BY <1>1 DEF Q!Named
<1>4. wall = day * DaySlots + slot
  <2>1. DaySlots \in Nat /\ DaySlots > 0
    BY DEF Q!SettingOK
  <2>2. wall = (wall \div DaySlots) * DaySlots + (wall % DaySlots)
    BY <2>1, CronDivide
  <2>3. day = wall \div DaySlots
    BY <1>2 DEF Q!Day
  <2>. QED  BY <1>3, <2>2, <2>3
<1>. DEFINE named == {u \in wall - 2..wall : Q!Local(u) = wall}
<1>5. t \in named
  BY <1>1, CronLocal
<1>6. \A u \in named : u \in {wall - zone.before, wall - zone.from} /\ u \in Int
  BY CronLocal DEF Q!Local, CronZone, Q!Zones
<1>7. \E fold \in {0, 1} : t = Q!FromWall(wall, fold)
  <2>1. Q!FromWall(wall, 0) = CHOOSE x \in named : \A u \in named : x <= u
    BY <1>5 DEF Q!FromWall
  <2>2. Q!FromWall(wall, 1) = CHOOSE x \in named : \A u \in named : u <= x
    BY <1>5 DEF Q!FromWall
  <2>. HIDE DEF named
  <2>3. CASE \A u \in named : t <= u
    <3>1. \A x \in named : (\A u \in named : x <= u) => x = t
      BY <1>5, <1>6, <2>3
    <3>. QED  BY <1>5, <2>1, <2>3, <3>1
  <2>4. CASE \A u \in named : u <= t
    <3>1. \A x \in named : (\A u \in named : u <= x) => x = t
      BY <1>5, <1>6, <2>4
    <3>. QED  BY <1>5, <2>2, <2>4, <3>1
  <2>. QED  BY <1>5, <1>6, <2>3, <2>4 DEF CronZone, Q!Zones
<1>8. PICK fold \in {0, 1} : t = Q!FromWall(day * DaySlots + slot, fold)
  BY <1>4, <1>7
<1>9. t \in {Q!FromWall(day * DaySlots + one, either) : one \in Q!Times(line), either \in {0, 1}}
  BY <1>8
<1>10. \E one \in Q!Times(line) : Q!Local(t) = day * DaySlots + one
  BY <1>1, <1>4
<1>11. t \in Q!Candidates(line, day, a)
  BY <1>9, <1>10 DEF Q!Candidates
<1>. QED  BY <1>1, <1>2, <1>11

LEMMA CronLeast ==
  ASSUME NEW S, S \subseteq Int, NEW low \in Int, \A x \in S : low <= x, S # {}
  PROVE  Q!Least(S) \in S /\ \A x \in S : Q!Least(S) <= x
<1>. DEFINE U == {n \in Nat : low + n \in S}
<1>1. PICK n \in U : \A m \in U : n <= m
  <2>1. PICK x \in S : TRUE
    OBVIOUS
  <2>2. x - low \in U
    OBVIOUS
  <2>. HIDE DEF U
  <2>3. U # {}
    BY <2>2
  <2>4. U \subseteq Nat
    BY DEF U
  <2>. QED  BY <2>3, <2>4, LeastExists
<1>2. low + n \in S
  BY <1>1
<1>3. \A x \in S : low + n <= x
  <2>. SUFFICES ASSUME NEW x \in S PROVE low + n <= x
    OBVIOUS
  <2>1. x - low \in Nat /\ x - low \in U
    OBVIOUS
  <2>2. n <= x - low
    BY <1>1, <2>1
  <2>. QED  BY <2>1, <2>2
<1>. HIDE DEF U
<1>. QED  BY <1>2, <1>3 DEF Q!Least

(* The run after an instant is the first one that the line names, and there *)
(* is none only if the days searched have none.                             *)
LEMMA CronNextRun ==
  ASSUME Q!SettingOK, CronLine, CronZone, NEW a \in Nat
  PROVE  /\ Q!NextRun(line, a) # None =>
              /\ Q!NextRun(line, a) \in a + 1..a + (MaxDays + 1) * DaySlots
              /\ Q!Named(Q!NextRun(line, a))
              /\ \A t \in a + 1..Q!NextRun(line, a) - 1 : ~Q!Named(t)
         /\ Q!NextRun(line, a) = None =>
              \A t \in a + 1..a + (MaxDays - 2) * DaySlots : ~Q!Named(t)
<1>1. PICK first \in Int : first = Q!Day(Q!Local(a))
  BY CronLocal, CronDivide DEF Q!Day, Q!SettingOK
<1>2. PICK days : days = {d \in first..first + MaxDays - 1 :
                            Q!DayMatch(line, d) /\ Q!Candidates(line, d, a) # {}}
  OBVIOUS
<1>3. Q!NextRun(line, a)
        = IF days = {} THEN None ELSE Q!Least(Q!Candidates(line, Q!Least(days), a))
  BY <1>1, <1>2 DEF Q!NextRun
<1>4. ASSUME NEW t \in Int, t > a, Q!Named(t), Q!Day(Q!Local(t)) <= first + MaxDays - 1
      PROVE  /\ Q!Day(Q!Local(t)) \in days
             /\ t \in Q!Candidates(line, Q!Day(Q!Local(t)), a)
  <2>1. PICK day \in Int : day = Q!Day(Q!Local(t))
    BY CronLocal, CronDivide DEF Q!Day, Q!SettingOK
  <2>2. first <= day
    BY <1>1, <1>4, <2>1, CronNoDayTwice
  <2>3. t \in Q!Candidates(line, day, a)
    BY <1>4, <2>1, CronNamedCandidate
  <2>4. Q!DayMatch(line, day)
    BY <1>4, <2>1 DEF Q!Named
  <2>5. day \in first..first + MaxDays - 1
    BY <1>4, <2>1, <2>2 DEF Q!SettingOK
  <2>. QED  BY <1>2, <2>1, <2>3, <2>4, <2>5
<1>5. DaySlots \in Nat /\ DaySlots > 2 /\ MaxDays \in Nat /\ None \notin Nat
  BY DEF Q!SettingOK
<1>6. first * DaySlots \in Int /\ first * DaySlots <= a + 2 /\ a < first * DaySlots + DaySlots
  <2>1. PICK wall \in Int : wall = Q!Local(a) /\ a <= wall /\ wall <= a + 2
    BY CronLocal
  <2>2. first = wall \div DaySlots
    BY <1>1, <2>1 DEF Q!Day
  <2>3. /\ wall = first * DaySlots + (wall % DaySlots) /\ wall % DaySlots \in 0..DaySlots - 1
        /\ first * DaySlots \in Int
    BY <1>5, <2>2, CronDivide, CronTimes
  <2>. QED  BY <1>5, <2>1, <2>3
<1>7. CASE days = {}
  <2>1. \A t \in a + 1..a + (MaxDays - 2) * DaySlots : ~Q!Named(t)
    <3>. SUFFICES ASSUME NEW t \in a + 1..a + (MaxDays - 2) * DaySlots, Q!Named(t)
                  PROVE  FALSE
      OBVIOUS
    <3>1. (MaxDays - 2) * DaySlots \in Int
      BY <1>5, CronTimes
    <3>2. t \in Int /\ t > a /\ t <= a + (MaxDays - 2) * DaySlots
      BY <3>1
    <3>3. PICK wall \in Int : wall = Q!Local(t) /\ wall <= t + 2
      BY <3>2, CronLocal
    <3>4. PICK day \in Int : /\ day = Q!Day(wall) /\ day * DaySlots \in Int
                             /\ day * DaySlots <= wall
      <4>1. wall \div DaySlots \in Int
        BY <1>5, CronDivide
      <4>2. PICK day \in Int : day = wall \div DaySlots
        BY <4>1
      <4>3. wall = day * DaySlots + (wall % DaySlots) /\ wall % DaySlots \in 0..DaySlots - 1
        BY <1>5, <4>2, CronDivide
      <4>4. day * DaySlots \in Int
        BY <1>5, CronTimes
      <4>. QED  BY <1>5, <4>2, <4>3, <4>4 DEF Q!Day
    <3>5. day <= first + MaxDays - 1
      <4>. SUFFICES ASSUME first + MaxDays <= day PROVE FALSE
        BY <1>5
      <4>1. /\ (first + MaxDays) * DaySlots <= day * DaySlots
            /\ (first + MaxDays) * DaySlots
                 = first * DaySlots + (MaxDays - 2) * DaySlots + DaySlots + DaySlots
        BY <1>5, CronTimes, CronNextDay
      <4>. QED  BY <1>5, <1>6, <3>1, <3>2, <3>3, <3>4, <4>1
    <3>6. day \in days
      BY <1>4, <3>2, <3>3, <3>4, <3>5
    <3>. QED  BY <1>7, <3>6
  <2>. QED  BY <1>3, <1>7, <2>1
<1>8. CASE days # {}
  <2>1. PICK one : one = Q!Least(days)
    OBVIOUS
  <2>2. one \in days /\ \A d \in days : one <= d
    <3>1. days \subseteq Int /\ \A d \in days : first <= d
      BY <1>2, <1>5
    <3>. QED  BY <1>8, <2>1, <3>1, CronLeast
  <2>3. /\ one \in first..first + MaxDays - 1 /\ Q!DayMatch(line, one)
        /\ Q!Candidates(line, one, a) # {}
    BY <1>2, <2>2
  <2>4. PICK run : run = Q!Least(Q!Candidates(line, one, a))
    OBVIOUS
  <2>5. run \in Q!Candidates(line, one, a) /\ \A t \in Q!Candidates(line, one, a) : run <= t
    <3>1. \A t \in Q!Candidates(line, one, a) : t \in Int /\ a <= t
      BY <1>5, <2>3, CronCandidateNamed
    <3>2. Q!Candidates(line, one, a) \subseteq Int
      BY <3>1
    <3>. QED  BY <2>3, <2>4, <3>1, <3>2, CronLeast
  <2>6. run \in Int /\ run > a /\ Q!Named(run) /\ Q!Day(Q!Local(run)) = one
    BY <1>5, <2>3, <2>5, CronCandidateNamed
  <2>7. \A t \in a + 1..run - 1 : ~Q!Named(t)
    <3>. SUFFICES ASSUME NEW t \in a + 1..run - 1, Q!Named(t) PROVE FALSE
      OBVIOUS
    <3>1. t \in Int /\ t > a /\ t < run
      BY <2>6
    <3>2. PICK day \in Int : day = Q!Day(Q!Local(t))
      BY <3>1, CronLocal, CronDivide DEF Q!Day, Q!SettingOK
    <3>3. day <= one
      BY <2>6, <3>1, <3>2, CronNoDayTwice
    <3>4. day <= first + MaxDays - 1
      BY <1>5, <2>3, <3>3
    <3>5. day \in days /\ t \in Q!Candidates(line, day, a)
      BY <1>4, <3>1, <3>2, <3>4
    <3>6. day = one
      BY <2>2, <2>3, <3>3, <3>5
    <3>. QED  BY <2>5, <2>6, <3>1, <3>5, <3>6
  <2>8. run <= a + (MaxDays + 1) * DaySlots
    <3>1. PICK wall \in Int : wall = Q!Local(run) /\ run <= wall
      BY <2>6, CronLocal
    <3>2. one = wall \div DaySlots
      BY <2>6, <3>1 DEF Q!Day
    <3>3. one * DaySlots \in Int /\ wall < one * DaySlots + DaySlots
      BY <1>5, <2>3, <3>2, CronDivide, CronTimes
    <3>4. /\ one * DaySlots <= (first + MaxDays - 1) * DaySlots
          /\ (first + MaxDays - 1) * DaySlots = first * DaySlots + MaxDays * DaySlots - DaySlots
          /\ (MaxDays + 1) * DaySlots = MaxDays * DaySlots + DaySlots
          /\ MaxDays * DaySlots \in Int
      BY <1>5, <2>3, CronTimes, CronNextDay
    <3>. QED  BY <1>5, <1>6, <2>6, <3>1, <3>3, <3>4
  <2>9. (MaxDays + 1) * DaySlots \in Int
    BY <1>5, CronTimes
  <2>10. Q!NextRun(line, a) = run /\ run # None
    BY <1>3, <1>5, <1>8, <2>1, <2>4, <2>6
  <2>. QED  BY <2>6, <2>7, <2>8, <2>9, <2>10
<1>. QED  BY <1>7, <1>8

LEMMA CronStep == Q!SettingOK /\ CronInv /\ [Q!Next]_(Q!vars) => CronInv'
<1>. SUFFICES ASSUME Q!SettingOK, CronInv, [Q!Next]_(Q!vars) PROVE CronInv'
  OBVIOUS
<1>1. CASE UNCHANGED Q!vars
  BY <1>1 DEF Q!vars, CronInv, Q!TypeOK, CronLine, CronZone, Q!NoDayTwice,
     Q!EarliestIsNext, Q!Named, Q!Local, Q!Offset
<1>2. CASE Q!Advance
  <2>1. PICK from_ \in Nat : /\ after' = from_ /\ next' = Q!NextRun(line, from_)
                           /\ from_ <= Last + MaxLate /\ zone' = zone /\ line' = line
    BY <1>2 DEF Q!Advance, CronInv, Q!TypeOK, Q!SettingOK
  <2>2. CronLine' /\ CronZone'
    BY <2>1 DEF CronInv, CronLine, CronZone, Q!NoDayTwice
  <2>3. \A t : Q!Named(t)' <=> Q!Named(t)
    BY <2>1 DEF Q!Named, Q!Local, Q!Offset
  <2>4. PICK run : run = Q!NextRun(line, from_)
    OBVIOUS
  <2>5. (MaxDays + 1) * DaySlots \in Int /\ Last \in Nat /\ MaxLate \in Nat
    BY CronTimes DEF Q!SettingOK
  <2>6. /\ run # None => /\ run \in from_ + 1..from_ + (MaxDays + 1) * DaySlots /\ Q!Named(run)
                         /\ \A t \in from_ + 1..run - 1 : ~Q!Named(t)
        /\ run = None => \A t \in from_ + 1..from_ + (MaxDays - 2) * DaySlots : ~Q!Named(t)
    BY <2>4, CronNextRun DEF CronInv
  <2>7. Q!TypeOK'
    <3>1. after' \in 0..Last + MaxLate
      BY <2>1, <2>5
    <3>2. run \in {None} \cup 0..(Last + MaxLate + (MaxDays + 1) * DaySlots)
      BY <2>1, <2>5, <2>6
    <3>. QED  BY <2>1, <2>4, <3>1, <3>2 DEF CronInv, Q!TypeOK
  <2>8. Q!EarliestIsNext'
    <3>1. next' = run /\ after' = from_
      BY <2>1, <2>4
    <3>2. CASE run # None
      <4>1. run > from_ /\ Q!Named(run)'
        BY <2>1, <2>3, <2>5, <2>6, <3>2
      <4>2. \A t \in from_ + 1..run - 1 : ~Q!Named(t)'
        BY <2>3, <2>6, <3>2
      <4>. QED  BY <3>1, <3>2, <4>1, <4>2 DEF Q!EarliestIsNext, Q!Named, Q!Local, Q!Offset
    <3>3. CASE run = None
      <4>1. \A t \in from_ + 1..from_ + (MaxDays - 2) * DaySlots : ~Q!Named(t)'
        BY <2>3, <2>6, <3>3
      <4>. QED  BY <3>1, <3>3, <4>1 DEF Q!EarliestIsNext, Q!Named, Q!Local, Q!Offset
    <3>. QED  BY <3>2, <3>3
  <2>. QED  BY <2>2, <2>7, <2>8 DEF CronInv
<1>. QED  BY <1>1, <1>2 DEF Q!Next

LEMMA CronRuns ==
  ASSUME [OperationsNext]_allVars, scenario' = "cron"
  PROVE  scenario = "cron" /\ [Q!Next]_(Q!vars)
<1>1. CASE OperationsNext
  BY <1>1 DEF OperationsNext
<1>2. CASE UNCHANGED allVars
  BY <1>2 DEF allVars, shared, ofCron, Q!vars
<1>. QED  BY <1>1, <1>2

LEMMA CronAlways == OperationsSpec => [](scenario = "cron" => CronInv)
<1>1. OperationsInit => (scenario = "cron" => CronInv)
  BY SettingsOK, CronInit DEF OperationsInit
<1>2. (scenario = "cron" => CronInv) /\ [OperationsNext]_allVars
        => (scenario = "cron" => CronInv)'
  BY SettingsOK, CronRuns, CronStep
<1>. QED  BY <1>1, <1>2, PTL DEF OperationsSpec

(* For any line, time zone and calendar: the run after an instant is the    *)
(* first one that the line names, and a line without one names none of the  *)
(* days searched; and what a collection says of processors is true.         *)
THEOREM AlgorithmsCorrect == OperationsSpec => []AlgorithmsAgree
<1>1. (scenario = "cron" => CronInv) => (scenario = "cron" => Q!EarliestIsNext)
  BY DEF CronInv
<1>2. (scenario = "discovery" => DiscoveryInv)
        => (scenario = "discovery" => D!DiscoveryIsHonest)
  BY DEF DiscoveryInv
<1>3. (scenario = "cron" => CronInv) /\ (scenario = "discovery" => DiscoveryInv)
        => AlgorithmsAgree
  BY <1>1, <1>2 DEF AlgorithmsAgree
<1>. QED  BY <1>3, CronAlways, DiscoveryAlways, PTL

-------------------------------------------------------------------------------
(* Console                                                                  *)

(* Every request of this session is to the SERVER of the session, jobs that *)
(* answers and requests name are of the SERVER asked, and inventories are   *)
(* of hosts; what a busy flag waits for is under way; while a review is     *)
(* open, only what was reviewed is a target, unless it was replaced.        *)
ConsoleJobs(js, s) == {j \in DOMAIN js : js[j].server = s}

RequestFits(r, e, c, js) ==
  /\ r.epoch <= e /\ (r.epoch = e /\ r.call # "hello" => r.server = c)
  /\ r.call = "start" =>
       r.arg \in C!Kinds /\ (r.state = "answered" => r.value \subseteq ConsoleJobs(js, r.server))
  /\ r.call = "result" => r.arg \in ConsoleJobs(js, r.server)
  /\ r.call \in {"inventory", "refresh", "books"} /\ r.state = "answered"
       => r.value \subseteq ConsoleHosts

FlightFits(f, e, c, js) ==
  /\ f \in [1..MaxFlight -> C!Request \cup {None}]
  /\ \A i \in 1..MaxFlight : f[i] # None => RequestFits(f[i], e, c, js)

Carries(f, e, what) ==
  \E i \in 1..MaxFlight : f[i] # None /\ f[i].epoch = e /\ f[i].call = what

SessionFits(c, js) == \A j \in {active, shown, plan} \ {None} : j \in ConsoleJobs(js, c)

FlagsWait ==
  /\ pollBusy => Carries(flight, epoch, "poll")
  /\ inventoryBusy => Carries(flight, epoch, "refresh")
  /\ pending => Carries(flight, epoch, "start")

ReviewFits ==
  dialog # None /\ ~dialog.replaced =>
    /\ chosen => listed \subseteq dialog.reviewed
    /\ ~chosen => checked \subseteq dialog.reviewed

ServerFits ==
  /\ truth \in [Servers -> SUBSET ConsoleHosts] /\ shelf \in [Servers -> SUBSET ConsoleHosts]
  /\ events \in 0..MaxEvents
  /\ jobs \in Seq(C!Job) /\ Len(jobs) <= MaxJobs
EpochFits ==
  /\ epoch \in 0..MaxEpochs /\ client \in Servers \cup {None}
  /\ loaded \in C!JobIds \cup {None}
ViewsFit ==
  /\ inventory \subseteq ConsoleHosts /\ checked \subseteq inventory
  /\ listed \subseteq ConsoleHosts /\ chosen \in BOOLEAN /\ (chosen => checked \subseteq listed)
  /\ dialog \in C!Dialog \cup {None}
FlagsFit == pollBusy \in BOOLEAN /\ inventoryBusy \in BOOLEAN /\ pending \in BOOLEAN

ConsoleInv ==
  /\ ServerFits /\ EpochFits /\ ViewsFit /\ FlagsFit
  /\ FlightFits(flight, epoch, client, jobs) /\ SessionFits(client, jobs)
  /\ FlagsWait /\ ReviewFits

(* What a request may be about: nothing, a kind of job or a job.            *)
LEMMA ConsoleArgs == C!Args = C!Kinds \cup C!JobIds \cup {None, "book"}
BY DEF C!Args

LEMMA ConsoleInit == C!SettingOK /\ C!Init => ConsoleInv
<1>. SUFFICES ASSUME C!SettingOK, C!Init PROVE ConsoleInv
  OBVIOUS
<1>1. FlightFits(flight, epoch, client, jobs)
  BY DEF C!Init, FlightFits
<1>2. ServerFits
  BY DEF C!Init, C!SettingOK, ServerFits
<1>3. EpochFits
  BY DEF C!Init, C!SettingOK, EpochFits
<1>5. ViewsFit
  BY DEF C!Init, ViewsFit
<1>4. FlagsFit /\ FlagsWait
  BY DEF C!Init, FlagsFit, FlagsWait
<1>. QED  BY <1>1, <1>2, <1>3, <1>4, <1>5 DEF C!Init, ConsoleInv, SessionFits, ReviewFits

LEMMA ConsoleTypes == C!SettingOK /\ ConsoleInv => C!TypeOK
<1>. SUFFICES ASSUME C!SettingOK, ConsoleInv PROVE C!TypeOK
  OBVIOUS
<1>1. {pollBusy, inventoryBusy, pending} \subseteq BOOLEAN
  BY DEF ConsoleInv, FlagsFit
<1>2. DOMAIN jobs \subseteq C!JobIds
  BY DEF ConsoleInv, ServerFits, C!SettingOK, C!JobIds
<1>3. {active, loaded, shown, plan} \subseteq C!JobIds \cup {None}
  BY <1>2 DEF ConsoleInv, EpochFits, SessionFits, ConsoleJobs
<1>4. \A i \in 1..MaxFlight : flight[i] = None \/ flight[i].call \in C!Calls
  BY ConsoleArgs DEF ConsoleInv, FlightFits, C!Request
<1>. QED
  BY <1>1, <1>3, <1>4 DEF ConsoleInv, ServerFits, EpochFits, ViewsFit, C!TypeOK

(* A request that is sent takes one free place.                             *)
LEMMA ConsolePlace ==
  ASSUME NEW S, S \subseteq Nat, S # {}
  PROVE  (CHOOSE i \in S : \A k \in S : i <= k) \in S
<1>1. \E i \in S : \A k \in S : i <= k
  BY LeastExists
<1>. QED  BY <1>1

LEMMA ConsoleSends ==
  ASSUME C!SettingOK, NEW f, NEW e \in 0..MaxEpochs, NEW c, NEW js, NEW s \in Servers,
         NEW what \in C!Calls, NEW arg \in C!Kinds \cup C!JobIds \cup {None, "book"},
         FlightFits(f, e, c, js), C!Free(f) # {},
         what # "hello" => s = c, what = "start" => arg \in C!Kinds,
         what = "result" => arg \in ConsoleJobs(js, s)
  PROVE  /\ FlightFits(C!Work(f, e, s, what, arg), e, c, js)
         /\ Carries(C!Work(f, e, s, what, arg), e, what)
         /\ \A other : Carries(f, e, other) => Carries(C!Work(f, e, s, what, arg), e, other)
         /\ \E k \in 1..MaxFlight :
              C!Free(C!Work(f, e, s, what, arg)) = C!Free(f) \ {k}
<1>. DEFINE r == [epoch |-> e, server |-> s, call |-> what, arg |-> arg, state |-> "asked",
                  value |-> {}]
<1>1. f \in [1..MaxFlight -> C!Request \cup {None}]
  BY DEF FlightFits
<1>2. PICK k \in 1..MaxFlight : f[k] = None /\ C!Work(f, e, s, what, arg) = [f EXCEPT ![k] = r]
  <2>1. C!Free(f) = {i \in 1..MaxFlight : f[i] = None}
    BY <1>1 DEF C!Free
  <2>2. C!Free(f) \subseteq Nat
    BY <2>1
  <2>3. PICK k : k = CHOOSE i \in C!Free(f) : \A j \in C!Free(f) : i <= j
    OBVIOUS
  <2>4. k \in C!Free(f)
    BY <2>2, <2>3, ConsolePlace
  <2>5. C!Work(f, e, s, what, arg) = [f EXCEPT ![k] = r]
    BY <2>3 DEF C!Work
  <2>. QED  BY <2>1, <2>4, <2>5
<1>3. PICK g : g = C!Work(f, e, s, what, arg)
  OBVIOUS
<1>4. r \in C!Request
  BY ConsoleArgs DEF C!Request
<1>5. r # None
  BY <1>4 DEF C!SettingOK
<1>6. RequestFits(r, e, c, js)
  BY DEF RequestFits
<1>7. /\ r.epoch = e /\ r.call = what
  OBVIOUS
<1>. HIDE DEF r
<1>8. /\ g \in [1..MaxFlight -> C!Request \cup {None}] /\ g[k] = r
      /\ \A i \in 1..MaxFlight : i # k => g[i] = f[i]
  BY <1>1, <1>2, <1>3, <1>4
<1>9. FlightFits(g, e, c, js)
  BY <1>6, <1>8 DEF FlightFits
<1>10. Carries(g, e, what)
  BY <1>5, <1>7, <1>8 DEF Carries
<1>11. \A other : Carries(f, e, other) => Carries(g, e, other)
  BY <1>2, <1>8 DEF Carries
<1>12. C!Free(g) = C!Free(f) \ {k}
  BY <1>1, <1>2, <1>5, <1>8 DEF C!Free
<1>. QED  BY <1>3, <1>9, <1>10, <1>11, <1>12

(* A request that is delivered frees its place.                             *)
LEMMA ConsoleLands ==
  ASSUME NEW i \in 1..MaxFlight, FlightFits(flight, epoch, client, jobs)
  PROVE  /\ FlightFits(C!Landed(i), epoch, client, jobs)
         /\ C!Free(C!Landed(i)) # {}
         /\ \A what : Carries(flight, epoch, what)
                        /\ (flight[i] = None \/ flight[i].epoch # epoch \/ flight[i].call # what)
                        => Carries(C!Landed(i), epoch, what)
<1>1. flight \in [1..MaxFlight -> C!Request \cup {None}]
  BY DEF FlightFits
<1>2. PICK g : g = C!Landed(i)
  OBVIOUS
<1>3. /\ g \in [1..MaxFlight -> C!Request \cup {None}] /\ g[i] = None
      /\ \A k \in 1..MaxFlight : k # i => g[k] = flight[k]
  BY <1>1, <1>2 DEF C!Landed
<1>4. FlightFits(g, epoch, client, jobs)
  BY <1>3 DEF FlightFits
<1>5. C!Free(g) # {}
  BY <1>3 DEF C!Free
<1>6. \A what : Carries(flight, epoch, what)
                  /\ (flight[i] = None \/ flight[i].epoch # epoch \/ flight[i].call # what)
                  => Carries(g, epoch, what)
  BY <1>3 DEF Carries
<1>. QED  BY <1>2, <1>4, <1>5, <1>6

(* What jobs were is what they stay, and a new session has no requests yet. *)
LEMMA ConsoleJobsStay ==
  ASSUME NEW f, NEW e, NEW c, NEW js, NEW more,
         \A s : ConsoleJobs(js, s) \subseteq ConsoleJobs(more, s), FlightFits(f, e, c, js)
  PROVE  FlightFits(f, e, c, more)
BY DEF FlightFits, RequestFits

LEMMA ConsoleNewEpoch ==
  ASSUME NEW f, NEW e \in Nat, NEW c, NEW js, NEW new, FlightFits(f, e, c, js)
  PROVE  FlightFits(f, e + 1, new, js)
<1>1. \A i \in 1..MaxFlight : f[i] # None => f[i].epoch \in Nat
  BY ConsoleArgs DEF FlightFits, C!Request
<1>. QED  BY <1>1 DEF FlightFits, RequestFits

(* What the GUI thread does to its own views alone.                         *)
LEMMA ConsoleLooksKeeps ==
  ASSUME C!SettingOK, ConsoleInv,
         \/ C!Invalidate \/ C!Review
         \/ \E h \in ConsoleHosts : C!Toggle(h)
         \/ \E choice \in BOOLEAN : C!Choose(choice)
  PROVE  ConsoleInv'
<1>. USE DEF C!server, C!books, C!views, C!flags
<1>1. /\ UNCHANGED <<truth, shelf, jobs, epoch, client, inventory, active, loaded, pollBusy,
                     inventoryBusy, pending, flight, events, shown, listed>>
      /\ plan' \in {plan, None}
  BY DEF C!Invalidate, C!Review, C!Toggle, C!Choose
<1>2. ServerFits' /\ EpochFits' /\ FlagsFit' /\ FlightFits(flight, epoch, client, jobs)'
  BY <1>1 DEF ConsoleInv, ServerFits, EpochFits, FlagsFit
<1>3. SessionFits(client, jobs)' /\ FlagsWait'
  BY <1>1 DEF ConsoleInv, SessionFits, FlagsWait
<1>4. ViewsFit' /\ ReviewFits'
  <2>1. CASE C!Invalidate
    BY <2>1 DEF C!Invalidate, ConsoleInv, ViewsFit, ReviewFits
  <2>2. CASE C!Review
    BY <2>2 DEF C!Review, C!CheckedHosts, ConsoleInv, ViewsFit, ReviewFits, C!Dialog
  <2>3. ASSUME NEW h \in ConsoleHosts, C!Toggle(h) PROVE ViewsFit' /\ ReviewFits'
    BY <2>3 DEF C!Toggle, C!User, ConsoleInv, ViewsFit, ReviewFits
  <2>4. ASSUME NEW choice \in BOOLEAN, C!Choose(choice) PROVE ViewsFit' /\ ReviewFits'
    BY <2>4 DEF C!Choose, C!User, ConsoleInv, ViewsFit, ReviewFits
  <2>. QED  BY <2>1, <2>2, <2>3, <2>4
<1>. QED  BY <1>2, <1>3, <1>4 DEF ConsoleInv

(* What SERVER does.                                                        *)
LEMMA ConsoleFinishKeeps ==
  ASSUME C!SettingOK, ConsoleInv,
         (\E j \in C!JobIds : C!Finish(j)) \/ (\E s \in Servers : C!Save(s))
  PROVE  ConsoleInv'
<1>. USE DEF C!server, C!books, C!views, C!flags
<1>1. UNCHANGED <<epoch, client, inventory, checked, listed, chosen, active, loaded, shown, plan, pollBusy,
                  inventoryBusy, pending, flight, dialog>>
  BY DEF C!Finish, C!Save
<1>2. ServerFits' /\ \A s : ConsoleJobs(jobs, s) \subseteq ConsoleJobs(jobs', s)
  <2>1. ASSUME NEW j \in C!JobIds, C!Finish(j)
        PROVE  ServerFits' /\ \A s : ConsoleJobs(jobs, s) \subseteq ConsoleJobs(jobs', s)
    <3>1. PICK s \in {"completed", "failed"} : jobs' = [jobs EXCEPT ![j].status = s]
      BY <2>1 DEF C!Finish
    <3>2. j \in DOMAIN jobs /\ jobs \in Seq(C!Job) /\ jobs[j] \in C!Job
      BY <2>1 DEF C!Finish, ConsoleInv, ServerFits
    <3>3. [jobs[j] EXCEPT !.status = s] \in C!Job
      BY <3>2 DEF C!Job, C!Statuses
    <3>4. jobs' = [jobs EXCEPT ![j] = [jobs[j] EXCEPT !.status = s]]
      BY <3>1
    <3>5. jobs' \in Seq(C!Job) /\ Len(jobs') = Len(jobs)
      BY <3>2, <3>3, <3>4
    <3>6. [jobs[j] EXCEPT !.status = s].server = jobs[j].server
      BY <3>2 DEF C!Job
    <3>7. DOMAIN jobs' = DOMAIN jobs /\ \A i \in DOMAIN jobs : jobs'[i].server = jobs[i].server
      BY <3>2, <3>4, <3>6
    <3>8. UNCHANGED <<truth, shelf, events>>
      BY <2>1 DEF C!Finish
    <3>9. \A one : ConsoleJobs(jobs, one) \subseteq ConsoleJobs(jobs', one)
      BY <3>7 DEF ConsoleJobs
    <3>. QED  BY <3>5, <3>8, <3>9 DEF ConsoleInv, ServerFits
  <2>2. ASSUME NEW s \in Servers, C!Save(s)
        PROVE  ServerFits' /\ \A one : ConsoleJobs(jobs, one) \subseteq ConsoleJobs(jobs', one)
    BY <2>2 DEF C!Save, ConsoleInv, ServerFits, C!SettingOK
  <2>. QED  BY <2>1, <2>2
<1>3. FlightFits(flight, epoch, client, jobs')
  BY <1>2, ConsoleJobsStay DEF ConsoleInv
<1>4. EpochFits' /\ ViewsFit' /\ FlagsFit' /\ FlagsWait' /\ ReviewFits'
  BY <1>1 DEF ConsoleInv, EpochFits, ViewsFit, FlagsFit, FlagsWait, ReviewFits
<1>5. SessionFits(client, jobs)'
  BY <1>1, <1>2 DEF ConsoleInv, SessionFits
<1>. QED  BY <1>1, <1>2, <1>3, <1>4, <1>5 DEF ConsoleInv

(* What the GUI thread sends.                                               *)
LEMMA ConsoleSendKeeps ==
  ASSUME C!SettingOK, ConsoleInv, NEW s \in Servers, NEW what \in C!Calls,
         NEW arg \in C!Kinds \cup C!JobIds \cup {None, "book"}, C!CanWork,
         what # "hello" => s = client, what = "start" => arg \in C!Kinds,
         what = "result" => arg \in ConsoleJobs(jobs, s),
         flight' = C!Work(flight, epoch, s, what, arg),
         UNCHANGED <<truth, shelf, jobs, events, epoch, client>>
  PROVE  /\ FlightFits(flight, epoch, client, jobs)' /\ ServerFits'
         /\ Carries(flight', epoch', what)
         /\ \A other : Carries(flight, epoch, other) => Carries(flight', epoch', other)
<1>1. ServerFits' /\ epoch \in 0..MaxEpochs
  BY DEF ConsoleInv, ServerFits, EpochFits
<1>2. FlightFits(flight, epoch, client, jobs)
  BY DEF ConsoleInv
<1>3. C!Free(flight) # {}
  BY DEF C!CanWork
<1>4. PICK g : g = C!Work(flight, epoch, s, what, arg)
  OBVIOUS
<1>5. /\ FlightFits(g, epoch, client, jobs) /\ Carries(g, epoch, what)
      /\ \A other : Carries(flight, epoch, other) => Carries(g, epoch, other)
  BY <1>1, <1>2, <1>3, <1>4, ConsoleSends
<1>. QED  BY <1>1, <1>4, <1>5

LEMMA ConsoleConnectKeeps ==
  ASSUME C!SettingOK, ConsoleInv, NEW s \in Servers, C!Connect(s)
  PROVE  ConsoleInv'
<1>. USE DEF C!server, C!books, C!views, C!flags
<1>1. /\ UNCHANGED <<truth, shelf, jobs, epoch, client, inventory, checked, listed, chosen, active, loaded, shown, plan,
                     pollBusy, inventoryBusy, pending, events, dialog>>
      /\ flight' = C!Work(flight, epoch, s, "hello", None) /\ C!CanWork
  BY DEF C!Connect
<1>2. /\ FlightFits(flight, epoch, client, jobs)' /\ ServerFits'
      /\ \A other : Carries(flight, epoch, other) => Carries(flight', epoch', other)
  BY <1>1, ConsoleSendKeeps DEF C!Calls
<1>3. EpochFits' /\ ViewsFit' /\ FlagsFit' /\ ReviewFits' /\ SessionFits(client, jobs)'
  BY <1>1 DEF ConsoleInv, EpochFits, ViewsFit, FlagsFit, ReviewFits, SessionFits
<1>4. FlagsWait'
  BY <1>1, <1>2 DEF ConsoleInv, FlagsWait
<1>. QED  BY <1>2, <1>3, <1>4 DEF ConsoleInv

LEMMA ConsoleTimerKeeps ==
  ASSUME C!SettingOK, ConsoleInv, C!Refresh \/ C!Poll
  PROVE  ConsoleInv'
<1>. USE DEF C!server, C!books, C!views, C!flags
<1>1. PICK what \in {"refresh", "poll"} :
        /\ flight' = C!Work(flight, epoch, client, what, None) /\ C!CanWork /\ client # None
        /\ pollBusy' = (IF what = "poll" THEN TRUE ELSE pollBusy)
        /\ inventoryBusy' = (IF what = "refresh" THEN TRUE ELSE inventoryBusy)
        /\ UNCHANGED <<truth, shelf, jobs, epoch, client, inventory, checked, listed, chosen, active, loaded, shown, plan,
                       pending, events, dialog>>
  BY DEF C!Refresh, C!Poll
<1>2. client \in Servers
  BY <1>1 DEF ConsoleInv, EpochFits
<1>3. /\ FlightFits(flight, epoch, client, jobs)' /\ ServerFits'
      /\ Carries(flight', epoch', what)
      /\ \A other : Carries(flight, epoch, other) => Carries(flight', epoch', other)
  BY <1>1, <1>2, ConsoleSendKeeps DEF C!Calls
<1>4. EpochFits' /\ ViewsFit' /\ ReviewFits' /\ SessionFits(client, jobs)'
  BY <1>1 DEF ConsoleInv, EpochFits, ViewsFit, ReviewFits, SessionFits
<1>5. FlagsFit' /\ FlagsWait'
  BY <1>1, <1>3 DEF ConsoleInv, FlagsFit, FlagsWait
<1>. QED  BY <1>3, <1>4, <1>5 DEF ConsoleInv

LEMMA ConsoleBooksAsked ==
  ASSUME C!SettingOK, ConsoleInv, C!RefreshBooks
  PROVE  ConsoleInv'
<1>. USE DEF C!server, C!books, C!views, C!flags
<1>1. PICK arg \in {None, "book"} :
        flight' = C!Work(flight, epoch, client, "books", arg)
  BY DEF C!RefreshBooks, C!Selection
<1>2. /\ C!CanWork /\ client # None
      /\ UNCHANGED <<truth, shelf, jobs, epoch, client, inventory, checked, listed, chosen, active,
                     loaded, shown, plan, pollBusy, inventoryBusy, pending, events, dialog>>
  BY DEF C!RefreshBooks
<1>3. client \in Servers
  BY <1>2 DEF ConsoleInv, EpochFits
<1>4. /\ FlightFits(flight, epoch, client, jobs)' /\ ServerFits'
      /\ \A other : Carries(flight, epoch, other) => Carries(flight', epoch', other)
  BY <1>1, <1>2, <1>3, ConsoleSendKeeps DEF C!Calls
<1>5. EpochFits' /\ ViewsFit' /\ FlagsFit' /\ ReviewFits' /\ SessionFits(client, jobs)'
  BY <1>2 DEF ConsoleInv, EpochFits, ViewsFit, FlagsFit, ReviewFits, SessionFits
<1>6. FlagsWait'
  BY <1>2, <1>4 DEF ConsoleInv, FlagsWait
<1>. QED  BY <1>4, <1>5, <1>6 DEF ConsoleInv

(* A job is submitted to the SERVER of the session.                         *)
LEMMA ConsoleStarts ==
  ASSUME C!SettingOK, ConsoleInv, NEW sort \in C!Kinds, C!Startable, C!Start(sort),
         UNCHANGED <<truth, shelf, jobs, events, epoch, client, pollBusy, inventoryBusy>>
  PROVE  FlightFits(flight, epoch, client, jobs)' /\ ServerFits' /\ FlagsFit' /\ FlagsWait'
<1>1. flight' = C!Work(flight, epoch, client, "start", sort) /\ C!CanWork /\ pending' = TRUE
  BY DEF C!Startable, C!Start
<1>2. client \in Servers
  BY DEF C!Startable, ConsoleInv, EpochFits
<1>3. /\ FlightFits(flight, epoch, client, jobs)' /\ ServerFits'
      /\ Carries(flight', epoch', "start")
      /\ \A other : Carries(flight, epoch, other) => Carries(flight', epoch', other)
  BY <1>1, <1>2, ConsoleSendKeeps DEF C!Calls
<1>4. FlagsFit' /\ FlagsWait'
  BY <1>1, <1>3 DEF ConsoleInv, FlagsFit, FlagsWait
<1>. QED  BY <1>3, <1>4

LEMMA ConsoleAnswerKeeps ==
  ASSUME C!SettingOK, ConsoleInv, C!Answer
  PROVE  ConsoleInv'
<1>. USE DEF C!server, C!books, C!views, C!flags
<1>1. /\ dialog' = None
      /\ UNCHANGED <<truth, shelf, jobs, epoch, client, inventory, checked, listed, chosen, active, loaded, shown, plan,
                     pollBusy, inventoryBusy, events>>
  BY DEF C!Answer
<1>2. EpochFits' /\ ViewsFit' /\ ReviewFits' /\ SessionFits(client, jobs)'
  BY <1>1 DEF ConsoleInv, EpochFits, ViewsFit, ReviewFits, SessionFits
<1>3. CASE C!Startable /\ C!Start("command")
  <2>1. FlightFits(flight, epoch, client, jobs)' /\ ServerFits' /\ FlagsFit' /\ FlagsWait'
    BY <1>1, <1>3, ConsoleStarts DEF C!Kinds
  <2>. QED  BY <1>2, <2>1 DEF ConsoleInv
<1>4. CASE UNCHANGED <<pending, flight>>
  BY <1>1, <1>2, <1>4 DEF ConsoleInv, ServerFits, FlagsFit, FlagsWait
<1>. QED  BY <1>3, <1>4 DEF C!Answer

LEMMA ConsolePatchKeeps ==
  ASSUME C!SettingOK, ConsoleInv, NEW sort \in C!Kinds, C!Patch(sort)
  PROVE  ConsoleInv'
<1>. USE DEF C!server, C!books, C!views, C!flags
<1>1. /\ plan' = None
      /\ UNCHANGED <<truth, shelf, jobs, epoch, client, inventory, checked, listed, chosen, active, loaded, shown,
                     pollBusy, inventoryBusy, events, dialog>>
  BY DEF C!Patch
<1>2. EpochFits' /\ ViewsFit' /\ ReviewFits' /\ SessionFits(client, jobs)'
  BY <1>1 DEF ConsoleInv, EpochFits, ViewsFit, ReviewFits, SessionFits
<1>3. CASE C!Startable /\ C!Start(sort)
  <2>1. FlightFits(flight, epoch, client, jobs)' /\ ServerFits' /\ FlagsFit' /\ FlagsWait'
    BY <1>1, <1>3, ConsoleStarts
  <2>. QED  BY <1>2, <2>1 DEF ConsoleInv
<1>4. CASE UNCHANGED <<pending, flight>>
  BY <1>1, <1>2, <1>4 DEF ConsoleInv, ServerFits, FlagsFit, FlagsWait
<1>. QED  BY <1>3, <1>4 DEF C!Patch

(* A session that ends leaves nothing behind.                               *)
LEMMA ConsoleClearedKeeps ==
  ASSUME C!SettingOK, ConsoleInv, C!Cleared, NEW new
  PROVE  ViewsFit' /\ ReviewFits' /\ SessionFits(new, jobs)'
<1>1. /\ inventory' = {} /\ checked' = {} /\ listed' = {} /\ chosen' = FALSE /\ shown' = None /\ plan' = None /\ active' = None
      /\ dialog' \in {None, [dialog EXCEPT !.replaced = TRUE]}
      /\ dialog = None => dialog' = None
  BY DEF C!Cleared
<1>2. dialog # None => dialog \in C!Dialog
  BY DEF ConsoleInv, ViewsFit
<1>3. dialog' = None \/ (dialog' \in C!Dialog /\ dialog'.replaced = TRUE)
  BY <1>1, <1>2 DEF C!Dialog
<1>4. ViewsFit'
  BY <1>1, <1>3 DEF ViewsFit
<1>5. ReviewFits'
  BY <1>3 DEF ReviewFits
<1>. QED  BY <1>1, <1>4, <1>5 DEF SessionFits

LEMMA ConsoleDisconnectKeeps ==
  ASSUME C!SettingOK, ConsoleInv, C!Disconnect
  PROVE  ConsoleInv'
<1>. USE DEF C!server, C!books, C!views, C!flags
<1>1. /\ epoch' = epoch + 1 /\ client' = None /\ pollBusy' = FALSE /\ pending' = FALSE
      /\ inventoryBusy' = FALSE /\ C!Cleared /\ epoch < MaxEpochs
      /\ UNCHANGED <<truth, shelf, jobs, loaded, flight, events>>
  BY DEF C!Disconnect, C!Cleared
<1>2. epoch \in Nat /\ epoch + 1 \in 0..MaxEpochs
  BY <1>1 DEF ConsoleInv, EpochFits, C!SettingOK
<1>3. ServerFits' /\ EpochFits'
  BY <1>1, <1>2 DEF ConsoleInv, ServerFits, EpochFits
<1>4. FlightFits(flight, epoch + 1, None, jobs)
  BY <1>2, ConsoleNewEpoch DEF ConsoleInv
<1>5. FlightFits(flight, epoch, client, jobs)'
  BY <1>1, <1>4
<1>6. ViewsFit' /\ ReviewFits' /\ SessionFits(client, jobs)'
  BY <1>1, ConsoleClearedKeeps
<1>7. FlagsFit' /\ FlagsWait'
  BY <1>1 DEF FlagsFit, FlagsWait
<1>. QED  BY <1>3, <1>5, <1>6, <1>7 DEF ConsoleInv

(* SERVER takes a request: it is the same request, with an answer.          *)
LEMMA ConsoleReplaces ==
  ASSUME C!SettingOK, NEW f, NEW e, NEW c, NEW js, NEW i \in 1..MaxFlight, NEW r \in C!Request,
         FlightFits(f, e, c, js), f[i] # None, RequestFits(r, e, c, js),
         r.epoch = f[i].epoch, r.call = f[i].call
  PROVE  /\ FlightFits([f EXCEPT ![i] = r], e, c, js)
         /\ \A what : Carries(f, e, what) => Carries([f EXCEPT ![i] = r], e, what)
<1>1. f \in [1..MaxFlight -> C!Request \cup {None}] /\ r # None
  BY DEF FlightFits, C!SettingOK
<1>2. PICK g : g = [f EXCEPT ![i] = r]
  OBVIOUS
<1>3. /\ g \in [1..MaxFlight -> C!Request \cup {None}] /\ g[i] = r
      /\ \A k \in 1..MaxFlight : k # i => g[k] = f[k]
  BY <1>1, <1>2
<1>4. FlightFits(g, e, c, js)
  BY <1>3 DEF FlightFits
<1>5. \A what : Carries(f, e, what) => Carries(g, e, what)
  BY <1>1, <1>3 DEF Carries
<1>. QED  BY <1>2, <1>4, <1>5

(* What SERVER answers to a request that starts nothing.                    *)
LEMMA ConsoleValues ==
  ASSUME C!SettingOK, ConsoleInv, NEW r \in C!Request, r.call # "start",
         RequestFits(r, epoch, client, jobs)
  PROVE  /\ C!Value(r) \subseteq ConsoleHosts \cup C!JobIds \cup (C!JobIds \X C!Statuses)
         /\ r.call \in {"inventory", "refresh", "books"} => C!Value(r) \subseteq ConsoleHosts
<1>1. r.call \in {"hello", "inventory", "refresh", "books", "poll", "result"} /\ r.server \in Servers
  BY ConsoleArgs DEF C!Request, C!Calls
<1>2. truth[r.server] \subseteq ConsoleHosts /\ shelf[r.server] \subseteq ConsoleHosts
  BY <1>1 DEF ConsoleInv, ServerFits
<1>3. jobs \in Seq(C!Job) /\ DOMAIN jobs \subseteq C!JobIds
  BY DEF ConsoleInv, ServerFits, C!SettingOK, C!JobIds
<1>4. CASE r.call = "poll"
  <2>1. \A j \in DOMAIN jobs : jobs[j].status \in C!Statuses
    <3>1. \A j \in DOMAIN jobs : jobs[j] \in C!Job
      BY <1>3
    <3>. QED  BY <3>1 DEF C!Job
  <2>2. C!Value(r) = {<<j, jobs[j].status>> : j \in C!JobsOf(r.server)}
    BY <1>4 DEF C!Value
  <2>3. C!JobsOf(r.server) \subseteq DOMAIN jobs
    BY DEF C!JobsOf
  <2>. QED  BY <1>3, <1>4, <2>1, <2>2, <2>3
<1>5. CASE r.call = "result"
  <2>1. r.arg \in C!JobIds
    BY <1>3, <1>5 DEF RequestFits, ConsoleJobs
  <2>2. C!Value(r) = {r.arg}
    BY <1>5 DEF C!Value
  <2>. QED  BY <1>5, <2>1, <2>2
<1>6. CASE r.call \in {"inventory", "refresh"}
  <2>1. C!Value(r) = truth[r.server]
    BY <1>6 DEF C!Value
  <2>. QED  BY <1>2, <2>1
<1>7. CASE r.call = "hello"
  <2>1. C!Value(r) = {}
    BY <1>7 DEF C!Value
  <2>. QED  BY <1>7, <2>1
<1>8. CASE r.call = "books"
  <2>1. C!Value(r) = shelf[r.server]
    BY <1>8 DEF C!Value
  <2>. QED  BY <1>2, <2>1
<1>. QED  BY <1>1, <1>4, <1>5, <1>6, <1>7, <1>8

LEMMA ConsoleServeKeeps ==
  ASSUME C!SettingOK, ConsoleInv, NEW i \in 1..MaxFlight, C!Serve(i)
  PROVE  ConsoleInv'
<1>. USE DEF C!server, C!books, C!views, C!flags
<1>1. PICK r : r = flight[i]
  OBVIOUS
<1>2. /\ r # None /\ r.state = "asked"
      /\ UNCHANGED <<truth, shelf, epoch, client, inventory, checked, listed, chosen, active, loaded, shown, plan,
                     pollBusy, inventoryBusy, pending, dialog>>
  BY <1>1 DEF C!Serve
<1>3. r \in C!Request /\ RequestFits(r, epoch, client, jobs)
  BY <1>1, <1>2 DEF ConsoleInv, FlightFits
<1>4. PICK answered : answered = [r EXCEPT !.state = "answered", !.value = C!Value(r)]
  OBVIOUS
<1>5. PICK failed : failed = [r EXCEPT !.state = "failed"]
  OBVIOUS
<1>6. flight \in [1..MaxFlight -> C!Request \cup {None}]
  BY DEF ConsoleInv, FlightFits
<1>7. \/ r.call # "start" /\ flight' = [flight EXCEPT ![i] = answered] /\ UNCHANGED <<jobs, events>>
      \/ /\ r.call = "start" /\ Len(jobs) < MaxJobs
         /\ jobs' = Append(jobs, [kind |-> r.arg, server |-> r.server, status |-> "running"])
         /\ \/ flight' = [flight EXCEPT ![i] = answered] /\ UNCHANGED events
            \/ flight' = [flight EXCEPT ![i] = failed] /\ events < MaxEvents /\ events' = events + 1
      \/ /\ flight' = [flight EXCEPT ![i] = failed] /\ UNCHANGED jobs
         /\ events' = events \/ (events < MaxEvents /\ events' = events + 1)
  <2>1. [flight EXCEPT ![i].state = "failed"] = [flight EXCEPT ![i] = failed]
    BY <1>1, <1>5, <1>6
  <2>2. [flight EXCEPT ![i].state = "answered", ![i].value = C!Value(flight[i])]
          = [flight EXCEPT ![i] = answered]
    BY ConsoleArgs, <1>1, <1>2, <1>3, <1>4, <1>6 DEF C!Request
  <2>3. PICK taken, lost :
          /\ taken = [flight EXCEPT ![i].state = "answered", ![i].value = C!Value(flight[i])]
          /\ lost = [flight EXCEPT ![i].state = "failed"]
    OBVIOUS
  <2>4. \/ r.call # "start" /\ flight' = taken /\ UNCHANGED <<jobs, events>>
        \/ /\ r.call = "start" /\ Len(jobs) < MaxJobs
           /\ jobs' = Append(jobs, [kind |-> r.arg, server |-> r.server, status |-> "running"])
           /\ \/ flight' = taken /\ UNCHANGED events
              \/ flight' = lost /\ events < MaxEvents /\ events' = events + 1
        \/ r.call = "start" /\ flight' = lost /\ UNCHANGED <<jobs, events>>
        \/ flight' = lost /\ events < MaxEvents /\ events' = events + 1 /\ UNCHANGED jobs
    BY <1>1, <2>3 DEF C!Serve
  <2>5. taken = [flight EXCEPT ![i] = answered] /\ lost = [flight EXCEPT ![i] = failed]
    BY <2>1, <2>2, <2>3
  <2>. QED  BY <2>4, <2>5
<1>8. events' \in 0..MaxEvents
  BY <1>7 DEF ConsoleInv, ServerFits, C!SettingOK
<1>9. failed \in C!Request /\ failed.epoch = r.epoch /\ failed.call = r.call
  BY ConsoleArgs, <1>3, <1>5 DEF C!Request
<1>10. \A js : RequestFits(r, epoch, client, js) => RequestFits(failed, epoch, client, js)
  BY ConsoleArgs, <1>2, <1>3, <1>5 DEF C!Request, RequestFits
<1>11. /\ answered.epoch = r.epoch /\ answered.call = r.call /\ answered.server = r.server
       /\ answered.arg = r.arg /\ answered.value = C!Value(r)
       /\ C!Value(r) \subseteq ConsoleHosts \cup C!JobIds \cup (C!JobIds \X C!Statuses)
            => answered \in C!Request
  BY ConsoleArgs, <1>3, <1>4 DEF C!Request
<1>12. FlightFits(flight, epoch, client, jobs)
  BY DEF ConsoleInv
<1>13. /\ FlightFits(flight, epoch, client, jobs)' /\ ServerFits' /\ SessionFits(client, jobs)'
       /\ \A what : Carries(flight, epoch, what) => Carries(flight', epoch, what)
  <2>1. CASE r.call # "start" /\ flight' = [flight EXCEPT ![i] = answered] /\ UNCHANGED <<jobs, events>>
    <3>1. answered \in C!Request
      BY <1>3, <1>11, <2>1, ConsoleValues
    <3>2. RequestFits(answered, epoch, client, jobs)
      BY <1>3, <1>11, <2>1, ConsoleValues DEF RequestFits
    <3>3. /\ FlightFits(flight', epoch, client, jobs)
          /\ \A what : Carries(flight, epoch, what) => Carries(flight', epoch, what)
      BY <1>1, <1>2, <1>11, <1>12, <2>1, <3>1, <3>2, ConsoleReplaces
    <3>4. ServerFits' /\ SessionFits(client, jobs)'
      BY <1>2, <2>1 DEF ConsoleInv, ServerFits, SessionFits
    <3>. QED  BY <1>2, <2>1, <3>3, <3>4
  <2>2. CASE flight' = [flight EXCEPT ![i] = failed] /\ UNCHANGED jobs
    <3>1. /\ FlightFits(flight', epoch, client, jobs)
          /\ \A what : Carries(flight, epoch, what) => Carries(flight', epoch, what)
      BY <1>1, <1>2, <1>3, <1>9, <1>10, <1>12, <2>2, ConsoleReplaces
    <3>2. ServerFits' /\ SessionFits(client, jobs)'
      BY <1>2, <1>8, <2>2 DEF ConsoleInv, ServerFits, SessionFits
    <3>. QED  BY <1>2, <2>2, <3>1, <3>2
  <2>3. CASE /\ r.call = "start" /\ Len(jobs) < MaxJobs
             /\ jobs' = Append(jobs, [kind |-> r.arg, server |-> r.server, status |-> "running"])
             /\ flight' \in {[flight EXCEPT ![i] = answered], [flight EXCEPT ![i] = failed]}
    <3>1. jobs \in Seq(C!Job) /\ Len(jobs) \in Nat
      BY DEF ConsoleInv, ServerFits
    <3>2. PICK job_ : job_ = [kind |-> r.arg, server |-> r.server, status |-> "running"]
      OBVIOUS
    <3>3. job_ \in C!Job /\ job_.server = r.server
      BY ConsoleArgs, <1>3, <2>3, <3>2 DEF RequestFits, C!Job, C!Statuses, C!Request
    <3>4. /\ jobs' \in Seq(C!Job) /\ Len(jobs') = Len(jobs) + 1
          /\ jobs'[Len(jobs) + 1] = job_
          /\ \A j \in DOMAIN jobs : j \in DOMAIN jobs' /\ jobs'[j] = jobs[j]
          /\ Len(jobs) + 1 \in DOMAIN jobs'
      BY <2>3, <3>1, <3>2, <3>3
    <3>5. ServerFits'
      BY <1>2, <1>8, <2>3, <3>1, <3>4 DEF ConsoleInv, ServerFits, C!SettingOK
    <3>6. \A s : ConsoleJobs(jobs, s) \subseteq ConsoleJobs(jobs', s)
      BY <3>4 DEF ConsoleJobs
    <3>7. SessionFits(client, jobs)'
      BY <1>2, <3>6 DEF ConsoleInv, SessionFits
    <3>8. FlightFits(flight, epoch, client, jobs')
      BY <1>12, <3>6, ConsoleJobsStay
    <3>9. RequestFits(r, epoch, client, jobs')
      BY <1>1, <1>2, <3>8 DEF FlightFits
    <3>10. C!Value(r) = {Len(jobs) + 1}
      BY <2>3 DEF C!Value
    <3>11. answered \in C!Request
      BY <1>11, <2>3, <3>1, <3>10 DEF C!JobIds, C!SettingOK
    <3>12. Len(jobs) + 1 \in ConsoleJobs(jobs', r.server)
      BY <3>3, <3>4 DEF ConsoleJobs
    <3>13. RequestFits(answered, epoch, client, jobs')
      BY <1>11, <2>3, <3>9, <3>10, <3>12 DEF RequestFits
    <3>14. RequestFits(failed, epoch, client, jobs')
      BY <1>10, <3>9
    <3>15. PICK one \in {answered, failed} : flight' = [flight EXCEPT ![i] = one]
      BY <2>3
    <3>16. /\ one \in C!Request /\ RequestFits(one, epoch, client, jobs')
           /\ one.epoch = flight[i].epoch /\ one.call = flight[i].call /\ flight[i] # None
      BY <1>1, <1>2, <1>9, <1>11, <3>11, <3>13, <3>14, <3>15
    <3>17. /\ FlightFits(flight', epoch, client, jobs')
           /\ \A what : Carries(flight, epoch, what) => Carries(flight', epoch, what)
      BY <3>8, <3>15, <3>16, ConsoleReplaces
    <3>. QED  BY <1>2, <3>5, <3>7, <3>17
  <2>. QED  BY <1>7, <2>1, <2>2, <2>3
<1>14. EpochFits' /\ ViewsFit' /\ FlagsFit' /\ ReviewFits' /\ FlagsWait'
  BY <1>2, <1>13 DEF ConsoleInv, EpochFits, ViewsFit, FlagsFit, ReviewFits, FlagsWait
<1>. QED  BY <1>13, <1>14 DEF ConsoleInv

(* An answer reaches the GUI thread.                                        *)
LEMMA ConsoleMine ==
  ASSUME C!SettingOK, ConsoleInv, NEW i \in 1..MaxFlight, C!Mine(i)
  PROVE  /\ flight[i] # None /\ flight[i].epoch = epoch /\ flight[i] \in C!Request
         /\ RequestFits(flight[i], epoch, client, jobs)
         /\ flight[i].call # "hello" => client = flight[i].server /\ client \in Servers
<1>1. flight[i] # None /\ flight[i].epoch = epoch
  BY DEF C!Mine
<1>2. flight[i] \in C!Request /\ RequestFits(flight[i], epoch, client, jobs)
  BY <1>1 DEF ConsoleInv, FlightFits
<1>. QED  BY ConsoleArgs, <1>1, <1>2 DEF RequestFits, C!Request

LEMMA ConsoleDropKeeps ==
  ASSUME C!SettingOK, ConsoleInv, NEW i \in 1..MaxFlight, C!Drop(i)
  PROVE  ConsoleInv'
<1>. USE DEF C!server, C!books, C!views, C!flags
<1>1. /\ flight' = C!Landed(i) /\ flight[i].epoch # epoch
      /\ UNCHANGED <<truth, shelf, jobs, epoch, client, inventory, checked, listed, chosen, active, loaded, shown, plan,
                     pollBusy, inventoryBusy, pending, events, dialog>>
  BY DEF C!Drop, C!Mine
<1>2. /\ FlightFits(C!Landed(i), epoch, client, jobs)
      /\ \A what : Carries(flight, epoch, what) => Carries(C!Landed(i), epoch, what)
  BY <1>1, ConsoleLands DEF ConsoleInv
<1>3. /\ ServerFits' /\ EpochFits' /\ ViewsFit' /\ FlagsFit' /\ ReviewFits'
      /\ SessionFits(client, jobs)'
  BY <1>1 DEF ConsoleInv, ServerFits, EpochFits, ViewsFit, FlagsFit, ReviewFits, SessionFits
<1>4. FlagsWait' /\ FlightFits(flight, epoch, client, jobs)'
  BY <1>1, <1>2 DEF ConsoleInv, FlagsWait
<1>. QED  BY <1>3, <1>4 DEF ConsoleInv

LEMMA ConsoleFailedKeeps ==
  ASSUME C!SettingOK, ConsoleInv, NEW i \in 1..MaxFlight, C!Failed(i)
  PROVE  ConsoleInv'
<1>. USE DEF C!server, C!books, C!views, C!flags
<1>1. /\ flight' = C!Landed(i) /\ pollBusy' = FALSE
      /\ pending' = (pending /\ flight[i].call # "start")
      /\ inventoryBusy' = (inventoryBusy /\ flight[i].call # "refresh")
      /\ loaded' \in {loaded, None}
      /\ UNCHANGED <<truth, shelf, jobs, epoch, client, inventory, checked, listed, chosen, active, shown, plan,
                     events, dialog>>
  BY DEF C!Failed
<1>2. /\ FlightFits(C!Landed(i), epoch, client, jobs)
      /\ \A what : Carries(flight, epoch, what) /\ flight[i].call # what
                     => Carries(C!Landed(i), epoch, what)
  BY ConsoleLands DEF ConsoleInv
<1>3. ServerFits' /\ EpochFits' /\ ViewsFit' /\ ReviewFits' /\ SessionFits(client, jobs)'
  BY <1>1 DEF ConsoleInv, ServerFits, EpochFits, ViewsFit, ReviewFits, SessionFits
<1>4. FlagsWait' /\ FlightFits(flight, epoch, client, jobs)'
  BY <1>1, <1>2 DEF ConsoleInv, FlagsWait
<1>5. FlagsFit'
  BY <1>1 DEF FlagsFit
<1>. QED  BY <1>3, <1>4, <1>5 DEF ConsoleInv

LEMMA ConsoleInventoryKeeps ==
  ASSUME C!SettingOK, ConsoleInv, NEW i \in 1..MaxFlight, C!SetInventory(i)
  PROVE  ConsoleInv'
<1>. USE DEF C!server, C!books, C!views, C!flags
<1>1. PICK rows, f : rows = flight[i].value /\ f = C!Landed(i)
  OBVIOUS
<1>2. /\ inventory' = rows
      /\ checked' = (IF chosen THEN listed \cap rows ELSE C!Keep(rows))
      /\ inventoryBusy' = (inventoryBusy /\ flight[i].call # "refresh")
      /\ dialog' = (IF dialog = None \/ chosen \/ inventory # {} THEN dialog
                    ELSE [dialog EXCEPT !.replaced = TRUE])
      /\ UNCHANGED <<truth, shelf, jobs, epoch, client, listed, chosen, active, loaded, shown,
                     plan, pollBusy, pending, events>>
  BY <1>1 DEF C!SetInventory
<1>3. /\ C!Mine(i) /\ flight[i].call \in {"inventory", "refresh"}
      /\ flight[i].state = "answered"
  BY DEF C!SetInventory, C!Is
<1>4. rows \subseteq ConsoleHosts /\ client \in Servers
  BY <1>1, <1>3, ConsoleMine DEF RequestFits
<1>5. /\ FlightFits(f, epoch, client, jobs) /\ C!Free(f) # {}
      /\ \A what : Carries(flight, epoch, what) /\ flight[i].call # what => Carries(f, epoch, what)
  BY <1>1, ConsoleLands DEF ConsoleInv
<1>6. /\ FlightFits(flight', epoch, client, jobs)
      /\ \A what : Carries(f, epoch, what) => Carries(flight', epoch, what)
  <2>1. PICK arg \in {None, "book"} :
          flight' = f \/ flight' = C!Work(f, epoch, client, "books", arg)
    BY <1>1 DEF C!SetInventory, C!Selection
  <2>2. PICK g : g = C!Work(f, epoch, client, "books", arg)
    OBVIOUS
  <2>3. epoch \in 0..MaxEpochs
    BY DEF ConsoleInv, EpochFits
  <2>4. /\ FlightFits(g, epoch, client, jobs)
        /\ \A what : Carries(f, epoch, what) => Carries(g, epoch, what)
    BY <1>4, <1>5, <2>2, <2>3, ConsoleSends DEF C!Calls
  <2>. QED  BY <1>5, <2>1, <2>2, <2>4
<1>7. ServerFits' /\ EpochFits' /\ SessionFits(client, jobs)'
  BY <1>2 DEF ConsoleInv, ServerFits, EpochFits, SessionFits
<1>8. FlagsWait' /\ FlightFits(flight, epoch, client, jobs)'
  BY <1>2, <1>3, <1>5, <1>6 DEF ConsoleInv, FlagsWait
<1>9. FlagsFit'
  BY <1>2 DEF ConsoleInv, FlagsFit
<1>10. dialog # None => /\ dialog \in C!Dialog /\ [dialog EXCEPT !.replaced = TRUE] \in C!Dialog
                        /\ [dialog EXCEPT !.replaced = TRUE].replaced = TRUE
  BY DEF ConsoleInv, ViewsFit, C!Dialog
<1>11. ViewsFit'
  BY <1>2, <1>4, <1>10 DEF ConsoleInv, ViewsFit, C!Keep
<1>12. ReviewFits'
  <2>1. CASE dialog = None
    BY <1>2, <2>1 DEF ReviewFits
  <2>2. CASE dialog # None /\ chosen
    BY <1>2, <2>2 DEF ConsoleInv, ReviewFits
  <2>3. CASE dialog # None /\ ~chosen /\ inventory = {}
    BY <1>2, <1>10, <2>3 DEF ReviewFits
  <2>4. CASE dialog # None /\ ~chosen /\ inventory # {}
    BY <1>2, <2>4 DEF ConsoleInv, ReviewFits, C!Keep
  <2>. QED  BY <2>1, <2>2, <2>3, <2>4 DEF ConsoleInv, ViewsFit
<1>. QED  BY <1>7, <1>8, <1>9, <1>11, <1>12 DEF ConsoleInv

LEMMA ConsoleBooksKeeps ==
  ASSUME C!SettingOK, ConsoleInv, NEW i \in 1..MaxFlight, C!SetBooks(i)
  PROVE  ConsoleInv'
<1>. USE DEF C!server, C!books, C!views, C!flags
<1>1. PICK rows, booked : rows = flight[i].value /\ booked = (flight[i].arg = "book")
  OBVIOUS
<1>2. /\ flight' = C!Landed(i) /\ listed' = rows /\ chosen' = (booked /\ rows # {})
      /\ checked' = (IF booked THEN rows \cap inventory ELSE checked)
      /\ dialog' = (IF dialog = None \/ ~chosen' \/ (chosen /\ listed' = listed) THEN dialog
                    ELSE [dialog EXCEPT !.replaced = TRUE])
      /\ UNCHANGED <<truth, shelf, jobs, epoch, client, inventory, active, loaded, shown, plan,
                     pollBusy, inventoryBusy, pending, events>>
  BY <1>1 DEF C!SetBooks
<1>3. C!Mine(i) /\ flight[i].call = "books" /\ flight[i].state = "answered"
  BY DEF C!SetBooks, C!Is
<1>4. rows \subseteq ConsoleHosts /\ booked \in BOOLEAN
  BY <1>1, <1>3, ConsoleMine DEF RequestFits
<1>5. /\ FlightFits(C!Landed(i), epoch, client, jobs)
      /\ \A what : Carries(flight, epoch, what) /\ flight[i].call # what
                     => Carries(C!Landed(i), epoch, what)
  BY ConsoleLands DEF ConsoleInv
<1>6. ServerFits' /\ EpochFits' /\ FlagsFit' /\ SessionFits(client, jobs)'
  BY <1>2 DEF ConsoleInv, ServerFits, EpochFits, FlagsFit, SessionFits
<1>7. FlagsWait' /\ FlightFits(flight, epoch, client, jobs)'
  BY <1>2, <1>3, <1>5 DEF ConsoleInv, FlagsWait
<1>8. dialog # None => /\ dialog \in C!Dialog /\ [dialog EXCEPT !.replaced = TRUE] \in C!Dialog
                       /\ [dialog EXCEPT !.replaced = TRUE].replaced = TRUE
  BY DEF ConsoleInv, ViewsFit, C!Dialog
<1>9. /\ checked' \subseteq inventory' /\ (chosen' => checked' \subseteq listed')
      /\ ~chosen' => checked' \subseteq checked
  BY <1>2, <1>4 DEF ConsoleInv, ViewsFit
<1>10. ViewsFit'
  BY <1>2, <1>4, <1>8, <1>9 DEF ConsoleInv, ViewsFit
<1>11. ReviewFits'
  <2>1. CASE dialog = None
    BY <1>2, <2>1 DEF ReviewFits
  <2>2. CASE dialog # None /\ ~chosen'
    BY <1>2, <1>9, <2>2 DEF ConsoleInv, ViewsFit, ReviewFits
  <2>3. CASE dialog # None /\ chosen' /\ chosen /\ listed' = listed
    BY <1>2, <2>3 DEF ConsoleInv, ReviewFits
  <2>4. CASE dialog # None /\ chosen' /\ ~(chosen /\ listed' = listed)
    BY <1>2, <1>8, <2>4 DEF ReviewFits
  <2>. QED  BY <2>1, <2>2, <2>3, <2>4
<1>. QED  BY <1>6, <1>7, <1>10, <1>11 DEF ConsoleInv

LEMMA ConsoleDisplayKeeps ==
  ASSUME C!SettingOK, ConsoleInv, NEW i \in 1..MaxFlight, C!Display(i)
  PROVE  ConsoleInv'
<1>. USE DEF C!server, C!books, C!views, C!flags
<1>1. PICK j : j = flight[i].arg
  OBVIOUS
<1>2. /\ flight' = C!Landed(i) /\ shown' \in {shown, j} /\ plan' \in {plan, None, j}
      /\ UNCHANGED <<truth, shelf, jobs, epoch, client, inventory, checked, listed, chosen, active, loaded, pollBusy,
                     inventoryBusy, pending, events, dialog>>
  BY <1>1 DEF C!Display
<1>3. C!Mine(i) /\ flight[i].call = "result"
  BY DEF C!Display, C!Is
<1>4. j \in ConsoleJobs(jobs, client)
  BY <1>1, <1>3, ConsoleMine DEF RequestFits
<1>5. /\ FlightFits(C!Landed(i), epoch, client, jobs)
      /\ \A what : Carries(flight, epoch, what) /\ flight[i].call # what
                     => Carries(C!Landed(i), epoch, what)
  BY ConsoleLands DEF ConsoleInv
<1>6. ServerFits' /\ EpochFits' /\ ViewsFit' /\ ReviewFits' /\ FlagsFit'
  BY <1>2 DEF ConsoleInv, ServerFits, EpochFits, ViewsFit, ReviewFits, FlagsFit
<1>7. FlagsWait' /\ FlightFits(flight, epoch, client, jobs)'
  BY <1>2, <1>3, <1>5 DEF ConsoleInv, FlagsWait
<1>8. SessionFits(client, jobs)'
  BY <1>2, <1>4 DEF ConsoleInv, SessionFits
<1>. QED  BY <1>6, <1>7, <1>8 DEF ConsoleInv

LEMMA ConsoleStartedKeeps ==
  ASSUME C!SettingOK, ConsoleInv, NEW i \in 1..MaxFlight, C!Started(i)
  PROVE  ConsoleInv'
<1>. USE DEF C!server, C!books, C!views, C!flags
<1>1. PICK j \in flight[i].value : active' = j
  BY DEF C!Started
<1>2. /\ flight' = C!Polled(C!Landed(i), epoch, client, pollBusy)
      /\ loaded' = None /\ pending' = FALSE /\ pollBusy' = TRUE
      /\ UNCHANGED <<truth, shelf, jobs, epoch, client, inventory, checked, listed, chosen, shown, plan, inventoryBusy,
                     events, dialog>>
  BY DEF C!Started
<1>3. C!Mine(i) /\ flight[i].call = "start" /\ flight[i].state = "answered"
  BY DEF C!Started, C!Is
<1>4. j \in ConsoleJobs(jobs, client) /\ client \in Servers
  BY <1>1, <1>3, ConsoleMine DEF RequestFits
<1>5. PICK f : f = C!Landed(i)
  OBVIOUS
<1>6. /\ FlightFits(f, epoch, client, jobs) /\ C!Free(f) # {}
      /\ \A what : Carries(flight, epoch, what) /\ flight[i].call # what => Carries(f, epoch, what)
  BY <1>5, ConsoleLands DEF ConsoleInv
<1>7. epoch \in 0..MaxEpochs
  BY DEF ConsoleInv, EpochFits
<1>8. PICK g : g = C!Work(f, epoch, client, "poll", None)
  OBVIOUS
<1>9. /\ FlightFits(g, epoch, client, jobs) /\ Carries(g, epoch, "poll")
      /\ \A what : Carries(f, epoch, what) => Carries(g, epoch, what)
  BY <1>4, <1>6, <1>7, <1>8, ConsoleSends DEF C!Calls
<1>10. flight' = IF pollBusy THEN f ELSE g
  BY <1>2, <1>5, <1>8 DEF C!Polled
<1>11. FlightFits(flight, epoch, client, jobs)'
  BY <1>2, <1>6, <1>9, <1>10
<1>12. FlagsWait'
  BY <1>2, <1>3, <1>6, <1>9, <1>10 DEF ConsoleInv, FlagsWait
<1>13. ServerFits' /\ EpochFits' /\ ViewsFit' /\ ReviewFits' /\ FlagsFit'
  BY <1>2 DEF ConsoleInv, ServerFits, EpochFits, ViewsFit, ReviewFits, FlagsFit
<1>14. SessionFits(client, jobs)'
  BY <1>1, <1>2, <1>4 DEF ConsoleInv, SessionFits
<1>. QED  BY <1>11, <1>12, <1>13, <1>14 DEF ConsoleInv

LEMMA ConsoleJobsKeeps ==
  ASSUME C!SettingOK, ConsoleInv, NEW i \in 1..MaxFlight, C!SetJobs(i)
  PROVE  ConsoleInv'
<1>. USE DEF C!server, C!books, C!views, C!flags
<1>1. PICK f : f = C!Landed(i)
  OBVIOUS
<1>2. /\ C!Mine(i) /\ flight[i].call = "poll" /\ pollBusy' = FALSE
      /\ UNCHANGED <<truth, shelf, jobs, epoch, client, inventory, checked, listed, chosen, active, shown, plan,
                     inventoryBusy, pending, events, dialog>>
  BY DEF C!SetJobs, C!Is
<1>3. \/ flight' = f /\ loaded' = loaded
      \/ active # None /\ loaded' = active /\ flight' = C!Work(f, epoch, client, "result", active)
  BY <1>1 DEF C!SetJobs
<1>4. client \in Servers
  BY <1>2, ConsoleMine
<1>5. /\ FlightFits(f, epoch, client, jobs) /\ C!Free(f) # {}
      /\ \A what : Carries(flight, epoch, what) /\ flight[i].call # what => Carries(f, epoch, what)
  BY <1>1, ConsoleLands DEF ConsoleInv
<1>6. epoch \in 0..MaxEpochs
  BY DEF ConsoleInv, EpochFits
<1>7. active # None => active \in ConsoleJobs(jobs, client) /\ active \in C!JobIds
  <2>1. DOMAIN jobs \subseteq C!JobIds
    BY DEF ConsoleInv, ServerFits, C!SettingOK, C!JobIds
  <2>. QED  BY <2>1 DEF ConsoleInv, SessionFits, ConsoleJobs
<1>8. /\ FlightFits(flight', epoch, client, jobs)
      /\ \A what : Carries(f, epoch, what) => Carries(flight', epoch, what)
      /\ loaded' \in C!JobIds \cup {None}
  <2>1. CASE flight' = f /\ loaded' = loaded
    BY <1>5, <2>1 DEF ConsoleInv, EpochFits
  <2>2. CASE /\ active # None /\ loaded' = active
             /\ flight' = C!Work(f, epoch, client, "result", active)
    <3>1. PICK g : g = C!Work(f, epoch, client, "result", active)
      OBVIOUS
    <3>2. /\ FlightFits(g, epoch, client, jobs)
          /\ \A what : Carries(f, epoch, what) => Carries(g, epoch, what)
      BY <1>4, <1>5, <1>6, <1>7, <2>2, <3>1, ConsoleSends DEF C!Calls
    <3>. QED  BY <1>7, <2>2, <3>1, <3>2
  <2>. QED  BY <1>3, <2>1, <2>2
<1>9. FlightFits(flight, epoch, client, jobs)'
  BY <1>2, <1>8
<1>10. FlagsWait'
  BY <1>2, <1>5, <1>8 DEF ConsoleInv, FlagsWait
<1>11. ServerFits' /\ EpochFits' /\ ViewsFit' /\ ReviewFits' /\ FlagsFit'
  BY <1>2, <1>8 DEF ConsoleInv, ServerFits, EpochFits, ViewsFit, ReviewFits, FlagsFit
<1>12. SessionFits(client, jobs)'
  BY <1>2 DEF ConsoleInv, SessionFits
<1>. QED  BY <1>9, <1>10, <1>11, <1>12 DEF ConsoleInv

LEMMA ConsoleRoom ==
  ASSUME NEW S, C!Cardinality(S) >= 2, IsFiniteSet(S), NEW k
  PROVE  S \ {k} # {}
<1>1. C!Cardinality(S) = Cardinality(S)
  BY DEF C!Cardinality, Cardinality, C!IsFiniteSet, IsFiniteSet
<1>2. Cardinality({k}) = 1 /\ IsFiniteSet({k})
  BY FS_Singleton
<1>. SUFFICES ASSUME S \subseteq {k} PROVE FALSE
  OBVIOUS
<1>3. Cardinality(S) <= 1 /\ Cardinality(S) \in Nat
  BY <1>2, FS_Subset, FS_CardinalityType
<1>. QED  BY <1>1, <1>3

LEMMA ConsoleAttachKeeps ==
  ASSUME C!SettingOK, ConsoleInv, NEW i \in 1..MaxFlight, C!Attach(i)
  PROVE  ConsoleInv'
<1>. USE DEF C!server, C!books, C!views, C!flags
<1>1. PICK s, f : s = flight[i].server /\ f = C!Landed(i)
  OBVIOUS
<1>2. PICK g : g = C!Work(f, epoch + 1, s, "inventory", None)
  OBVIOUS
<1>3. PICK h : h = C!Work(g, epoch + 1, s, "poll", None)
  OBVIOUS
<1>4. /\ epoch' = epoch + 1 /\ client' = s /\ flight' = h /\ pollBusy' = TRUE
      /\ pending' = FALSE /\ inventoryBusy' = FALSE /\ loaded' = None /\ C!Cleared
      /\ UNCHANGED <<truth, shelf, jobs, events>> /\ epoch < MaxEpochs
      /\ C!Cardinality(C!Free(f)) >= 2 /\ C!Mine(i)
  BY <1>1, <1>2, <1>3 DEF C!Attach, C!Cleared, C!Is
<1>5. s \in Servers
  BY ConsoleArgs, <1>1, <1>4, ConsoleMine DEF C!Request
<1>6. FlightFits(f, epoch, client, jobs) /\ epoch \in Nat /\ epoch + 1 \in 0..MaxEpochs
  BY <1>1, <1>4, ConsoleLands DEF ConsoleInv, EpochFits, C!SettingOK
<1>7. FlightFits(f, epoch + 1, s, jobs)
  BY <1>6, ConsoleNewEpoch
<1>8. C!Free(f) # {} /\ \A k : C!Free(f) \ {k} # {}
  <2>1. C!Free(f) \subseteq 1..MaxFlight
    BY <1>7 DEF FlightFits, C!Free
  <2>2. IsFiniteSet(C!Free(f))
    <3>1. IsFiniteSet(1..MaxFlight)
      BY FS_Interval DEF C!SettingOK
    <3>. QED  BY <2>1, <3>1, FS_Subset
  <2>3. \A k : C!Free(f) \ {k} # {}
    BY <1>4, <2>2, ConsoleRoom
  <2>. QED  BY <2>3
<1>9. /\ FlightFits(g, epoch + 1, s, jobs)
      /\ \E k \in 1..MaxFlight : C!Free(g) = C!Free(f) \ {k}
  BY <1>2, <1>5, <1>6, <1>7, <1>8, ConsoleSends DEF C!Calls
<1>10. C!Free(g) # {}
  BY <1>8, <1>9
<1>11. FlightFits(h, epoch + 1, s, jobs) /\ Carries(h, epoch + 1, "poll")
  BY <1>3, <1>5, <1>6, <1>9, <1>10, ConsoleSends DEF C!Calls
<1>12. FlightFits(flight, epoch, client, jobs)'
  BY <1>4, <1>11
<1>13. FlagsWait' /\ FlagsFit'
  BY <1>4, <1>11 DEF FlagsWait, FlagsFit
<1>14. ViewsFit' /\ ReviewFits' /\ SessionFits(client, jobs)'
  BY <1>4, ConsoleClearedKeeps
<1>15. ServerFits' /\ EpochFits'
  BY <1>4, <1>5, <1>6 DEF ConsoleInv, ServerFits, EpochFits
<1>. QED  BY <1>12, <1>13, <1>14, <1>15 DEF ConsoleInv

LEMMA ConsoleStep == C!SettingOK /\ ConsoleInv /\ [C!Next]_(C!vars) => ConsoleInv'
<1>. SUFFICES ASSUME C!SettingOK, ConsoleInv, [C!Next]_(C!vars) PROVE ConsoleInv'
  OBVIOUS
<1>1. ASSUME NEW s \in Servers, C!Connect(s) \/ C!Save(s) PROVE ConsoleInv'
  BY <1>1, ConsoleConnectKeeps, ConsoleFinishKeeps
<1>2. CASE C!Disconnect
  BY <1>2, ConsoleDisconnectKeeps
<1>3. CASE C!Refresh \/ C!Poll \/ C!RefreshBooks
  BY <1>3, ConsoleTimerKeeps, ConsoleBooksAsked
<1>4. CASE \/ C!Review \/ C!Invalidate \/ \E h \in ConsoleHosts : C!Toggle(h)
           \/ \E choice \in BOOLEAN : C!Choose(choice)
  BY <1>4, ConsoleLooksKeeps
<1>5. CASE C!Answer
  BY <1>5, ConsoleAnswerKeeps
<1>6. CASE C!QueryPatches \/ C!PlanPatches \/ C!ApplyPatches
  BY <1>6, ConsolePatchKeeps DEF C!QueryPatches, C!PlanPatches, C!ApplyPatches, C!Kinds
<1>7. ASSUME NEW j \in C!JobIds, C!Finish(j) PROVE ConsoleInv'
  BY <1>7, ConsoleFinishKeeps
<1>8. ASSUME NEW i \in 1..MaxFlight, C!Serve(i) \/ C!Callback(i) PROVE ConsoleInv'
  BY <1>8, ConsoleServeKeeps, ConsoleDropKeeps, ConsoleAttachKeeps,
     ConsoleInventoryKeeps, ConsoleBooksKeeps, ConsoleStartedKeeps, ConsoleJobsKeeps,
     ConsoleDisplayKeeps, ConsoleFailedKeeps DEF C!Callback
<1>9. CASE UNCHANGED C!vars
  BY <1>9 DEF C!vars, C!server, C!books, C!views, C!flags, ConsoleInv, ServerFits,
     EpochFits, ViewsFit, FlagsFit, SessionFits, FlagsWait, ReviewFits
<1>. QED  BY <1>1, <1>2, <1>3, <1>4, <1>5, <1>6, <1>7, <1>8, <1>9 DEF C!Next

(* What the invariant says of the properties.                               *)
LEMMA ConsoleSession == ConsoleInv => C!OneSession /\ C!FlagsComeDown
<1>. SUFFICES ASSUME ConsoleInv PROVE C!OneSession /\ C!FlagsComeDown
  OBVIOUS
<1>1. C!OneSession
  BY DEF ConsoleInv, SessionFits, ConsoleJobs, C!OneSession, C!JobsOf
<1>2. DOMAIN flight = 1..MaxFlight
  BY DEF ConsoleInv, FlightFits
<1>3. \A what : Carries(flight, epoch, what) => C!InFlight({what})
  BY <1>2 DEF Carries, C!InFlight, C!Mine
<1>4. C!FlagsComeDown
  BY <1>3 DEF ConsoleInv, FlagsWait, C!FlagsComeDown
<1>. QED  BY <1>1, <1>4

LEMMA ConsoleSubmits == C!SettingOK /\ ConsoleInv /\ [C!Next]_(C!vars) => C!SubmitsReviewed
<1>. SUFFICES ASSUME C!SettingOK, ConsoleInv, [C!Next]_(C!vars), dialog # None,
                     ~dialog.replaced, pending' /\ ~pending
              PROVE  C!CheckedHosts \subseteq dialog.reviewed
  BY DEF C!SubmitsReviewed
<1>. QED  BY DEF ConsoleInv, ViewsFit, ReviewFits, C!CheckedHosts

LEMMA ConsoleRuns ==
  ASSUME [OperationsNext]_allVars, scenario' = "console"
  PROVE  scenario = "console" /\ [C!Next]_(C!vars)
<1>1. CASE OperationsNext
  BY <1>1 DEF OperationsNext
<1>2. CASE UNCHANGED allVars
  BY <1>2 DEF allVars, shared, ofConsole, C!vars, C!server, C!views, C!books, C!flags
<1>. QED  BY <1>1, <1>2

LEMMA ConsoleAlways == OperationsSpec => [](scenario = "console" => ConsoleInv)
<1>1. OperationsInit => (scenario = "console" => ConsoleInv)
  BY SettingsOK, ConsoleInit DEF OperationsInit
<1>2. (scenario = "console" => ConsoleInv) /\ [OperationsNext]_allVars
        => (scenario = "console" => ConsoleInv)'
  BY SettingsOK, ConsoleRuns, ConsoleStep
<1>. QED  BY <1>1, <1>2, PTL DEF OperationsSpec

(* For any number of SERVERs, hosts, requests and sessions: what the        *)
(* console shows and sends is of one session, a busy flag waits for a       *)
(* request that is under way, and what is submitted after a review was      *)
(* reviewed, unless another session, the rows of an empty table or an       *)
(* answer to refresh_books replaced it behind the dialog.                   *)
THEOREM ConsoleCorrect == OperationsSpec => ConsoleHolds
<1>1. (scenario = "console" => ConsoleInv)
        => (scenario = "console" => C!OneSession /\ C!FlagsComeDown)
  BY ConsoleSession
<1>2. [OperationsNext]_allVars /\ (scenario = "console" => ConsoleInv)
        /\ (scenario = "console" => C!OneSession /\ C!FlagsComeDown)'
        => [scenario = "console"
              => C!SubmitsReviewed /\ C!OneSession' /\ C!FlagsComeDown']_allVars
  <2>. SUFFICES ASSUME OperationsNext, scenario = "console", ConsoleInv,
                       scenario' = "console" => C!OneSession' /\ C!FlagsComeDown'
                PROVE  C!SubmitsReviewed /\ C!OneSession' /\ C!FlagsComeDown'
    OBVIOUS
  <2>1. scenario' = "console"
    BY DEF OperationsNext
  <2>2. C!SubmitsReviewed
    BY <2>1, ConsoleRuns, ConsoleSubmits, SettingsOK
  <2>. QED  BY <2>1, <2>2
<1>. QED  BY <1>1, <1>2, ConsoleAlways, PTL DEF OperationsSpec, ConsoleHolds

-------------------------------------------------------------------------------
(* The types of all components, in three parts.                             *)
HostsTyped ==
  /\ scenario = "targets" => T!TypeOK
  /\ scenario = "accounts" => A!TypeOK
  /\ scenario = "patches" => P!TypeOK
  /\ scenario = "commands" => R!TypeOK
  /\ scenario = "hostkeys" => H!TypeOK

ServerTyped ==
  /\ scenario = "transfers" => X!TypeOK
  /\ scenario = "frontend" => F!TypeOK
  /\ scenario = "assets" => I!TypeOK
  /\ scenario = "discovery" => D!TypeOK
  /\ scenario = "backups" => K!TypeOK
  /\ scenario = "logger" => L!TypeOK

ConsoleTyped ==
  /\ scenario = "console" => C!TypeOK
  /\ scenario = "books" => B!TypeOK
  /\ scenario = "panels" => N!TypeOK
  /\ scenario = "pages" => G!TypeOK
  /\ scenario = "media" => M!TypeOK
  /\ scenario = "cron" => Q!TypeOK

LEMMA HostsTypesHold == OperationsSpec => []HostsTyped
<1>1. (scenario = "targets" => T!TargetsInv) => (scenario = "targets" => T!TypeOK)
  BY DEF T!TargetsInv
<1>2. (scenario = "accounts" => AccountsInv) => (scenario = "accounts" => A!TypeOK)
  BY DEF AccountsInv
<1>3. (scenario = "patches" => PatchesInv) => (scenario = "patches" => P!TypeOK)
  BY DEF PatchesInv
<1>4. (scenario = "commands" => RemoteInv) => (scenario = "commands" => R!TypeOK)
  BY DEF RemoteInv
<1>5. (scenario = "hostkeys" => TrustInv) => (scenario = "hostkeys" => H!TypeOK)
  BY DEF TrustInv
<1>6. (scenario = "targets" => T!TypeOK)
       /\ (scenario = "accounts" => A!TypeOK)
       /\ (scenario = "patches" => P!TypeOK)
       /\ (scenario = "commands" => R!TypeOK)
       /\ (scenario = "hostkeys" => H!TypeOK)
      => HostsTyped
  BY DEF HostsTyped
<1>. QED
  BY <1>1, <1>2, <1>3, <1>4, <1>5, <1>6, TargetsAlways, AccountsAlways, PatchesAlways,
     RemoteAlways, HostKeysAlways, PTL

LEMMA ServerTypesHold == OperationsSpec => []ServerTyped
<1>1. (scenario = "transfers" => TransfersInv) => (scenario = "transfers" => X!TypeOK)
  BY DEF TransfersInv
<1>2. (scenario = "frontend" => FrontEndInv) => (scenario = "frontend" => F!TypeOK)
  BY FrontEndTypes
<1>3. (scenario = "assets" => AssetsInv) => (scenario = "assets" => I!TypeOK)
  BY DEF AssetsInv
<1>4. (scenario = "discovery" => DiscoveryInv) => (scenario = "discovery" => D!TypeOK)
  BY DEF DiscoveryInv
<1>5. (scenario = "backups" => BackupsInv) => (scenario = "backups" => K!TypeOK)
  BY DEF BackupsInv
<1>6. (scenario = "logger" => LogInv) => (scenario = "logger" => L!TypeOK)
  BY DEF LogInv
<1>7. (scenario = "transfers" => X!TypeOK)
       /\ (scenario = "frontend" => F!TypeOK)
       /\ (scenario = "assets" => I!TypeOK)
       /\ (scenario = "discovery" => D!TypeOK)
       /\ (scenario = "backups" => K!TypeOK)
       /\ (scenario = "logger" => L!TypeOK)
      => ServerTyped
  BY DEF ServerTyped
<1>. QED
  BY <1>1, <1>2, <1>3, <1>4, <1>5, <1>6, <1>7, TransfersAlways, FrontEndAlways,
     AssetsAlways, DiscoveryAlways, BackupsAlways, LogAlways, PTL

LEMMA ConsoleTypesHold == OperationsSpec => []ConsoleTyped
<1>1. (scenario = "console" => ConsoleInv) => (scenario = "console" => C!TypeOK)
  BY SettingsOK, ConsoleTypes
<1>2. (scenario = "books" => BooksInv) => (scenario = "books" => B!TypeOK)
  BY DEF BooksInv
<1>3. (scenario = "panels" => PanelsInv) => (scenario = "panels" => N!TypeOK)
  BY DEF PanelsInv
<1>4. (scenario = "pages" => PagesInv) => (scenario = "pages" => G!TypeOK)
  BY DEF PagesInv
<1>5. (scenario = "media" => MediaInv) => (scenario = "media" => M!TypeOK)
  BY DEF MediaInv
<1>6. (scenario = "cron" => CronInv) => (scenario = "cron" => Q!TypeOK)
  BY DEF CronInv
<1>7. (scenario = "console" => C!TypeOK)
       /\ (scenario = "books" => B!TypeOK)
       /\ (scenario = "panels" => N!TypeOK)
       /\ (scenario = "pages" => G!TypeOK)
       /\ (scenario = "media" => M!TypeOK)
       /\ (scenario = "cron" => Q!TypeOK)
      => ConsoleTyped
  BY DEF ConsoleTyped
<1>. QED
  BY <1>1, <1>2, <1>3, <1>4, <1>5, <1>6, <1>7, ConsoleAlways, BooksAlways, PanelsAlways,
     PagesAlways, MediaAlways, CronAlways, PTL

(* Every reachable state of every component has the types it declares.      *)
THEOREM TypesCorrect == OperationsSpec => []TypesHold
<1>1. HostsTyped /\ ServerTyped /\ ConsoleTyped => TypesHold
  BY DEF HostsTyped, ServerTyped, ConsoleTyped, TypesHold
<1>. QED  BY <1>1, HostsTypesHold, ServerTypesHold, ConsoleTypesHold, PTL
===============================================================================
