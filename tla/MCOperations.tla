------------------------------ MODULE MCOperations -----------------------------
(* Operations on small instances.                                           *)
EXTENDS Operations, TLC

(* x1 and x2 are two things of one kind wherever a component has two that   *)
(* are interchangeable: targets, requests, hosts, files, operations; y1 and *)
(* y2 are the SERVERs of the console.  Swapping a pair is a symmetry.       *)
CONSTANTS
  x1, x2, y1, y2,
  t3, t4, j1, j2,              \* targets and jobs
  h1, h2, a1, a2, c3,          \* hosts, addresses, a connection
  own, g1, g2, u1, p1, p2, b1  \* groups, a user, passwords, an equipment book

MCJobOf == (x1 :> j1) @@ (x2 :> j1) @@ (t3 :> j2) @@ (t4 :> j2)
MCAddressOf == (x1 :> a1) @@ (x2 :> a1) @@ (t3 :> a1) @@ (t4 :> a2)
MCHostOf == (x1 :> h1) @@ (x2 :> h1) @@ (c3 :> h2)

MCMaxEdits == [accounts |-> 1, patches |-> 2, assets |-> 2, books |-> 1]
MCMaxFaults ==
  [accounts |-> 1, patches |-> 1, transfers |-> 2, assets |-> 1, discovery |-> 1,
   backups |-> 2, media |-> 1, logger |-> 2]
MCMaxChanges == [transfers |-> 1, discovery |-> 1, backups |-> 2, pages |-> 2, media |-> 3]
MCMaxSaves == ("frontend" :> 2) @@ ("books" :> 1)

Symmetry == Permutations({x1, x2}) \cup Permutations({y1, y2})

(* Targets: one job changes hosts, the other is of any kind.                *)
TargetsStart == kind[j1] = "change"

(* Books: one list of one host, whose password was saved for another address. *)
BooksStart ==
  /\ inventory = (h1 :> a1) @@ (h2 :> a2) /\ books = [b \in {b1} |-> {h1}]
  /\ credentials[h1] # None /\ credentials[h1].ip = a2 /\ credentials[h2] = None

(* Console: every SERVER has a book of one host at first, and books are on  *)
(* show only in the first session and before SERVER takes a job.            *)
ConsoleStart == \E h \in ConsoleHosts : shelf = [s \in Servers |-> {h}]
Few == scenario = "console" => listed = {} \/ (jobs = <<>> /\ epoch < MaxEpochs)

MCInit ==
  /\ OperationsInit
  /\ scenario = "targets" => TargetsStart
  /\ scenario = "books" => BooksStart
  /\ scenario = "console" => ConsoleStart

MCSpec == MCInit /\ [][OperationsNext /\ Few']_allVars
===============================================================================
