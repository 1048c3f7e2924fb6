------------------------------ MODULE RemoteCall ------------------------------
(***************************************************************************)
(* What SERVER promises about an operation handed to a Windows CLIENT: how *)
(* often the device starts it and what the answer given to the operator    *)
(* says about it.  AgentTasks, the queue of server/agents.py together with *)
(* the loop of windows-client/Agent.cs, implements this module.            *)
(***************************************************************************)
EXTENDS Naturals

CONSTANT Tasks      \* operations handed to the device

VARIABLES
  runs,             \* how often the device started each operation
  answer,           \* what the operator was told
  forgotten         \* operations the device no longer has a usable record of

vars == <<runs, answer, forgotten>>

Final == {"reported", "failed", "cancelled", "spared", "unknown", "lost"}

Init ==
  /\ runs = [t \in Tasks |-> 0]
  /\ answer = [t \in Tasks |-> "open"]
  /\ forgotten = {}

(* An operation starts once; again only when the device forgot it.  One    *)
(* that the operator was told was spared never starts.                     *)
Start(t) ==
  /\ runs[t] = 0 \/ t \in forgotten
  /\ answer[t] # "spared"
  /\ runs' = [runs EXCEPT ![t] = @ + 1]
  /\ UNCHANGED <<answer, forgotten>>

(* "reported" is only said of an operation that started, "spared" only of *)
(* one that did not.                                                       *)
Answer(t, a) ==
  /\ answer[t] = "open"
  /\ a = "reported" => runs[t] > 0
  /\ a = "spared" => runs[t] = 0
  /\ answer' = [answer EXCEPT ![t] = a]
  /\ UNCHANGED <<runs, forgotten>>

(* The device forgets operations.                                          *)
Forget(S) ==
  /\ forgotten' = forgotten \cup S
  /\ UNCHANGED <<runs, answer>>

(* SERVER stops: every open answer may be lost at once.                    *)
Lose(S) ==
  /\ \A t \in S : answer[t] = "open"
  /\ answer' = [t \in Tasks |-> IF t \in S THEN "lost" ELSE answer[t]]
  /\ UNCHANGED <<runs, forgotten>>

Next ==
  \/ \E t \in Tasks : Start(t) \/ \E a \in Final : Answer(t, a)
  \/ \E S \in SUBSET Tasks : Forget(S) \/ Lose(S)

Spec == Init /\ [][Next]_vars
===============================================================================
