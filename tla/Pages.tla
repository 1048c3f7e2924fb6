--------------------------------- MODULE Pages ---------------------------------
(* Lists that the console puts together from pages, each cut by SERVER from *)
(* the list as it is then: the hosts of a bulk edit (desktop/ci.py) and the *)
(* snapshots of connections a console that has just connected restores      *)
(* (desktop/main.py, service.py), while results of jobs arrive as well.     *)
EXTENDS Naturals, Sequences, FiniteSets

CONSTANTS
  Hosts,
  MaxChanges,      \* bound: changes of the list, and snapshots
  None

VARIABLES
  listing, stamp,  \* SERVER: hosts that match, in order; time of a host's last snapshot
  changes, moved,  \* moved: ghost, the list changed during the load
  load,            \* list under way: its kind, its offset and its rows
  got,             \* ghost: rows of the last load that ended, the list then, and moved
  cache, seen      \* console: snapshot of a host; ghost: newest that arrived for it

vars == <<listing, stamp, changes, moved, load, got, cache, seen>>

Row == [host : Hosts, stamp : 0..MaxChanges]
Orders == {s \in [1..Cardinality(Hosts) -> Hosts] : \A i, j \in DOMAIN s : s[i] = s[j] => i = j}

TypeOK ==
  /\ listing \in Seq(Hosts) /\ stamp \in [Hosts -> 0..MaxChanges]
  /\ changes \in 0..MaxChanges /\ moved \in BOOLEAN
  /\ load \in {None} \cup [kind : {"edit", "cache"}, offset : Nat, rows : Seq(Row)]
  /\ got \in {None} \cup [rows : Seq(Row), list : Seq(Hosts), moved : BOOLEAN]
  /\ cache \in [Hosts -> 0..MaxChanges] /\ seen \in [Hosts -> 0..MaxChanges]

(* Assumption: what the constants may be.                                   *)
SettingOK ==
  /\ MaxChanges \in Nat /\ IsFiniteSet(Hosts)
  /\ None \notin [kind : {"edit", "cache"}, offset : Nat, rows : Seq(Row)]
  /\ None \notin [rows : Seq(Row), list : Seq(Hosts), moved : BOOLEAN]

Init ==
  /\ listing \in Orders /\ stamp = [h \in Hosts |-> 0] /\ changes = 0 /\ moved = FALSE
  /\ load = None /\ got = None
  /\ cache = stamp /\ seen = stamp

-------------------------------------------------------------------------------
(* SERVER: hosts come and go and change places, new snapshots arrive.       *)
Without(h) ==
  IF \E i \in DOMAIN listing : listing[i] = h
  THEN LET i == CHOOSE i \in DOMAIN listing : listing[i] = h IN
       SubSeq(listing, 1, i - 1) \o SubSeq(listing, i + 1, Len(listing))
  ELSE listing

Change ==
  /\ changes < MaxChanges /\ changes' = changes + 1 /\ moved' = TRUE
  /\ \E h \in Hosts : listing' \in {Without(h), <<h>> \o Without(h), Append(Without(h), h)} \ {listing}
  /\ UNCHANGED <<stamp, load, got, cache, seen>>

(* A job collects a host and the console shows its result; or one of        *)
(* another console does, and this one learns of it with the next load.      *)
DisplayConnections(h) ==
  /\ changes < MaxChanges /\ changes' = changes + 1
  /\ stamp' = [stamp EXCEPT ![h] = changes']
  /\ \/ /\ cache' = [cache EXCEPT ![h] = changes'] /\ seen' = [seen EXCEPT ![h] = changes']
     \/ UNCHANGED <<cache, seen>>
  /\ UNCHANGED <<listing, moved, load, got>>

-------------------------------------------------------------------------------
(* Lists page by page: the hosts of a bulk edit, the snapshots of a console *)
(* that has just connected.  Bound: pages hold one row, as they do for      *)
(* snapshots; those of the CI list hold 200.                                *)
EditFiltered ==
  /\ load = None /\ load' = [kind |-> "edit", offset |-> 0, rows |-> <<>>] /\ moved' = FALSE
  /\ UNCHANGED <<listing, stamp, changes, got, cache, seen>>

RestoreConnectionCache ==
  /\ load = None /\ load' = [kind |-> "cache", offset |-> 0, rows |-> <<>>] /\ moved' = FALSE
  /\ UNCHANGED <<listing, stamp, changes, got, cache, seen>>

CachedConnections(offset) ==
  IF offset >= Len(listing) THEN <<>>
  ELSE <<[host |-> listing[offset + 1], stamp |-> stamp[listing[offset + 1]]]>>

(* The loop ends with the page that reaches the total, or an empty one.     *)
MutantEnds(page, offset) == offset + 1 >= Len(listing) \/ page = <<>>
Ends(page, offset) == offset >= Len(listing) \/ page = <<>>

MutantNewer(old, new) == new
Newer(old, new) == IF new >= old THEN new ELSE old

Newest(s) == CHOOSE x \in s : \A y \in s : x >= y

RememberConnections(rows) ==
  LET of(h) == {rows[i].stamp : i \in {i \in DOMAIN rows : rows[i].host = h}} IN
  /\ cache' = [h \in Hosts |-> IF of(h) = {} THEN cache[h] ELSE Newer(cache[h], Newest(of(h)))]
  /\ seen' = [h \in Hosts |-> Newest(of(h) \cup {seen[h]})]

Page ==
  /\ load # None
  /\ LET page == CachedConnections(load.offset)
         rows == load.rows \o page
         offset == load.offset + Len(page) IN
       IF Ends(page, offset)
       THEN /\ load' = None /\ got' = [rows |-> rows, list |-> listing, moved |-> moved]
            /\ IF load.kind = "cache" THEN RememberConnections(rows) ELSE UNCHANGED <<cache, seen>>
       ELSE load' = [load EXCEPT !.rows = rows, !.offset = offset] /\ UNCHANGED <<got, cache, seen>>
  /\ UNCHANGED <<listing, stamp, changes, moved>>

Next ==
  \/ Change \/ \E h \in Hosts : DisplayConnections(h)
  \/ EditFiltered \/ RestoreConnectionCache \/ Page

Spec == Init /\ [][Next]_vars

-------------------------------------------------------------------------------
(* Properties *)

(* Every host of a list that did not change meanwhile is in what was put    *)
(* together from its pages, once.                                           *)
PagesComplete ==
  got # None /\ ~got.moved =>
    /\ Len(got.rows) = Len(got.list)
    /\ \A i \in DOMAIN got.list : got.rows[i].host = got.list[i]

(* A snapshot is never replaced by an older one, though a load that started *)
(* before a job ended may deliver its rows after it.                        *)
NewestIsKept == \A h \in Hosts : cache[h] = seen[h]

ListsHold == PagesComplete /\ NewestIsKept
===============================================================================
