----------------------------- MODULE ServerProofs -----------------------------
(* What is proved of the files of SERVER: transfers, the front end, the CI  *)
(* registry, backups and logging.                                           *)
EXTENDS HostProofs

-------------------------------------------------------------------------------
(* Transfers                                                                *)

(* Names are given out once.                                                *)
Recorded(st) == st.rec # None
NamesUsed ==
  /\ Recorded(mem) => mem.rec.name \in used
  /\ Recorded(disk) => disk.rec.name \in used
  /\ \A r \in late : r.name \in used
  /\ Recorded(mem) /\ Recorded(disk) /\ mem.rec.name = disk.rec.name => mem.rec = disk.rec

(* Signatures are of versions that the source has had.                      *)
SigsPast ==
  /\ sig <= source
  /\ Recorded(mem) => mem.rec.sig <= source
  /\ Recorded(disk) => disk.rec.sig <= source

(* A late chunk is of a version that the source had since the record of its *)
(* file was made: when a run has found the source unchanged, of that one.   *)
Signed == {"look", "record", "prefix", "copy", "save", "verify", "commit"}
LateFits ==
  \A r \in late :
    /\ r.name \in excused
    /\ r.op = "upload" =>
         /\ r.offset < Chunks /\ r.chunk <= source
         /\ Recorded(mem) /\ mem.rec.name = r.name => mem.rec.sig <= r.chunk
         /\ Recorded(disk) /\ disk.rec.name = r.name => disk.rec.sig <= r.chunk
         /\ at \in Signed /\ Recorded(mem) /\ mem.rec.name = r.name => r.chunk = mem.rec.sig

(* Nobody but late requests touches a pending file that was verified.       *)
Verified ==
  at = "commit" /\ pending[mem.rec.name] # None =>
    \A i \in DOMAIN pending[mem.rec.name] : pending[mem.rec.name][i] = mem.rec.sig

(* Memory and disk differ in a record whose save failed, or in one whose    *)
(* pending file is gone.                                                    *)
RecordSaved ==
  /\ at \in {"prefix", "copy", "save", "verify", "commit", "finish"} => Recorded(mem)
  /\ Recorded(mem) => mem.rec = disk.rec \/ mem.rec.name \in excused
  /\ Recorded(disk) => \/ mem.rec = disk.rec
                       \/ disk.rec.name \in excused
                       \/ pending[disk.rec.name] = None
  /\ at = "finish" => pending[mem.rec.name] = None \/ mem.rec.name \in excused

Published ==
  at \in {"finish", "end", "forget"} =>
    \E v \in 0..MaxChanges["transfers"] : target = X!Whole(v)

TransfersInv ==
  /\ X!TypeOK /\ NamesUsed /\ SigsPast /\ LateFits /\ Verified /\ RecordSaved /\ Published
  /\ X!PublishedWhole /\ X!NoOrphans

(* The initial states *)

(* The contents of files                                                    *)
LEMMA TransfersContentIsSeq ==
  ASSUME X!SettingOK, NEW c
  PROVE  c \in X!Content <=> c \in Seq(0..MaxChanges["transfers"]) /\ Len(c) <= Chunks
<1>1. ASSUME c \in X!Content PROVE c \in Seq(0..MaxChanges["transfers"]) /\ Len(c) <= Chunks
  <2>1. PICK n \in 0..Chunks : c \in [1..n -> 0..MaxChanges["transfers"]]
    BY <1>1 DEF X!Content
  <2>2. n \in Nat /\ n <= Chunks
    BY DEF X!SettingOK
  <2>3. c \in Seq(0..MaxChanges["transfers"])
    BY <2>1, <2>2, SeqDef
  <2>4. Len(c) = n
    BY <2>1, <2>2, <2>3, LenProperties
  <2>. QED  BY <2>2, <2>3, <2>4
<1>2. ASSUME c \in Seq(0..MaxChanges["transfers"]), Len(c) <= Chunks PROVE c \in X!Content
  BY <1>2, LenProperties DEF X!Content, X!SettingOK
<1>. QED  BY <1>1, <1>2

LEMMA TransfersContentGrows ==
  ASSUME X!SettingOK, NEW v \in 0..MaxChanges["transfers"]
  PROVE  /\ <<v>> \in X!Content /\ \A i \in DOMAIN <<v>> : <<v>>[i] = v
         /\ \A c \in X!Content : Len(c) < Chunks =>
              /\ Append(c, v) \in X!Content
              /\ \A i \in DOMAIN Append(c, v) :
                   (i \in DOMAIN c /\ Append(c, v)[i] = c[i]) \/ Append(c, v)[i] = v
<1>1. <<v>> \in Seq(0..MaxChanges["transfers"]) /\ Len(<<v>>) = 1
  OBVIOUS
<1>2. <<v>> \in X!Content
  <2>1. 1 <= Chunks
    BY DEF X!SettingOK
  <2>. QED  BY <1>1, <2>1, TransfersContentIsSeq
<1>3. ASSUME NEW c \in X!Content, Len(c) < Chunks
      PROVE  /\ Append(c, v) \in X!Content
             /\ \A i \in DOMAIN Append(c, v) :
                   (i \in DOMAIN c /\ Append(c, v)[i] = c[i]) \/ Append(c, v)[i] = v
  <2>1. c \in Seq(0..MaxChanges["transfers"])
    BY TransfersContentIsSeq
  <2>2. Append(c, v) \in Seq(0..MaxChanges["transfers"]) /\ Len(Append(c, v)) = Len(c) + 1
          /\ Len(c) \in Nat
    BY <2>1, AppendProperties, LenProperties
  <2>3. Append(c, v) \in X!Content
    <3>1. Len(c) + 1 <= Chunks
      BY <1>3, <2>2 DEF X!SettingOK
    <3>. QED  BY <2>2, <3>1, TransfersContentIsSeq
  <2>. QED  BY <2>1, <2>2, <2>3, AppendProperties
<1>. QED  BY <1>2, <1>3

LEMMA TransfersForeignIsNone ==
  ASSUME X!SettingOK
  PROVE  X!Foreign \notin X!Content /\ X!Foreign # None /\ None \notin X!Content
<1>1. ASSUME X!Foreign \in X!Content PROVE FALSE
  <2>1. X!Foreign \in Seq(0..MaxChanges["transfers"])
    BY <1>1, TransfersContentIsSeq
  <2>2. 1 \in DOMAIN X!Foreign /\ X!Foreign[1] = MaxChanges["transfers"] + 1
    BY DEF X!Foreign, X!Whole, X!SettingOK
  <2>3. X!Foreign[1] \in 0..MaxChanges["transfers"]
    BY <2>1, <2>2, LenProperties
  <2>. QED  BY <2>2, <2>3 DEF X!SettingOK
<1>. QED  BY <1>1 DEF X!SettingOK

(* A whole version is a content, and no file of others                      *)
LEMMA TransfersWholeIsContent ==
  ASSUME X!SettingOK, NEW v \in 0..MaxChanges["transfers"]
  PROVE  X!Whole(v) \in X!Content /\ Len(X!Whole(v)) = Chunks
           /\ X!Whole(v) \notin {None, X!Foreign}
<1>1. X!Whole(v) \in [1..Chunks -> 0..MaxChanges["transfers"]] /\ Chunks \in 0..Chunks
  BY DEF X!Whole, X!SettingOK
<1>2. X!Whole(v) \in X!Content
  BY <1>1 DEF X!Content
<1>3. X!Whole(v) \in Seq(0..MaxChanges["transfers"]) /\ DOMAIN X!Whole(v) = 1..Chunks
  BY <1>1, <1>2, TransfersContentIsSeq
<1>4. Len(X!Whole(v)) = Chunks
  BY <1>3, LenProperties DEF X!SettingOK
<1>. QED  BY <1>2, <1>4, TransfersForeignIsNone

LEMMA TransfersWholeIsWhole ==
  ASSUME X!SettingOK, NEW c \in X!Content, NEW v \in 0..MaxChanges["transfers"],
           Len(c) = Chunks,
         \A i \in DOMAIN c : c[i] = v
  PROVE  c = X!Whole(v)
<1>1. c \in Seq(0..MaxChanges["transfers"])
  BY TransfersContentIsSeq
<1>2. c \in [1..Chunks -> 0..MaxChanges["transfers"]]
  BY <1>1, LenProperties
<1>. QED  BY <1>2 DEF X!Whole

(* What a request does to the files                                         *)
LEMMA TransfersPerformTypes ==
  ASSUME X!SettingOK, X!TypeOK, NEW r \in X!Requests, r.op = "upload" => r.offset < Chunks,
           X!Perform(r)
  PROVE  /\ target' \in {None, X!Foreign} \cup X!Content
              /\ (target # None => target' = target)
         /\ pending' \in [Names -> X!Content \cup {None}]
         /\ \A n \in Names \ {r.name} : pending'[n] = pending[n]
         /\ target' # target => /\ r.op = "commit" /\ target' = pending[r.name]
                                /\ target' \in X!Content /\ Len(target') = Chunks
         /\ r.op \in {"commit", "abort"} => pending'[r.name] \in {None, pending[r.name]}
         /\ r.op = "upload" => \A i \in DOMAIN pending'[r.name] :
              pending'[r.name] # None =>
                \/ pending'[r.name][i] = r.chunk
                \/ pending[r.name] # None /\ i \in DOMAIN pending[r.name]
                     /\ pending'[r.name][i] = pending[r.name][i]
<1>. USE DEF X!Perform
<1>1. r.name \in Names /\ r.op \in {"upload", "commit", "abort"}
        /\ pending[r.name] \in X!Content \cup {None}
  BY DEF X!Requests, X!TypeOK
<1>2. CASE ~X!Accepts(r)
  BY <1>1, <1>2 DEF X!TypeOK, X!files
<1>3. CASE X!Accepts(r) /\ r.op = "upload"
  <2>1. r.chunk \in 0..MaxChanges["transfers"] /\ r.offset \in 0..Chunks /\ target' = target
    BY <1>1, <1>3 DEF X!Requests
  <2>2. CASE r.offset = 0
    <3>1. pending' = [pending EXCEPT ![r.name] = <<r.chunk>>]
      BY <1>3, <2>2
    <3>. QED  BY <1>1, <1>3, <2>1, <3>1, TransfersContentGrows DEF X!TypeOK
  <2>3. CASE r.offset # 0
    <3>1. /\ pending' = [pending EXCEPT ![r.name] = Append(pending[r.name], r.chunk)]
          /\ pending[r.name] \in X!Content /\ Len(pending[r.name]) < Chunks
      BY <1>1, <1>3, <2>3 DEF X!Accepts
    <3>2. /\ Append(pending[r.name], r.chunk) \in X!Content
          /\ \A i \in DOMAIN Append(pending[r.name], r.chunk) :
                \/ i \in DOMAIN pending[r.name]
                     /\ Append(pending[r.name], r.chunk)[i] = pending[r.name][i]
                \/ Append(pending[r.name], r.chunk)[i] = r.chunk
      BY <2>1, <3>1, TransfersContentGrows
    <3>3. pending[r.name] # None
      BY <3>1, TransfersForeignIsNone
    <3>4. pending'[r.name] = Append(pending[r.name], r.chunk)
            /\ \A n \in Names \ {r.name} : pending'[n] = pending[n]
      BY <1>1, <3>1 DEF X!TypeOK
    <3>. QED  BY <1>1, <1>3, <2>1, <3>1, <3>2, <3>3, <3>4 DEF X!TypeOK
  <2>. QED  BY <2>2, <2>3
<1>4. CASE X!Accepts(r) /\ r.op = "commit"
  BY <1>1, <1>4 DEF X!Accepts, X!TypeOK
<1>5. CASE X!Accepts(r) /\ r.op = "abort"
  BY <1>1, <1>5 DEF X!TypeOK
<1>. QED  BY <1>1, <1>2, <1>3, <1>4, <1>5

LEMMA TransfersCallFiles ==
  ASSUME X!SettingOK, X!TypeOK, NEW r \in X!Requests, r.op = "upload" => r.offset < Chunks,
           NEW place,
         X!Call(r, place)
  PROVE  /\ target' \in {None, X!Foreign} \cup X!Content
              /\ (target # None => target' = target)
         /\ pending' \in [Names -> X!Content \cup {None}]
         /\ \A n \in Names \ {r.name} : pending'[n] = pending[n]
         /\ target' # target => /\ r.op = "commit" /\ target' = pending[r.name]
                                /\ target' \in X!Content /\ Len(target') = Chunks
         /\ r.op \in {"commit", "abort"} => pending'[r.name] \in {None, pending[r.name]}
         /\ r.op = "upload" => \A i \in DOMAIN pending'[r.name] :
              pending'[r.name] # None =>
                \/ pending'[r.name][i] = r.chunk
                \/ pending[r.name] # None /\ i \in DOMAIN pending[r.name]
                     /\ pending'[r.name][i] = pending[r.name][i]
<1>1. CASE X!Perform(r)
  BY <1>1, TransfersPerformTypes
<1>2. CASE UNCHANGED X!files
  BY <1>2 DEF X!files, X!TypeOK
<1>3. CASE r.op = "commit" /\ X!Accepts(r) /\ target' = pending[r.name] /\ UNCHANGED pending
  <2>1. pending[r.name] \in X!Content /\ Len(pending[r.name]) = Chunks /\ target = None
    BY <1>3 DEF X!Accepts, X!TypeOK, X!Requests
  <2>. QED  BY <1>3, <2>1 DEF X!TypeOK
<1>. QED  BY <1>1, <1>2, <1>3 DEF X!Call

LEMMA TransfersCallRest ==
  ASSUME X!SettingOK, X!TypeOK, NEW r, NEW place, X!Call(r, place)
  PROVE  /\ \/ late' = late /\ excused' = excused
            \/ /\ late' = late \cup {r} /\ excused' = excused \cup {r.name}
               /\ UNCHANGED X!files /\ at' = "idle"
         /\ \/ at' = place /\ UNCHANGED <<told, faults>> /\ X!Accepts(r) /\ X!Perform(r)
            \/ at' = "idle" /\ told' = "incomplete" /\ faults' \in 0..MaxFaults["transfers"]
<1>2. faults' = faults => faults' \in 0..MaxFaults["transfers"]
  BY DEF X!TypeOK
<1>3. CASE /\ X!Perform(r) /\ UNCHANGED <<late, excused, faults>>
           /\ IF X!Accepts(r) THEN at' = place /\ UNCHANGED told ELSE X!Raise
  BY <1>2, <1>3 DEF X!Raise
<1>4. CASE /\ X!Fault /\ X!Raise
           /\ \/ UNCHANGED <<late, excused>>
              \/ late' = late \cup {r} /\ excused' = excused \cup {r.name}
                   /\ UNCHANGED X!files
  <2>1. at' = "idle" /\ told' = "incomplete" /\ faults' \in 0..MaxFaults["transfers"]
    BY <1>4 DEF X!Raise, X!Fault, X!TypeOK, X!SettingOK
  <2>2. \/ late' = late /\ excused' = excused
        \/ /\ late' = late \cup {r} /\ excused' = excused \cup {r.name}
           /\ UNCHANGED X!files /\ at' = "idle"
    BY <1>4, <2>1
  <2>. QED  BY <2>1, <2>2, Zenon
<1>5. X!Call(r, place) => \/ /\ X!Perform(r) /\ UNCHANGED <<late, excused, faults>>
                           /\ IF X!Accepts(r) THEN at' = place
                                  /\ UNCHANGED told ELSE X!Raise
                        \/ /\ X!Fault /\ X!Raise
                           /\ \/ UNCHANGED <<late, excused>>
                              \/ late' = late \cup {r} /\ excused' = excused \cup {r.name}
                                     /\ UNCHANGED X!files
  BY Zenon DEF X!Call
<1>. QED  BY <1>3, <1>4, <1>5, Zenon

LEMMA TransfersInit == X!SettingOK /\ X!Init => TransfersInv
<1>. SUFFICES ASSUME X!SettingOK, X!Init PROVE TransfersInv
  OBVIOUS
<1>. USE DEF X!Init
<1>1. X!TypeOK
  <2>1. mem \in X!State /\ disk \in X!State
    BY DEF X!State
  <2>2. pending \in [Names -> X!Content \cup {None}]
          /\ target \in {None, X!Foreign} \cup X!Content
    OBVIOUS
  <2>3. 0 \in 0..MaxChanges["transfers"] /\ 0 \in 0..MaxFaults["transfers"]
          /\ 0 \in 0..MaxCrashes
    BY DEF X!SettingOK
  <2>. QED  BY <2>1, <2>2, <2>3 DEF X!TypeOK
<1>2. NamesUsed /\ SigsPast /\ LateFits /\ Verified /\ RecordSaved /\ Published
        /\ X!PublishedWhole /\ X!NoOrphans
  BY DEF NamesUsed, Recorded, SigsPast, LateFits, Verified, RecordSaved, Published,
     X!PublishedWhole, X!NoOrphans
<1>. QED  BY <1>1, <1>2 DEF TransfersInv

(* The steps *)

LEMMA TransfersStartKeeps ==
  ASSUME X!SettingOK, TransfersInv, X!Start
  PROVE  TransfersInv'
<1>. USE DEF TransfersInv, X!Start, X!Save, X!Fault, X!Raise, X!setting, X!files
<1>1. X!TypeOK'
  <2>1. mem' \in X!State
    BY DEF X!TypeOK, X!State
  <2>2. disk' \in X!State
    BY <2>1 DEF X!TypeOK
  <2>5. faults' \in 0..MaxFaults["transfers"]
    BY DEF X!TypeOK, X!SettingOK
  <2>3. excused' \subseteq Names
    <3>1. mem'.rec = mem.rec /\ (mem.rec # None => mem.rec.name \in Names)
      BY DEF X!TypeOK, X!State, X!Record
    <3>. QED  BY <3>1 DEF X!TypeOK
  <2>4. told' \in {"none", "success", "paused", "incomplete", "discarded"}
          /\ at' \in {"idle", "sign"}
    BY DEF X!TypeOK
  <2>. QED  BY <2>1, <2>2, <2>3, <2>4, <2>5 DEF X!TypeOK
<1>2. NamesUsed'
  BY DEF X!SettingOK, X!TypeOK, X!State, X!Record, X!Requests, NamesUsed, Recorded,
     RecordSaved
<1>3. SigsPast'  BY DEF X!SettingOK, X!TypeOK, X!State, X!Record, SigsPast, Recorded
<1>4. LateFits'
  BY DEF X!SettingOK, X!TypeOK, X!State, X!Record, X!Requests, NamesUsed, SigsPast,
     LateFits, Recorded, Signed, RecordSaved
<1>5. Verified'
  BY DEF X!SettingOK, X!TypeOK, X!State, X!Record, X!Requests, LateFits, Verified,
     Recorded, RecordSaved, Signed, X!Written, X!Whole
<1>6. RecordSaved'
  BY DEF X!SettingOK, X!TypeOK, X!State, X!Record, NamesUsed, RecordSaved, LateFits,
     Recorded, X!NoOrphans
<1>7. Published'
  BY DEF X!SettingOK, X!TypeOK, X!State, X!Record, Published, X!Foreign, X!Whole, X!Content
<1>8. X!PublishedWhole'
  BY DEF X!SettingOK, X!TypeOK, X!State, X!Record, Published, X!PublishedWhole,
     X!Foreign, X!Whole, X!Content, Verified
<1>9. X!NoOrphans'
  BY DEF X!SettingOK, X!TypeOK, X!State, X!Record, X!NoOrphans, RecordSaved, LateFits,
     Recorded
<1>. QED  BY <1>1, <1>2, <1>3, <1>4, <1>5, <1>6, <1>7, <1>8, <1>9

LEMMA TransfersResumeKeeps ==
  ASSUME X!SettingOK, TransfersInv, X!Resume
  PROVE  TransfersInv'
<1>. USE DEF TransfersInv, X!Resume, X!setting, X!files, X!state, X!marks, X!bounds
<1>1. X!TypeOK'  BY DEF X!SettingOK, X!TypeOK, X!State, X!Record, X!Content, X!Requests,
                    LateFits
<1>2. NamesUsed'
  BY DEF X!SettingOK, X!TypeOK, X!State, X!Record, X!Requests, NamesUsed, Recorded,
     RecordSaved
<1>3. SigsPast'  BY DEF X!SettingOK, X!TypeOK, X!State, X!Record, SigsPast, Recorded
<1>4. LateFits'
  BY DEF X!SettingOK, X!TypeOK, X!State, X!Record, X!Requests, NamesUsed, SigsPast,
     LateFits, Recorded, Signed, RecordSaved
<1>5. Verified'
  BY DEF X!SettingOK, X!TypeOK, X!State, X!Record, X!Requests, LateFits, Verified,
     Recorded, RecordSaved, Signed, X!Written, X!Whole
<1>6. RecordSaved'
  BY DEF X!SettingOK, X!TypeOK, X!State, X!Record, NamesUsed, RecordSaved, LateFits,
     Recorded, X!NoOrphans
<1>7. Published'
  BY DEF X!SettingOK, X!TypeOK, X!State, X!Record, Published, X!Foreign, X!Whole, X!Content
<1>8. X!PublishedWhole'
  BY DEF X!SettingOK, X!TypeOK, X!State, X!Record, Published, X!PublishedWhole,
     X!Foreign, X!Whole, X!Content, Verified
<1>9. X!NoOrphans'
  BY DEF X!SettingOK, X!TypeOK, X!State, X!Record, X!NoOrphans, RecordSaved, LateFits,
     Recorded
<1>. QED  BY <1>1, <1>2, <1>3, <1>4, <1>5, <1>6, <1>7, <1>8, <1>9

LEMMA TransfersStopKeeps ==
  ASSUME X!SettingOK, TransfersInv, X!Stop
  PROVE  TransfersInv'
<1>. USE DEF TransfersInv, X!Stop, X!setting, X!files, X!state, X!marks, X!bounds
<1>1. X!TypeOK'  BY DEF X!SettingOK, X!TypeOK, X!State, X!Record, X!Content, X!Requests,
                    LateFits
<1>2. NamesUsed'
  BY DEF X!SettingOK, X!TypeOK, X!State, X!Record, X!Requests, NamesUsed, Recorded,
     RecordSaved
<1>3. SigsPast'  BY DEF X!SettingOK, X!TypeOK, X!State, X!Record, SigsPast, Recorded
<1>4. LateFits'
  BY DEF X!SettingOK, X!TypeOK, X!State, X!Record, X!Requests, NamesUsed, SigsPast,
     LateFits, Recorded, Signed, RecordSaved
<1>5. Verified'
  BY DEF X!SettingOK, X!TypeOK, X!State, X!Record, X!Requests, LateFits, Verified,
     Recorded, RecordSaved, Signed, X!Written, X!Whole
<1>6. RecordSaved'
  BY DEF X!SettingOK, X!TypeOK, X!State, X!Record, NamesUsed, RecordSaved, LateFits,
     Recorded, X!NoOrphans
<1>7. Published'
  BY DEF X!SettingOK, X!TypeOK, X!State, X!Record, Published, X!Foreign, X!Whole, X!Content
<1>8. X!PublishedWhole'
  BY DEF X!SettingOK, X!TypeOK, X!State, X!Record, Published, X!PublishedWhole,
     X!Foreign, X!Whole, X!Content, Verified
<1>9. X!NoOrphans'
  BY DEF X!SettingOK, X!TypeOK, X!State, X!Record, X!NoOrphans, RecordSaved, LateFits,
     Recorded
<1>. QED  BY <1>1, <1>2, <1>3, <1>4, <1>5, <1>6, <1>7, <1>8, <1>9

LEMMA TransfersSignKeeps ==
  ASSUME X!SettingOK, TransfersInv, X!Sign
  PROVE  TransfersInv'
<1>. USE DEF TransfersInv, X!Sign, X!Raise, X!setting, X!files, X!state, X!marks, X!bounds
<1>1. X!TypeOK'  BY DEF X!SettingOK, X!TypeOK, X!State, X!Record, X!Content, X!Requests,
                    LateFits
<1>2. NamesUsed'
  BY DEF X!SettingOK, X!TypeOK, X!State, X!Record, X!Requests, NamesUsed, Recorded,
     RecordSaved
<1>3. SigsPast'  BY DEF X!SettingOK, X!TypeOK, X!State, X!Record, SigsPast, Recorded
<1>4. LateFits'
  BY DEF X!SettingOK, X!TypeOK, X!State, X!Record, X!Requests, NamesUsed, SigsPast,
     LateFits, Recorded, Signed, RecordSaved
<1>5. Verified'
  BY DEF X!SettingOK, X!TypeOK, X!State, X!Record, X!Requests, LateFits, Verified,
     Recorded, RecordSaved, Signed, X!Written, X!Whole
<1>6. RecordSaved'
  BY DEF X!SettingOK, X!TypeOK, X!State, X!Record, NamesUsed, RecordSaved, LateFits,
     Recorded, X!NoOrphans
<1>7. Published'
  BY DEF X!SettingOK, X!TypeOK, X!State, X!Record, Published, X!Foreign, X!Whole, X!Content
<1>8. X!PublishedWhole'
  BY DEF X!SettingOK, X!TypeOK, X!State, X!Record, Published, X!PublishedWhole,
     X!Foreign, X!Whole, X!Content, Verified
<1>9. X!NoOrphans'
  BY DEF X!SettingOK, X!TypeOK, X!State, X!Record, X!NoOrphans, RecordSaved, LateFits,
     Recorded
<1>. QED  BY <1>1, <1>2, <1>3, <1>4, <1>5, <1>6, <1>7, <1>8, <1>9

LEMMA TransfersLookKeeps ==
  ASSUME X!SettingOK, TransfersInv, X!Look
  PROVE  TransfersInv'
<1>. USE DEF TransfersInv, X!Look, X!Raise, X!setting, X!files, X!state, X!marks, X!bounds
<1>1. X!TypeOK'  BY DEF X!SettingOK, X!TypeOK, X!State, X!Record, X!Content, X!Requests,
                    LateFits
<1>2. NamesUsed'
  BY DEF X!SettingOK, X!TypeOK, X!State, X!Record, X!Requests, NamesUsed, Recorded,
     RecordSaved
<1>3. SigsPast'  BY DEF X!SettingOK, X!TypeOK, X!State, X!Record, SigsPast, Recorded
<1>4. LateFits'
  BY DEF X!SettingOK, X!TypeOK, X!State, X!Record, X!Requests, NamesUsed, SigsPast,
     LateFits, Recorded, Signed, RecordSaved
<1>5. Verified'
  BY DEF X!SettingOK, X!TypeOK, X!State, X!Record, X!Requests, LateFits, Verified,
     Recorded, RecordSaved, Signed, X!Written, X!Whole
<1>6. RecordSaved'
  BY DEF X!SettingOK, X!TypeOK, X!State, X!Record, NamesUsed, RecordSaved, LateFits,
     Recorded, X!NoOrphans
<1>7. Published'
  BY DEF X!SettingOK, X!TypeOK, X!State, X!Record, Published, X!Foreign, X!Whole, X!Content
<1>8. X!PublishedWhole'
  BY DEF X!SettingOK, X!TypeOK, X!State, X!Record, Published, X!PublishedWhole,
     X!Foreign, X!Whole, X!Content, Verified
<1>9. X!NoOrphans'
  BY DEF X!SettingOK, X!TypeOK, X!State, X!Record, X!NoOrphans, RecordSaved, LateFits,
     Recorded
<1>. QED  BY <1>1, <1>2, <1>3, <1>4, <1>5, <1>6, <1>7, <1>8, <1>9

LEMMA TransfersNoteOldKeeps ==
  ASSUME X!SettingOK, TransfersInv, X!Note, mem.rec # None
  PROVE  TransfersInv'
<1>. USE DEF TransfersInv, X!Note, X!setting, X!files, X!state
<1>1. X!TypeOK'  BY DEF X!SettingOK, X!TypeOK, X!State, X!Record, X!Content, X!Requests,
                    LateFits
<1>2. NamesUsed'
  BY DEF X!SettingOK, X!TypeOK, X!State, X!Record, X!Requests, NamesUsed, Recorded,
     RecordSaved
<1>3. SigsPast'  BY DEF X!SettingOK, X!TypeOK, X!State, X!Record, SigsPast, Recorded
<1>4. LateFits'
  BY DEF X!SettingOK, X!TypeOK, X!State, X!Record, X!Requests, NamesUsed, SigsPast,
     LateFits, Recorded, Signed, RecordSaved
<1>5. Verified'
  BY DEF X!SettingOK, X!TypeOK, X!State, X!Record, X!Requests, LateFits, Verified,
     Recorded, RecordSaved, Signed, X!Written, X!Whole
<1>6. RecordSaved'
  BY DEF X!SettingOK, X!TypeOK, X!State, X!Record, NamesUsed, RecordSaved, LateFits,
     Recorded, X!NoOrphans
<1>7. Published'
  BY DEF X!SettingOK, X!TypeOK, X!State, X!Record, Published, X!Foreign, X!Whole, X!Content
<1>8. X!PublishedWhole'
  BY DEF X!SettingOK, X!TypeOK, X!State, X!Record, Published, X!PublishedWhole,
     X!Foreign, X!Whole, X!Content, Verified
<1>9. X!NoOrphans'
  BY DEF X!SettingOK, X!TypeOK, X!State, X!Record, X!NoOrphans, RecordSaved, LateFits,
     Recorded
<1>. QED  BY <1>1, <1>2, <1>3, <1>4, <1>5, <1>6, <1>7, <1>8, <1>9

LEMMA TransfersNoteNewKeeps ==
  ASSUME X!SettingOK, TransfersInv, NEW n \in Names \ used, at = "record", mem.rec = None,
         used' = used \cup {n},
           X!Save([mem EXCEPT !.rec = [name |-> n, sig |-> sig]], "prefix"),
         UNCHANGED <<X!setting, X!files, sig, late, crashes, byLate>>
  PROVE  TransfersInv'
<1>. USE DEF TransfersInv, X!setting, X!files
<1>a. /\ mem' \in X!State /\ mem'.job = mem.job /\ mem'.rec \in X!Record
      /\ mem'.rec.name = n /\ mem'.rec.sig = sig /\ n \in Names /\ n \notin used
  <2>1. [name |-> n, sig |-> sig] \in X!Record
    BY DEF X!Record, X!TypeOK
  <2>. QED  BY <2>1 DEF X!Save, X!State, X!TypeOK
<1>b. \/ disk' = mem' /\ at' = "prefix" /\ UNCHANGED <<told, excused, faults>>
      \/ /\ disk' = disk /\ at' = "idle" /\ told' = "incomplete"
              /\ faults' \in 0..MaxFaults["transfers"]
         /\ excused' = excused \cup {n}
  <2>1. mem'.rec # None
    BY <1>a DEF X!SettingOK
  <2>2. X!Fault => faults' \in 0..MaxFaults["transfers"]
    BY DEF X!Fault, X!TypeOK, X!SettingOK
  <2>. QED  BY <1>a, <2>1, <2>2 DEF X!Save, X!Raise
<1>1. X!TypeOK'
  BY <1>a, <1>b DEF X!TypeOK, X!State
<1>2. NamesUsed'
  BY <1>a, <1>b DEF X!SettingOK, X!TypeOK, X!State, X!Record, X!Requests, NamesUsed,
     Recorded, RecordSaved
<1>3. SigsPast'  BY <1>a, <1>b DEF X!SettingOK, X!TypeOK, X!State, X!Record, SigsPast,
                    Recorded
<1>4. LateFits'
  BY <1>a, <1>b DEF X!SettingOK, X!TypeOK, X!State, X!Record, X!Requests, NamesUsed,
     SigsPast, LateFits, Recorded, Signed, RecordSaved
<1>5. Verified'
  BY <1>a, <1>b DEF X!SettingOK, X!TypeOK, X!State, X!Record, X!Requests, LateFits,
     Verified, Recorded, RecordSaved, Signed, X!Written, X!Whole
<1>6. RecordSaved'
  BY <1>a, <1>b DEF X!SettingOK, X!TypeOK, X!State, X!Record, NamesUsed, RecordSaved,
     LateFits, Recorded, X!NoOrphans
<1>7. Published'
  BY <1>a, <1>b DEF X!SettingOK, X!TypeOK, X!State, X!Record, Published, X!Foreign,
     X!Whole, X!Content
<1>8. X!PublishedWhole'
  BY <1>a, <1>b DEF X!SettingOK, X!TypeOK, X!State, X!Record, Published,
     X!PublishedWhole, X!Foreign, X!Whole, X!Content, Verified
<1>9. X!NoOrphans'
  BY <1>a, <1>b DEF X!SettingOK, X!TypeOK, X!State, X!Record, X!NoOrphans, RecordSaved,
     LateFits, Recorded
<1>. QED  BY <1>1, <1>2, <1>3, <1>4, <1>5, <1>6, <1>7, <1>8, <1>9

LEMMA TransfersPrefixKeeps ==
  ASSUME X!SettingOK, TransfersInv, X!Prefix
  PROVE  TransfersInv'
<1>. USE DEF TransfersInv, X!Prefix, X!Raise, X!setting, X!files, X!state, X!marks, X!bounds
<1>1. X!TypeOK'  BY DEF X!SettingOK, X!TypeOK, X!State, X!Record, X!Content, X!Requests,
                    LateFits
<1>2. NamesUsed'
  BY DEF X!SettingOK, X!TypeOK, X!State, X!Record, X!Requests, NamesUsed, Recorded,
     RecordSaved
<1>3. SigsPast'  BY DEF X!SettingOK, X!TypeOK, X!State, X!Record, SigsPast, Recorded
<1>4. LateFits'
  BY DEF X!SettingOK, X!TypeOK, X!State, X!Record, X!Requests, NamesUsed, SigsPast,
     LateFits, Recorded, Signed, RecordSaved
<1>5. Verified'
  BY DEF X!SettingOK, X!TypeOK, X!State, X!Record, X!Requests, LateFits, Verified,
     Recorded, RecordSaved, Signed, X!Written, X!Whole
<1>6. RecordSaved'
  BY DEF X!SettingOK, X!TypeOK, X!State, X!Record, NamesUsed, RecordSaved, LateFits,
     Recorded, X!NoOrphans
<1>7. Published'
  BY DEF X!SettingOK, X!TypeOK, X!State, X!Record, Published, X!Foreign, X!Whole, X!Content
<1>8. X!PublishedWhole'
  BY DEF X!SettingOK, X!TypeOK, X!State, X!Record, Published, X!PublishedWhole,
     X!Foreign, X!Whole, X!Content, Verified
<1>9. X!NoOrphans'
  BY DEF X!SettingOK, X!TypeOK, X!State, X!Record, X!NoOrphans, RecordSaved, LateFits,
     Recorded
<1>. QED  BY <1>1, <1>2, <1>3, <1>4, <1>5, <1>6, <1>7, <1>8, <1>9

LEMMA TransfersCopyWholeKeeps ==
  ASSUME X!SettingOK, TransfersInv, X!Copy, Len(X!Written) = Chunks
  PROVE  TransfersInv'
<1>. USE DEF TransfersInv, X!Copy, X!setting, X!files, X!state
<1>1. X!TypeOK'  BY DEF X!SettingOK, X!TypeOK, X!State, X!Record, X!Content, X!Requests,
                    LateFits
<1>2. NamesUsed'
  BY DEF X!SettingOK, X!TypeOK, X!State, X!Record, X!Requests, NamesUsed, Recorded,
     RecordSaved
<1>3. SigsPast'  BY DEF X!SettingOK, X!TypeOK, X!State, X!Record, SigsPast, Recorded
<1>4. LateFits'
  BY DEF X!SettingOK, X!TypeOK, X!State, X!Record, X!Requests, NamesUsed, SigsPast,
     LateFits, Recorded, Signed, RecordSaved
<1>5. Verified'
  BY DEF X!SettingOK, X!TypeOK, X!State, X!Record, X!Requests, LateFits, Verified,
     Recorded, RecordSaved, Signed, X!Written, X!Whole
<1>6. RecordSaved'
  BY DEF X!SettingOK, X!TypeOK, X!State, X!Record, NamesUsed, RecordSaved, LateFits,
     Recorded, X!NoOrphans
<1>7. Published'
  BY DEF X!SettingOK, X!TypeOK, X!State, X!Record, Published, X!Foreign, X!Whole, X!Content
<1>8. X!PublishedWhole'
  BY DEF X!SettingOK, X!TypeOK, X!State, X!Record, Published, X!PublishedWhole,
     X!Foreign, X!Whole, X!Content, Verified
<1>9. X!NoOrphans'
  BY DEF X!SettingOK, X!TypeOK, X!State, X!Record, X!NoOrphans, RecordSaved, LateFits,
     Recorded
<1>. QED  BY <1>1, <1>2, <1>3, <1>4, <1>5, <1>6, <1>7, <1>8, <1>9

LEMMA TransfersCopyChunkKeeps ==
  ASSUME X!SettingOK, TransfersInv, X!Copy, Len(X!Written) # Chunks
  PROVE  TransfersInv'
<1>. USE DEF TransfersInv, X!setting, X!state
<1>0. Recorded(mem) /\ mem.rec \in X!Record /\ mem.rec.name \in Names /\ at = "copy"
  BY DEF X!Copy, X!TypeOK, X!State, X!Record, RecordSaved, Recorded
<1>1a. PICK r \in X!Requests : /\ X!Call(r, "save") /\ r.op = "upload"
         /\ r.name = mem.rec.name /\ r.chunk = source /\ r.offset < Chunks
  <2>1. X!Written \in X!Content
    <3>1. <<>> \in Seq(0..MaxChanges["transfers"]) /\ Len(<<>>) = 0
      OBVIOUS
    <3>2. 0 <= Chunks
      BY DEF X!SettingOK
    <3>3. <<>> \in X!Content
      BY <3>1, <3>2, TransfersContentIsSeq
    <3>. QED  BY <1>0, <3>3 DEF X!Written, X!TypeOK
  <2>2. Len(X!Written) \in Nat /\ Len(X!Written) <= Chunks
    BY <2>1, TransfersContentIsSeq, LenProperties
  <2>3. Len(X!Written) \in 0..Chunks /\ Len(X!Written) < Chunks
    BY <2>2 DEF X!SettingOK
  <2>4. [op |-> "upload", name |-> mem.rec.name, offset |-> Len(X!Written),
          chunk |-> source]
          \in X!Requests
    BY <1>0, <2>3 DEF X!Requests, X!TypeOK
  <2>. QED  BY <2>3, <2>4 DEF X!Copy
<1>1b. UNCHANGED <<side, source, mem, disk, sig, used, crashes, byLate>>
  BY DEF X!Copy, X!setting, X!state
<1>a. /\ target' \in {None, X!Foreign} \cup X!Content /\ (target # None => target' = target)
      /\ pending' \in [Names -> X!Content \cup {None}]
      /\ \A n \in Names \ {mem.rec.name} : pending'[n] = pending[n]
  BY <1>1a, TransfersCallFiles
<1>b. \/ at' = "save" /\ UNCHANGED <<told, faults>>
      \/ at' = "idle" /\ told' = "incomplete" /\ faults' \in 0..MaxFaults["transfers"]
  BY <1>1a, TransfersCallRest
<1>c. \/ late' = late /\ excused' = excused
      \/ /\ late' = late \cup {r} /\ excused' = excused \cup {mem.rec.name}
         /\ UNCHANGED X!files /\ at' = "idle" 
  BY <1>1a, TransfersCallRest
<1>d. /\ target' = target
      /\ \A i \in DOMAIN pending'[mem.rec.name] : pending'[mem.rec.name] # None =>
           \/ pending'[mem.rec.name][i] = source
           \/ /\ pending[mem.rec.name] # None /\ i \in DOMAIN pending[mem.rec.name]
              /\ pending'[mem.rec.name][i] = pending[mem.rec.name][i]
  BY <1>1a, TransfersCallFiles
<1>1. X!TypeOK'
  BY <1>0, <1>1a, <1>1b, <1>a, <1>b, <1>c, <1>d DEF X!TypeOK, X!State
<1>2. NamesUsed'
  BY <1>0, <1>1a, <1>1b, <1>a, <1>b, <1>c, <1>d DEF X!SettingOK, X!TypeOK, X!State,
     X!Record, X!Requests, NamesUsed, Recorded, RecordSaved
<1>3. SigsPast'
  BY <1>0, <1>1a, <1>1b, <1>a, <1>b, <1>c, <1>d DEF X!SettingOK, X!TypeOK, X!State,
     X!Record, SigsPast, Recorded
<1>4. LateFits'
  <2>1. CASE late' = late /\ excused' = excused
    BY <1>0, <1>1b, <1>b, <2>1 DEF LateFits, Signed, Recorded
  <2>2. CASE late' = late \cup {r} /\ excused' = excused \cup {mem.rec.name} /\ at' = "idle"
    <3>1. ASSUME NEW q \in late
          PROVE  /\ q.name \in excused'
                 /\ q.op = "upload" =>
                     /\ q.offset < Chunks /\ q.chunk <= source'
                     /\ Recorded(mem') /\ mem'.rec.name = q.name => mem'.rec.sig <= q.chunk
                     /\ Recorded(disk') /\ disk'.rec.name = q.name
                          => disk'.rec.sig <= q.chunk
      BY <1>1b, <2>2 DEF LateFits, Recorded
    <3>2. /\ r.name \in excused' /\ r.offset < Chunks /\ r.chunk <= source'
          /\ Recorded(mem') => mem'.rec.sig <= r.chunk
          /\ Recorded(disk') => disk'.rec.sig <= r.chunk
      BY <1>1a, <1>1b, <2>2 DEF SigsPast, Recorded, X!TypeOK, X!SettingOK
    <3>3. at' \notin Signed
      BY <2>2 DEF Signed
    <3>. QED  BY <2>2, <3>1, <3>2, <3>3 DEF LateFits, Signed, Recorded
  <2>. QED  BY <1>c, <2>1, <2>2
<1>5. Verified'
  BY <1>0, <1>1a, <1>1b, <1>a, <1>b, <1>c, <1>d DEF X!SettingOK, X!TypeOK, X!State,
     X!Record, X!Requests, LateFits, Verified, Recorded, RecordSaved, Signed, X!Written,
     X!Whole
<1>6. RecordSaved'
  BY <1>0, <1>1a, <1>1b, <1>a, <1>b, <1>c, <1>d DEF X!SettingOK, X!TypeOK, X!State,
     X!Record, NamesUsed, RecordSaved, LateFits, Recorded, X!NoOrphans
<1>7. Published'
  BY <1>0, <1>1a, <1>1b, <1>a, <1>b, <1>c, <1>d DEF X!SettingOK, X!TypeOK, X!State,
     X!Record, Published, X!Foreign, X!Whole, X!Content
<1>8. X!PublishedWhole'
  BY <1>0, <1>1a, <1>1b, <1>a, <1>b, <1>c, <1>d DEF X!SettingOK, X!TypeOK, X!State,
     X!Record, Published, X!PublishedWhole, X!Foreign, X!Whole, X!Content, Verified
<1>9. X!NoOrphans'
  BY <1>0, <1>1a, <1>1b, <1>a, <1>b, <1>c, <1>d DEF X!SettingOK, X!TypeOK, X!State,
     X!Record, X!NoOrphans, RecordSaved, LateFits, Recorded
<1>. QED  BY <1>1, <1>2, <1>3, <1>4, <1>5, <1>6, <1>7, <1>8, <1>9

LEMMA TransfersCommitKeeps ==
  ASSUME X!SettingOK, TransfersInv, X!Commit
  PROVE  TransfersInv'
<1>. USE DEF TransfersInv, X!setting, X!state
<1>0. Recorded(mem) /\ mem.rec \in X!Record /\ mem.rec.name \in Names /\ at = "commit"
  BY DEF X!Commit, X!TypeOK, X!State, X!Record, RecordSaved, Recorded
<1>1a. PICK r \in X!Requests : /\ X!Call(r, "finish") /\ r.op = "commit"
         /\ r.name = mem.rec.name
  <2>1. [op |-> "commit", name |-> mem.rec.name] \in X!Requests
    BY <1>0 DEF X!Requests
  <2>. QED  BY <2>1 DEF X!Commit
<1>1b. UNCHANGED <<side, source, mem, disk, sig, used, crashes, byLate>>
  BY DEF X!Commit, X!setting, X!state
<1>a. /\ target' \in {None, X!Foreign} \cup X!Content /\ (target # None => target' = target)
      /\ pending' \in [Names -> X!Content \cup {None}]
      /\ \A n \in Names \ {mem.rec.name} : pending'[n] = pending[n]
  BY <1>1a, TransfersCallFiles
<1>b. \/ at' = "finish" /\ UNCHANGED <<told, faults>>
      \/ at' = "idle" /\ told' = "incomplete" /\ faults' \in 0..MaxFaults["transfers"]
  BY <1>1a, TransfersCallRest
<1>c. \/ late' = late /\ excused' = excused
      \/ /\ late' = late \cup {r} /\ excused' = excused \cup {mem.rec.name}
         /\ UNCHANGED X!files /\ at' = "idle" 
  BY <1>1a, TransfersCallRest
<1>d. /\ pending'[mem.rec.name] \in {None, pending[mem.rec.name]}
      /\ target' # target => /\ target' = pending[mem.rec.name] /\ target' \in X!Content
                               /\ Len(target') = Chunks
  BY <1>1a, TransfersCallFiles
<1>e. at' = "finish" => /\ target = None /\ pending[mem.rec.name] \in X!Content
                        /\ target' = pending[mem.rec.name] /\ pending'[mem.rec.name] = None
  <2>1. at' = "finish" => X!Accepts(r) /\ X!Perform(r)
    BY <1>1a, TransfersCallRest
  <2>. QED  BY <1>0, <1>1a, <2>1 DEF X!Accepts, X!Perform, X!TypeOK
<1>f. ASSUME target' # target
      PROVE  \E v \in 0..MaxChanges["transfers"] : target' = X!Whole(v)
  <2>1. /\ target' \in X!Content /\ Len(target') = Chunks
        /\ target' = pending[mem.rec.name]
    BY <1>d, <1>f
  <2>2. mem.rec.sig \in 0..MaxChanges["transfers"]
    BY <1>0 DEF X!Record
  <2>3. pending[mem.rec.name] # None
    BY <2>1, TransfersForeignIsNone
  <2>4. \A i \in DOMAIN target' : target'[i] = mem.rec.sig
    BY <1>0, <2>1, <2>3 DEF Verified
  <2>. QED  BY <2>1, <2>2, <2>4, TransfersWholeIsWhole
<1>1. X!TypeOK'
  BY <1>0, <1>1a, <1>1b, <1>a, <1>b, <1>c, <1>d, <1>e DEF X!TypeOK, X!State
<1>2. NamesUsed'
  BY <1>0, <1>1a, <1>1b, <1>a, <1>b, <1>c, <1>d, <1>e DEF X!SettingOK, X!TypeOK,
     X!State, X!Record, X!Requests, NamesUsed, Recorded, RecordSaved
<1>3. SigsPast'
  BY <1>0, <1>1a, <1>1b, <1>a, <1>b, <1>c, <1>d, <1>e DEF X!SettingOK, X!TypeOK,
     X!State, X!Record, SigsPast, Recorded
<1>4. LateFits'
  BY <1>0, <1>1a, <1>1b, <1>a, <1>b, <1>c, <1>d, <1>e DEF X!SettingOK, X!TypeOK,
     X!State, X!Record, X!Requests, NamesUsed, SigsPast, LateFits, Recorded, Signed,
     RecordSaved
<1>5. Verified'
  BY <1>0, <1>1a, <1>1b, <1>a, <1>b, <1>c, <1>d, <1>e DEF X!SettingOK, X!TypeOK,
     X!State, X!Record, X!Requests, LateFits, Verified, Recorded, RecordSaved, Signed,
     X!Written, X!Whole
<1>6. RecordSaved'
  BY <1>0, <1>1a, <1>1b, <1>a, <1>b, <1>c, <1>d, <1>e DEF X!SettingOK, X!TypeOK,
     X!State, X!Record, NamesUsed, RecordSaved, LateFits, Recorded, X!NoOrphans
<1>7. Published'
  <2>1. at' = "finish" => target' # target
    BY <1>e, TransfersForeignIsNone
  <2>. QED  BY <1>0, <1>b, <1>f, <2>1 DEF Published
<1>8. X!PublishedWhole'
  <2>1. UNCHANGED byLate /\ (target # None => target' = target)
    BY <1>1b, <1>a
  <2>2. ASSUME told' = "success"
        PROVE  \E v \in 0..MaxChanges["transfers"] : target' = X!Whole(v)
    <3>1. PICK v \in 0..MaxChanges["transfers"] : target = X!Whole(v)
      BY <1>b, <2>2 DEF X!PublishedWhole
    <3>. QED  BY <2>1, <3>1, TransfersWholeIsContent
  <2>3. target' # target => Len(target') = Chunks
    BY <1>d
  <2>. QED  BY <1>f, <2>1, <2>2, <2>3 DEF X!PublishedWhole
<1>9. X!NoOrphans'
  <2>1. excused \subseteq excused' /\ disk' = disk
    BY <1>1b, <1>c
  <2>2. \A n \in Names : pending'[n] # None => pending[n] # None
    BY <1>a, <1>d
  <2>. QED  BY <2>1, <2>2 DEF X!NoOrphans
<1>. QED  BY <1>1, <1>2, <1>3, <1>4, <1>5, <1>6, <1>7, <1>8, <1>9

LEMMA TransfersSaveOffsetKeeps ==
  ASSUME X!SettingOK, TransfersInv, X!SaveOffset
  PROVE  TransfersInv'
<1>. USE DEF TransfersInv, X!SaveOffset, X!Save, X!Fault, X!Raise, X!setting, X!files
<1>1. X!TypeOK'
  <2>1. /\ mem' = mem /\ disk' \in {mem, disk} /\ at' \in {"copy", "idle"}
        /\ told' \in {told, "incomplete"} /\ faults' \in 0..MaxFaults["transfers"]
    BY DEF X!SettingOK, X!TypeOK
  <2>2. excused' \subseteq Names
    BY DEF X!TypeOK, X!State, X!Record
  <2>. QED  BY <2>1, <2>2 DEF X!TypeOK
<1>2. NamesUsed'
  BY DEF X!SettingOK, X!TypeOK, X!State, X!Record, X!Requests, NamesUsed, Recorded,
     RecordSaved
<1>3. SigsPast'  BY DEF X!SettingOK, X!TypeOK, X!State, X!Record, SigsPast, Recorded
<1>4. LateFits'
  BY DEF X!SettingOK, X!TypeOK, X!State, X!Record, X!Requests, NamesUsed, SigsPast,
     LateFits, Recorded, Signed, RecordSaved
<1>5. Verified'
  BY DEF X!SettingOK, X!TypeOK, X!State, X!Record, X!Requests, LateFits, Verified,
     Recorded, RecordSaved, Signed, X!Written, X!Whole
<1>6. RecordSaved'
  BY DEF X!SettingOK, X!TypeOK, X!State, X!Record, NamesUsed, RecordSaved, LateFits,
     Recorded, X!NoOrphans
<1>7. Published'
  BY DEF X!SettingOK, X!TypeOK, X!State, X!Record, Published, X!Foreign, X!Whole, X!Content
<1>8. X!PublishedWhole'
  BY DEF X!SettingOK, X!TypeOK, X!State, X!Record, Published, X!PublishedWhole,
     X!Foreign, X!Whole, X!Content, Verified
<1>9. X!NoOrphans'
  BY DEF X!SettingOK, X!TypeOK, X!State, X!Record, X!NoOrphans, RecordSaved, LateFits,
     Recorded
<1>. QED  BY <1>1, <1>2, <1>3, <1>4, <1>5, <1>6, <1>7, <1>8, <1>9

LEMMA TransfersVerifyKeeps ==
  ASSUME X!SettingOK, TransfersInv, X!Verify
  PROVE  TransfersInv'
<1>. USE DEF TransfersInv, X!Verify, X!Raise, X!setting, X!files, X!state, X!marks, X!bounds
<1>1. X!TypeOK'  BY DEF X!SettingOK, X!TypeOK, X!State, X!Record, X!Content, X!Requests,
                    LateFits
<1>2. NamesUsed'
  BY DEF X!SettingOK, X!TypeOK, X!State, X!Record, X!Requests, NamesUsed, Recorded,
     RecordSaved
<1>3. SigsPast'  BY DEF X!SettingOK, X!TypeOK, X!State, X!Record, SigsPast, Recorded
<1>4. LateFits'
  BY DEF X!SettingOK, X!TypeOK, X!State, X!Record, X!Requests, NamesUsed, SigsPast,
     LateFits, Recorded, Signed, RecordSaved
<1>5. Verified'
  BY DEF X!SettingOK, X!TypeOK, X!State, X!Record, X!Requests, LateFits, Verified,
     Recorded, RecordSaved, Signed, X!Written, X!Whole
<1>6. RecordSaved'
  BY DEF X!SettingOK, X!TypeOK, X!State, X!Record, NamesUsed, RecordSaved, LateFits,
     Recorded, X!NoOrphans
<1>7. Published'
  BY DEF X!SettingOK, X!TypeOK, X!State, X!Record, Published, X!Foreign, X!Whole, X!Content
<1>8. X!PublishedWhole'
  BY DEF X!SettingOK, X!TypeOK, X!State, X!Record, Published, X!PublishedWhole,
     X!Foreign, X!Whole, X!Content, Verified
<1>9. X!NoOrphans'
  BY DEF X!SettingOK, X!TypeOK, X!State, X!Record, X!NoOrphans, RecordSaved, LateFits,
     Recorded
<1>. QED  BY <1>1, <1>2, <1>3, <1>4, <1>5, <1>6, <1>7, <1>8, <1>9

LEMMA TransfersFinishKeeps ==
  ASSUME X!SettingOK, TransfersInv, X!Finish
  PROVE  TransfersInv'
<1>. USE DEF TransfersInv, X!Finish, X!Save, X!Fault, X!Raise, X!setting, X!files
<1>1. X!TypeOK'  BY DEF X!SettingOK, X!TypeOK, X!State, X!Record, X!Content, X!Requests,
                    LateFits
<1>2. NamesUsed'
  BY DEF X!SettingOK, X!TypeOK, X!State, X!Record, X!Requests, NamesUsed, Recorded,
     RecordSaved
<1>3. SigsPast'  BY DEF X!SettingOK, X!TypeOK, X!State, X!Record, SigsPast, Recorded
<1>4. LateFits'
  BY DEF X!SettingOK, X!TypeOK, X!State, X!Record, X!Requests, NamesUsed, SigsPast,
     LateFits, Recorded, Signed, RecordSaved
<1>5. Verified'
  BY DEF X!SettingOK, X!TypeOK, X!State, X!Record, X!Requests, LateFits, Verified,
     Recorded, RecordSaved, Signed, X!Written, X!Whole
<1>6. RecordSaved'
  BY DEF X!SettingOK, X!TypeOK, X!State, X!Record, NamesUsed, RecordSaved, LateFits,
     Recorded, X!NoOrphans
<1>7. Published'
  BY DEF X!SettingOK, X!TypeOK, X!State, X!Record, Published, X!Foreign, X!Whole, X!Content
<1>8. X!PublishedWhole'
  BY DEF X!SettingOK, X!TypeOK, X!State, X!Record, Published, X!PublishedWhole,
     X!Foreign, X!Whole, X!Content, Verified
<1>9. X!NoOrphans'
  BY DEF X!SettingOK, X!TypeOK, X!State, X!Record, X!NoOrphans, RecordSaved, LateFits,
     Recorded
<1>. QED  BY <1>1, <1>2, <1>3, <1>4, <1>5, <1>6, <1>7, <1>8, <1>9

LEMMA TransfersDiscardKeeps ==
  ASSUME X!SettingOK, TransfersInv, X!Discard
  PROVE  TransfersInv'
<1>. USE DEF TransfersInv, X!Discard, X!setting, X!files, X!state, X!marks, X!bounds
<1>1. X!TypeOK'  BY DEF X!SettingOK, X!TypeOK, X!State, X!Record, X!Content, X!Requests,
                    LateFits
<1>2. NamesUsed'
  BY DEF X!SettingOK, X!TypeOK, X!State, X!Record, X!Requests, NamesUsed, Recorded,
     RecordSaved
<1>3. SigsPast'  BY DEF X!SettingOK, X!TypeOK, X!State, X!Record, SigsPast, Recorded
<1>4. LateFits'
  BY DEF X!SettingOK, X!TypeOK, X!State, X!Record, X!Requests, NamesUsed, SigsPast,
     LateFits, Recorded, Signed, RecordSaved
<1>5. Verified'
  BY DEF X!SettingOK, X!TypeOK, X!State, X!Record, X!Requests, LateFits, Verified,
     Recorded, RecordSaved, Signed, X!Written, X!Whole
<1>6. RecordSaved'
  BY DEF X!SettingOK, X!TypeOK, X!State, X!Record, NamesUsed, RecordSaved, LateFits,
     Recorded, X!NoOrphans
<1>7. Published'
  BY DEF X!SettingOK, X!TypeOK, X!State, X!Record, Published, X!Foreign, X!Whole, X!Content
<1>8. X!PublishedWhole'
  BY DEF X!SettingOK, X!TypeOK, X!State, X!Record, Published, X!PublishedWhole,
     X!Foreign, X!Whole, X!Content, Verified
<1>9. X!NoOrphans'
  BY DEF X!SettingOK, X!TypeOK, X!State, X!Record, X!NoOrphans, RecordSaved, LateFits,
     Recorded
<1>. QED  BY <1>1, <1>2, <1>3, <1>4, <1>5, <1>6, <1>7, <1>8, <1>9

LEMMA TransfersCrashKeeps ==
  ASSUME X!SettingOK, TransfersInv, X!Crash
  PROVE  TransfersInv'
<1>. USE DEF TransfersInv, X!Crash, X!setting, X!files, X!marks
<1>1. X!TypeOK'  BY DEF X!SettingOK, X!TypeOK, X!State, X!Record, X!Content, X!Requests,
                    LateFits
<1>2. NamesUsed'
  BY DEF X!SettingOK, X!TypeOK, X!State, X!Record, X!Requests, NamesUsed, Recorded,
     RecordSaved
<1>3. SigsPast'  BY DEF X!SettingOK, X!TypeOK, X!State, X!Record, SigsPast, Recorded
<1>4. LateFits'
  BY DEF X!SettingOK, X!TypeOK, X!State, X!Record, X!Requests, NamesUsed, SigsPast,
     LateFits, Recorded, Signed, RecordSaved
<1>5. Verified'
  BY DEF X!SettingOK, X!TypeOK, X!State, X!Record, X!Requests, LateFits, Verified,
     Recorded, RecordSaved, Signed, X!Written, X!Whole
<1>6. RecordSaved'
  BY DEF X!SettingOK, X!TypeOK, X!State, X!Record, NamesUsed, RecordSaved, LateFits,
     Recorded, X!NoOrphans
<1>7. Published'
  BY DEF X!SettingOK, X!TypeOK, X!State, X!Record, Published, X!Foreign, X!Whole, X!Content
<1>8. X!PublishedWhole'
  BY DEF X!SettingOK, X!TypeOK, X!State, X!Record, Published, X!PublishedWhole,
     X!Foreign, X!Whole, X!Content, Verified
<1>9. X!NoOrphans'
  BY DEF X!SettingOK, X!TypeOK, X!State, X!Record, X!NoOrphans, RecordSaved, LateFits,
     Recorded
<1>. QED  BY <1>1, <1>2, <1>3, <1>4, <1>5, <1>6, <1>7, <1>8, <1>9

LEMMA TransfersChangeKeeps ==
  ASSUME X!SettingOK, TransfersInv, X!Change
  PROVE  TransfersInv'
<1>. USE DEF TransfersInv, X!Change, X!files, X!state, X!marks, X!bounds
<1>1. X!TypeOK'  BY DEF X!SettingOK, X!TypeOK, X!State, X!Record, X!Content, X!Requests,
                    LateFits
<1>2. NamesUsed'
  BY DEF X!SettingOK, X!TypeOK, X!State, X!Record, X!Requests, NamesUsed, Recorded,
     RecordSaved
<1>3. SigsPast'  BY DEF X!SettingOK, X!TypeOK, X!State, X!Record, SigsPast, Recorded
<1>4. LateFits'
  BY DEF X!SettingOK, X!TypeOK, X!State, X!Record, X!Requests, NamesUsed, SigsPast,
     LateFits, Recorded, Signed, RecordSaved
<1>5. Verified'
  BY DEF X!SettingOK, X!TypeOK, X!State, X!Record, X!Requests, LateFits, Verified,
     Recorded, RecordSaved, Signed, X!Written, X!Whole
<1>6. RecordSaved'
  BY DEF X!SettingOK, X!TypeOK, X!State, X!Record, NamesUsed, RecordSaved, LateFits,
     Recorded, X!NoOrphans
<1>7. Published'
  BY DEF X!SettingOK, X!TypeOK, X!State, X!Record, Published, X!Foreign, X!Whole, X!Content
<1>8. X!PublishedWhole'
  BY DEF X!SettingOK, X!TypeOK, X!State, X!Record, Published, X!PublishedWhole,
     X!Foreign, X!Whole, X!Content, Verified
<1>9. X!NoOrphans'
  BY DEF X!SettingOK, X!TypeOK, X!State, X!Record, X!NoOrphans, RecordSaved, LateFits,
     Recorded
<1>. QED  BY <1>1, <1>2, <1>3, <1>4, <1>5, <1>6, <1>7, <1>8, <1>9

LEMMA TransfersOtherKeeps ==
  ASSUME X!SettingOK, TransfersInv, X!Other
  PROVE  TransfersInv'
<1>. USE DEF TransfersInv, X!Other, X!setting, X!state, X!marks, X!bounds
<1>1. X!TypeOK'  BY DEF X!SettingOK, X!TypeOK, X!State, X!Record, X!Content, X!Requests,
                    LateFits
<1>2. NamesUsed'
  BY DEF X!SettingOK, X!TypeOK, X!State, X!Record, X!Requests, NamesUsed, Recorded,
     RecordSaved
<1>3. SigsPast'  BY DEF X!SettingOK, X!TypeOK, X!State, X!Record, SigsPast, Recorded
<1>4. LateFits'
  BY DEF X!SettingOK, X!TypeOK, X!State, X!Record, X!Requests, NamesUsed, SigsPast,
     LateFits, Recorded, Signed, RecordSaved
<1>5. Verified'
  BY DEF X!SettingOK, X!TypeOK, X!State, X!Record, X!Requests, LateFits, Verified,
     Recorded, RecordSaved, Signed, X!Written, X!Whole
<1>6. RecordSaved'
  BY DEF X!SettingOK, X!TypeOK, X!State, X!Record, NamesUsed, RecordSaved, LateFits,
     Recorded, X!NoOrphans
<1>a. \A v \in 0..MaxChanges["transfers"] : target # X!Whole(v)
  BY TransfersWholeIsContent
<1>7. Published'
  BY <1>a DEF Published
<1>8. X!PublishedWhole'
  BY <1>a DEF X!PublishedWhole
<1>9. X!NoOrphans'
  BY DEF X!SettingOK, X!TypeOK, X!State, X!Record, X!NoOrphans, RecordSaved, LateFits,
     Recorded
<1>. QED  BY <1>1, <1>2, <1>3, <1>4, <1>5, <1>6, <1>7, <1>8, <1>9

LEMMA TransfersEndKeeps ==
  ASSUME X!SettingOK, TransfersInv, X!End
  PROVE  TransfersInv'
<1>. USE DEF TransfersInv, X!End, X!setting, X!files, X!marks
<1>a. mem' \in X!State /\ mem'.rec = mem.rec
  BY DEF X!TypeOK, X!State
<1>b. faults' \in 0..MaxFaults["transfers"]
  BY DEF X!Fault, X!TypeOK, X!SettingOK
<1>1. X!TypeOK'
  BY <1>a, <1>b DEF X!TypeOK, X!State
<1>2. NamesUsed'
  BY <1>a, <1>b DEF X!SettingOK, X!TypeOK, X!State, X!Record, X!Requests, NamesUsed,
     Recorded, RecordSaved
<1>3. SigsPast'  BY <1>a, <1>b DEF X!SettingOK, X!TypeOK, X!State, X!Record, SigsPast,
                    Recorded
<1>4. LateFits'
  BY <1>a, <1>b DEF X!SettingOK, X!TypeOK, X!State, X!Record, X!Requests, NamesUsed,
     SigsPast, LateFits, Recorded, Signed, RecordSaved
<1>5. Verified'
  BY <1>a, <1>b DEF X!SettingOK, X!TypeOK, X!State, X!Record, X!Requests, LateFits,
     Verified, Recorded, RecordSaved, Signed, X!Written, X!Whole
<1>6. RecordSaved'
  BY <1>a, <1>b DEF X!SettingOK, X!TypeOK, X!State, X!Record, NamesUsed, RecordSaved,
     LateFits, Recorded, X!NoOrphans
<1>7. Published'
  BY <1>a, <1>b DEF X!SettingOK, X!TypeOK, X!State, X!Record, Published, X!Foreign,
     X!Whole, X!Content
<1>8. X!PublishedWhole'
  BY <1>a, <1>b DEF X!SettingOK, X!TypeOK, X!State, X!Record, Published,
     X!PublishedWhole, X!Foreign, X!Whole, X!Content, Verified
<1>9. X!NoOrphans'
  BY <1>a, <1>b DEF X!SettingOK, X!TypeOK, X!State, X!Record, X!NoOrphans, RecordSaved,
     LateFits, Recorded
<1>. QED  BY <1>1, <1>2, <1>3, <1>4, <1>5, <1>6, <1>7, <1>8, <1>9

LEMMA TransfersRemoveFileKeeps ==
  ASSUME X!SettingOK, TransfersInv, X!Remove, mem.rec # None, pending[mem.rec.name] # None
  PROVE  TransfersInv'
<1>. USE DEF TransfersInv, X!setting, X!state
<1>0. mem.rec \in X!Record /\ mem.rec.name \in Names /\ at \in {"remove", "forget"}
  BY DEF X!Remove, X!TypeOK, X!State, X!Record
<1>1a. PICK r \in X!Requests,
         p \in {"remove", "forget"} : /\ X!Call(r, p) /\ r.op = "abort"
         /\ r.name = mem.rec.name /\ p = at
  <2>1. [op |-> "abort", name |-> mem.rec.name] \in X!Requests
    BY <1>0 DEF X!Requests
  <2>2. X!Call([op |-> "abort", name |-> mem.rec.name], at) /\ at \in {"remove", "forget"}
    BY DEF X!Remove
  <2>3. \E p \in {"remove", "forget"} :
          p = at /\ X!Call([op |-> "abort", name |-> mem.rec.name], p)
    BY <2>2 DEF X!Call
  <2>. QED  BY <2>1, <2>3
<1>1b. UNCHANGED <<side, source, mem, disk, sig, used, crashes, byLate>>
  BY DEF X!Remove, X!setting, X!state
<1>a. /\ target' \in {None, X!Foreign} \cup X!Content /\ (target # None => target' = target)
      /\ pending' \in [Names -> X!Content \cup {None}]
      /\ \A n \in Names \ {mem.rec.name} : pending'[n] = pending[n]
  BY <1>1a, TransfersCallFiles
<1>b. \/ at' = p /\ UNCHANGED <<told, faults>>
      \/ at' = "idle" /\ told' = "incomplete" /\ faults' \in 0..MaxFaults["transfers"]
  BY <1>1a, TransfersCallRest
<1>c. \/ late' = late /\ excused' = excused
      \/ /\ late' = late \cup {r} /\ excused' = excused \cup {mem.rec.name}
         /\ UNCHANGED X!files /\ at' = "idle" 
  BY <1>1a, TransfersCallRest
<1>d. /\ pending'[mem.rec.name] \in {None, pending[mem.rec.name]}
      /\ target' = target
  BY <1>1a, TransfersCallFiles
<1>1. X!TypeOK'
  BY <1>0, <1>1a, <1>1b, <1>a, <1>b, <1>c, <1>d DEF X!TypeOK, X!State
<1>2. NamesUsed'
  BY <1>0, <1>1a, <1>1b, <1>a, <1>b, <1>c, <1>d DEF X!SettingOK, X!TypeOK, X!State,
     X!Record, X!Requests, NamesUsed, Recorded, RecordSaved
<1>3. SigsPast'
  BY <1>0, <1>1a, <1>1b, <1>a, <1>b, <1>c, <1>d DEF X!SettingOK, X!TypeOK, X!State,
     X!Record, SigsPast, Recorded
<1>4. LateFits'
  BY <1>0, <1>1a, <1>1b, <1>a, <1>b, <1>c, <1>d DEF X!SettingOK, X!TypeOK, X!State,
     X!Record, X!Requests, NamesUsed, SigsPast, LateFits, Recorded, Signed, RecordSaved
<1>5. Verified'
  BY <1>0, <1>1a, <1>1b, <1>a, <1>b, <1>c, <1>d DEF X!SettingOK, X!TypeOK, X!State,
     X!Record, X!Requests, LateFits, Verified, Recorded, RecordSaved, Signed, X!Written,
     X!Whole
<1>6. RecordSaved'
  BY <1>0, <1>1a, <1>1b, <1>a, <1>b, <1>c, <1>d DEF X!SettingOK, X!TypeOK, X!State,
     X!Record, NamesUsed, RecordSaved, LateFits, Recorded, X!NoOrphans
<1>7. Published'
  BY <1>0, <1>1a, <1>1b, <1>a, <1>b, <1>c, <1>d DEF X!SettingOK, X!TypeOK, X!State,
     X!Record, Published, X!Foreign, X!Whole, X!Content
<1>8. X!PublishedWhole'
  BY <1>0, <1>1a, <1>1b, <1>a, <1>b, <1>c, <1>d DEF X!SettingOK, X!TypeOK, X!State,
     X!Record, Published, X!PublishedWhole, X!Foreign, X!Whole, X!Content, Verified
<1>9. X!NoOrphans'
  BY <1>0, <1>1a, <1>1b, <1>a, <1>b, <1>c, <1>d DEF X!SettingOK, X!TypeOK, X!State,
     X!Record, X!NoOrphans, RecordSaved, LateFits, Recorded
<1>. QED  BY <1>1, <1>2, <1>3, <1>4, <1>5, <1>6, <1>7, <1>8, <1>9

LEMMA TransfersRemoveRecordKeeps ==
  ASSUME X!SettingOK, TransfersInv, X!Remove,
           ~(mem.rec # None /\ pending[mem.rec.name] # None)
  PROVE  TransfersInv'
<1>. USE DEF TransfersInv, X!setting, X!files
<1>a. /\ at \in {"remove", "forget"} /\ mem' \in X!State /\ mem'.rec = None
      /\ UNCHANGED <<side, source, sig, used, crashes, byLate, late, target, pending,
           excused>>
  <2>1. mem' = [job |-> at = "forget", rec |-> None] /\ at \in {"remove", "forget"}
    BY DEF X!Remove
  <2>2. UNCHANGED <<side, source, sig, used, crashes, byLate, late, target, pending,
          excused>>
    BY DEF X!Remove
  <2>3. (at = "forget") \in BOOLEAN
    OBVIOUS
  <2>. QED  BY <2>1, <2>2, <2>3 DEF X!State
<1>b. \/ /\ disk' = mem' /\ faults' = faults
         /\ at' = (IF at = "forget" THEN "end" ELSE "idle")
         /\ told' = (IF at = "forget" THEN told ELSE "discarded")
      \/ faults' \in 0..MaxFaults["transfers"] /\ at' = "idle" /\ told' = "incomplete"
           /\ disk' = disk
  BY DEF X!Remove, X!Fault, X!Raise, X!TypeOK, X!SettingOK
<1>1. X!TypeOK'
  BY <1>a, <1>b DEF X!TypeOK, X!State
<1>2. NamesUsed'
  BY <1>a, <1>b DEF X!SettingOK, X!TypeOK, X!State, X!Record, X!Requests, NamesUsed,
     Recorded, RecordSaved
<1>3. SigsPast'  BY <1>a, <1>b DEF X!SettingOK, X!TypeOK, X!State, X!Record, SigsPast,
                    Recorded
<1>4. LateFits'
  BY <1>a, <1>b DEF X!SettingOK, X!TypeOK, X!State, X!Record, X!Requests, NamesUsed,
     SigsPast, LateFits, Recorded, Signed, RecordSaved
<1>5. Verified'
  BY <1>a, <1>b DEF X!SettingOK, X!TypeOK, X!State, X!Record, X!Requests, LateFits,
     Verified, Recorded, RecordSaved, Signed, X!Written, X!Whole
<1>6. RecordSaved'
  BY <1>a, <1>b DEF X!SettingOK, X!TypeOK, X!State, X!Record, NamesUsed, RecordSaved,
     LateFits, Recorded, X!NoOrphans
<1>7. Published'
  BY <1>a, <1>b DEF X!SettingOK, X!TypeOK, X!State, X!Record, Published, X!Foreign,
     X!Whole, X!Content
<1>8. X!PublishedWhole'
  BY <1>a, <1>b DEF X!SettingOK, X!TypeOK, X!State, X!Record, Published,
     X!PublishedWhole, X!Foreign, X!Whole, X!Content, Verified
<1>9. X!NoOrphans'
  BY <1>a, <1>b DEF X!SettingOK, X!TypeOK, X!State, X!Record, X!NoOrphans, RecordSaved,
     LateFits, Recorded
<1>. QED  BY <1>1, <1>2, <1>3, <1>4, <1>5, <1>6, <1>7, <1>8, <1>9

LEMMA TransfersLateKeeps ==
  ASSUME X!SettingOK, TransfersInv, NEW r \in late, late' = late \ {r}, X!Perform(r),
         byLate' = (byLate \/ target' # target),
         UNCHANGED <<X!setting, X!state, at, sig, told, used, excused, X!bounds>>
  PROVE  TransfersInv'
<1>. USE DEF TransfersInv, X!setting, X!state, X!bounds
<1>0. /\ r \in X!Requests /\ (r.op = "upload" => r.offset < Chunks) /\ r.name \in Names
      /\ r.name \in excused /\ byLate' \in BOOLEAN
  BY DEF X!TypeOK, LateFits, X!Requests
<1>a. /\ target' \in {None, X!Foreign} \cup X!Content /\ (target # None => target' = target)
      /\ pending' \in [Names -> X!Content \cup {None}]
      /\ \A n \in Names \ {r.name} : pending'[n] = pending[n]
      /\ target' # target => target' \in X!Content /\ Len(target') = Chunks
  BY <1>0, TransfersPerformTypes
<1>b. /\ r.op \in {"commit", "abort"} => pending'[r.name] \in {None, pending[r.name]}
      /\ r.op \in {"upload", "commit", "abort"}
      /\ r.op = "upload" => \A i \in DOMAIN pending'[r.name] :
              pending'[r.name] # None =>
                \/ pending'[r.name][i] = r.chunk
                \/ /\ pending[r.name] # None /\ i \in DOMAIN pending[r.name]
                   /\ pending'[r.name][i] = pending[r.name][i]
  BY <1>0, TransfersPerformTypes DEF X!Requests
<1>1. X!TypeOK'
  BY <1>0, <1>a, <1>b DEF X!TypeOK, X!State
<1>2. NamesUsed'
  BY <1>0, <1>a, <1>b DEF X!SettingOK, X!TypeOK, X!State, X!Record, X!Requests,
     NamesUsed, Recorded, RecordSaved
<1>3. SigsPast'
  BY <1>0, <1>a, <1>b DEF X!SettingOK, X!TypeOK, X!State, X!Record, SigsPast, Recorded
<1>4. LateFits'
  BY <1>0, <1>a, <1>b DEF X!SettingOK, X!TypeOK, X!State, X!Record, X!Requests,
     NamesUsed, SigsPast, LateFits, Recorded, Signed, RecordSaved
<1>5. Verified'
  BY <1>0, <1>a, <1>b DEF X!SettingOK, X!TypeOK, X!State, X!Record, X!Requests,
     LateFits, Verified, Recorded, RecordSaved, Signed, X!Written, X!Whole
<1>6. RecordSaved'
  BY <1>0, <1>a, <1>b DEF X!SettingOK, X!TypeOK, X!State, X!Record, NamesUsed,
     RecordSaved, LateFits, Recorded, X!NoOrphans
<1>f. ASSUME NEW v \in 0..MaxChanges["transfers"], target = X!Whole(v)
      PROVE  target' = X!Whole(v)
  BY <1>a, <1>f, TransfersWholeIsContent
<1>7. Published'
  BY <1>f DEF Published
<1>8. X!PublishedWhole'
  <2>1. told' = told /\ byLate' = (byLate \/ target' # target)
    OBVIOUS
  <2>2. target' # target => Len(target') = Chunks
    BY <1>a
  <2>. QED  BY <1>f, <2>1, <2>2 DEF X!PublishedWhole
<1>9. X!NoOrphans'
  BY <1>0, <1>a, <1>b DEF X!SettingOK, X!TypeOK, X!State, X!Record, X!NoOrphans,
     RecordSaved, LateFits, Recorded
<1>. QED  BY <1>1, <1>2, <1>3, <1>4, <1>5, <1>6, <1>7, <1>8, <1>9

LEMMA TransfersStep == X!SettingOK /\ TransfersInv /\ [X!Next]_(X!vars) => TransfersInv'
<1>. SUFFICES ASSUME X!SettingOK, TransfersInv, [X!Next]_(X!vars) PROVE TransfersInv'
  OBVIOUS
<1>1. CASE X!Start
  BY <1>1, TransfersStartKeeps
<1>2. CASE X!Resume
  BY <1>2, TransfersResumeKeeps
<1>3. CASE X!Stop
  BY <1>3, TransfersStopKeeps
<1>4. CASE X!Sign
  BY <1>4, TransfersSignKeeps
<1>5. CASE X!Look
  BY <1>5, TransfersLookKeeps
<1>6. CASE X!Note
  BY <1>6, TransfersNoteOldKeeps, TransfersNoteNewKeeps DEF X!Note
<1>7. CASE X!Prefix
  BY <1>7, TransfersPrefixKeeps
<1>8. CASE X!Copy
  BY <1>8, TransfersCopyWholeKeeps, TransfersCopyChunkKeeps
<1>9. CASE X!SaveOffset
  BY <1>9, TransfersSaveOffsetKeeps
<1>10. CASE X!Verify
  BY <1>10, TransfersVerifyKeeps
<1>11. CASE X!Commit
  BY <1>11, TransfersCommitKeeps
<1>12. CASE X!Finish
  BY <1>12, TransfersFinishKeeps
<1>13. CASE X!End
  BY <1>13, TransfersEndKeeps
<1>14. CASE X!Remove
  BY <1>14, TransfersRemoveFileKeeps, TransfersRemoveRecordKeeps
<1>15. CASE X!Late
  BY <1>15, TransfersLateKeeps DEF X!Late
<1>16. CASE X!Discard
  BY <1>16, TransfersDiscardKeeps
<1>17. CASE X!Crash
  BY <1>17, TransfersCrashKeeps
<1>18. CASE X!Change
  BY <1>18, TransfersChangeKeeps
<1>19. CASE X!Other
  BY <1>19, TransfersOtherKeeps
<1>20. CASE UNCHANGED X!vars
  <2>. USE <1>20 DEF X!vars, TransfersInv
  <2>1. X!TypeOK'
    BY DEF X!TypeOK
  <2>2. NamesUsed' /\ SigsPast' /\ LateFits'
    BY DEF NamesUsed, SigsPast, LateFits, Recorded, Signed
  <2>3. Verified' /\ RecordSaved' /\ Published'
    BY DEF Verified, RecordSaved, Published, Recorded
  <2>4. X!PublishedWhole' /\ X!NoOrphans'
    BY DEF X!PublishedWhole, X!NoOrphans
  <2>. QED  BY <2>1, <2>2, <2>3, <2>4
<1>. QED  BY <1>1, <1>2, <1>3, <1>4, <1>5, <1>6, <1>7, <1>8, <1>9, <1>10, <1>11, <1>12,
             <1>13, <1>14, <1>15, <1>16, <1>17, <1>18, <1>19, <1>20 DEF X!Next

(* A target that is there stays as it is                                    *)
LEMMA TransfersTargetKept == X!SettingOK /\ TransfersInv /\ [X!Next]_(X!vars)
  => X!TargetStays
<1>. SUFFICES ASSUME X!SettingOK, TransfersInv, X!Next, target # None PROVE target' = target
  BY DEF X!TargetStays, X!vars
<1>1. CASE X!Note
  BY <1>1 DEF X!Note, X!files
<1>2. CASE X!Copy
  <2>1. CASE Len(X!Written) # Chunks
    <3>1. X!Call([op |-> "upload", name |-> mem.rec.name, offset |-> Len(X!Written),
            chunk |-> source], "save")
      BY <1>2, <2>1 DEF X!Copy
    <3>. QED  BY <3>1 DEF X!Call, X!Perform, X!files
  <2>. QED  BY <1>2, <2>1 DEF X!Copy, X!files
<1>3. CASE X!Commit
  BY <1>3 DEF X!Commit, X!Call, X!Perform, X!Accepts, X!files
<1>4. CASE X!Remove
  BY <1>4 DEF X!Remove, X!Call, X!Perform, X!Accepts, X!files
<1>5. CASE X!Late
  <2>1. PICK r \in late : X!Perform(r)
    BY <1>5 DEF X!Late
  <2>2. r.op \in {"upload", "commit", "abort"}
    BY DEF TransfersInv, X!TypeOK, X!Requests
  <2>. QED  BY <2>1, <2>2 DEF X!Perform, X!Accepts, X!files
<1>6. CASE X!Start \/ X!Resume \/ X!Stop \/ X!Sign \/ X!Look \/ X!Prefix \/ X!SaveOffset \/ X!Verify
  BY <1>6 DEF X!Start, X!Resume, X!Stop, X!Sign, X!Look, X!Prefix, X!SaveOffset,
     X!Verify, X!files
<1>7. CASE X!Finish \/ X!End \/ X!Discard \/ X!Crash \/ X!Change \/ X!Other
  BY <1>7 DEF X!Finish, X!End, X!Discard, X!Crash, X!Change, X!Other, X!files
<1>. QED  BY <1>1, <1>2, <1>3, <1>4, <1>5, <1>6, <1>7 DEF X!Next

LEMMA TransfersRuns ==
  ASSUME [OperationsNext]_allVars, scenario' = "transfers"
  PROVE  scenario = "transfers" /\ [X!Next]_(X!vars)
<1>1. CASE OperationsNext
  BY <1>1 DEF OperationsNext
<1>2. CASE UNCHANGED allVars
  BY <1>2 DEF allVars, shared, ofTransfers, X!vars
<1>. QED  BY <1>1, <1>2

LEMMA TransfersAlways == OperationsSpec => [](scenario = "transfers" => TransfersInv)
<1>1. OperationsInit => (scenario = "transfers" => TransfersInv)
  BY SettingsOK, TransfersInit DEF OperationsInit
<1>2. (scenario = "transfers" => TransfersInv) /\ [OperationsNext]_allVars
        => (scenario = "transfers" => TransfersInv)'
  BY SettingsOK, TransfersRuns, TransfersStep
<1>. QED  BY <1>1, <1>2, PTL DEF OperationsSpec

(* For any chunks, names and bounds, at every step: success means that the  *)
(* target is one version of its source as a whole; what is published stays, *)
(* has all of its chunks and is such a version unless a commit that came    *)
(* late published it; and a pending file has a record to resume it from,    *)
(* unless the record could not be saved or a request for it came late.      *)
THEOREM TransfersCorrect == OperationsSpec => TransfersHold
<1>1. [OperationsNext]_allVars /\ (scenario = "transfers" => TransfersInv)
        => [scenario = "transfers"
              => X!TargetStays /\ X!PublishedWhole' /\ X!NoOrphans']_allVars
  <2>. SUFFICES ASSUME OperationsNext, scenario = "transfers", TransfersInv
                PROVE  X!TargetStays /\ X!PublishedWhole' /\ X!NoOrphans'
    OBVIOUS
  <2>1. [X!Next]_(X!vars)
    BY TransfersRuns DEF OperationsNext
  <2>2. X!TargetStays
    BY <2>1, SettingsOK, TransfersTargetKept
  <2>3. TransfersInv'
    BY <2>1, SettingsOK, TransfersStep
  <2>. QED  BY <2>2, <2>3 DEF TransfersInv
<1>. QED  BY <1>1, TransfersAlways, PTL DEF OperationsSpec, TransfersHold

-------------------------------------------------------------------------------
(* Front end                                                                *)

(* What the component counts is what the library's theorems are about.      *)
LEMMA FrontEndFinite == \A S : F!IsFiniteSet(S) <=> IsFiniteSet(S)
BY DEF F!IsFiniteSet, IsFiniteSet

LEMMA FrontEndCount == \A S : F!Cardinality(S) = Cardinality(S)
BY DEF F!Cardinality, Cardinality, F!IsFiniteSet, IsFiniteSet

Places == {"new", "open", "known", "allowed", "answering", "ran", "refused", "closed"}

TypeInv ==
  /\ at \in [FrontRequests -> Places]
  /\ sent \in [FrontRequests -> F!Asked \cup {None}] /\ \A r \in F!Live : sent[r] \in F!Asked
  /\ slots \in 0..RequestSlots /\ saves \in Nat
  /\ accounts \in [Users -> F!Account \cup {None}]

(* The password of a request is that of its account now.                    *)
HoldsNow(r) ==
  /\ sent[r].user \in Users /\ accounts[sent[r].user] # None
  /\ accounts[sent[r].user].password = sent[r].password

(* A remembered login was valid for the account it was remembered with.     *)
FreshIsValid == \A s \in fresh : s[2] # None /\ s[2].password = s[3]

(* Who is known has an account, and accounts are never removed.             *)
KnownHasAccount ==
  \A r \in known : r \in FrontRequests /\ at[r] # "new" /\ sent[r].user \in Users
    /\ accounts[sent[r].user] # None

(* The ghosts miss nothing of a request being served.                       *)
NoneMissed ==
  \A r \in F!Live :
    /\ HoldsNow(r) => r \in known
    /\ r \in known /\ F!Allows(accounts[sent[r].user].role, sent[r].method)
         => r \in entitled

(* After its login a request is known.                                      *)
LoginIsKnown ==
  \A r \in FrontRequests : at[r] = "known" /\ sent[r].user \in Users => r \in known

FrontInv ==
  /\ TypeInv /\ FreshIsValid /\ KnownHasAccount /\ NoneMissed
  /\ LoginIsKnown /\ F!RightsAreCurrent /\ F!SlotsReturn

(* Slots *)

LEMMA FrontEndLiveFinite ==
  ASSUME F!SettingOK PROVE IsFiniteSet(F!Live) /\ Cardinality(F!Live) \in Nat
BY FrontEndFinite, FS_Subset, FS_CardinalityType DEF F!SettingOK, F!Live

LEMMA FrontEndSetting ==
  /\ IsFiniteSet(FrontRequests) /\ RequestSlots \in Nat /\ MaxSaves["frontend"] \in Nat
  /\ None \notin F!Account /\ None \notin Passwords /\ Passwords # {}
BY SettingsOK, FrontEndFinite DEF F!SettingOK

LEMMA FrontEndSlotTaken ==
  ASSUME F!SettingOK, TypeInv, F!SlotsReturn, NEW r \in FrontRequests, at[r] = "new",
         slots > 0, slots' = slots - 1, F!To(r, "open")
  PROVE  F!SlotsReturn' /\ slots' \in 0..RequestSlots
<1>1. r \notin F!Live /\ F!Live' = F!Live \cup {r}
  BY DEF F!Live, F!To, TypeInv, Places
<1>2. Cardinality(F!Live') = Cardinality(F!Live) + 1
  BY <1>1, FrontEndLiveFinite, FS_AddElement
<1>3. slots + Cardinality(F!Live) = RequestSlots
  BY FrontEndCount DEF F!SlotsReturn
<1>4. slots' + Cardinality(F!Live') = RequestSlots /\ slots' \in 0..RequestSlots
  BY <1>2, <1>3, FrontEndLiveFinite, FrontEndSetting DEF TypeInv
<1>. QED
  BY FrontEndCount, <1>4 DEF F!SlotsReturn

LEMMA FrontEndSlotReturned ==
  ASSUME F!SettingOK, TypeInv, F!SlotsReturn, NEW r \in F!Live, F!To(r, "closed"),
           slots' = slots + 1
  PROVE  F!SlotsReturn' /\ slots' \in 0..RequestSlots
<1>1. F!Live' = F!Live \ {r}
  BY DEF F!Live, F!To, TypeInv, Places
<1>2. Cardinality(F!Live') = Cardinality(F!Live) - 1 /\ Cardinality(F!Live') \in Nat
  BY <1>1, FrontEndLiveFinite, FS_RemoveElement, FS_CardinalityType
<1>3. slots + Cardinality(F!Live) = RequestSlots
  BY FrontEndCount DEF F!SlotsReturn
<1>4. slots' + Cardinality(F!Live') = RequestSlots /\ slots' \in 0..RequestSlots
  BY <1>2, <1>3, FrontEndLiveFinite, FrontEndSetting DEF TypeInv
<1>. QED
  BY FrontEndCount, <1>4 DEF F!SlotsReturn

(* Steps *)

LEMMA FrontRightsInit == F!SettingOK /\ F!Init => FrontInv
<1>. SUFFICES ASSUME F!SettingOK, F!Init PROVE FrontInv
  OBVIOUS
<1>1. F!Live = {}
  BY DEF F!Init, F!Live
<1>2. TypeInv
  <2>1. (CHOOSE p \in Passwords : TRUE) \in Passwords
    BY FrontEndSetting
  <2>2. \A role \in F!Roles : [salt |-> 0, password |-> CHOOSE p \in Passwords : TRUE,
          role |-> role] \in F!Account
    BY <2>1 DEF F!Account
  <2>. QED
    BY <1>1, <2>2, FrontEndSetting DEF F!Init, TypeInv, Places
<1>3. F!SlotsReturn
  <2>1. F!Cardinality(F!Live) = 0
    BY FrontEndCount, <1>1, FS_EmptySet
  <2>. QED  BY <2>1, FrontEndSetting DEF F!Init, F!SlotsReturn
<1>. QED
  BY <1>1, <1>2, <1>3 DEF F!Init, FrontInv, FreshIsValid, KnownHasAccount, NoneMissed,
     LoginIsKnown, F!RightsAreCurrent
(* A step of a login that changes neither accounts nor ghosts nor slots.    *)
LEMMA FrontEndMoveKeeps ==
  ASSUME F!SettingOK, FrontInv, NEW r \in F!Live, NEW p \in Places \ {"new", "closed"},
           F!To(r, p),
         UNCHANGED <<sent, slots, accounts, saves, known, entitled>>,
         FreshIsValid',
         p = "known" /\ sent[r].user \in Users => r \in known,
         p \in {"allowed", "ran"} /\ sent[r].user \in Users => r \in entitled
  PROVE  FrontInv'
<1>1. r \in FrontRequests /\ at \in [FrontRequests -> Places]
  BY DEF F!Live, FrontInv, TypeInv
<1>2. at' \in [FrontRequests -> Places] /\ at'[r] = p /\ \A q \in FrontRequests \ {r} : at'[q] = at[q]
  BY <1>1 DEF F!To
<1>3. F!Live' = F!Live
  BY <1>1, <1>2 DEF F!Live
<1>4. TypeInv'
  BY <1>2, <1>3 DEF FrontInv, TypeInv
<1>5. KnownHasAccount'
  BY <1>2, <1>3 DEF FrontInv, KnownHasAccount, F!Live
<1>6. NoneMissed'
  BY <1>3 DEF FrontInv, NoneMissed, HoldsNow
<1>7. LoginIsKnown' /\ F!RightsAreCurrent'
  BY <1>1, <1>2 DEF FrontInv, LoginIsKnown, F!RightsAreCurrent
<1>8. F!SlotsReturn'
  BY <1>3 DEF FrontInv, F!SlotsReturn
<1>. QED  BY <1>4, <1>5, <1>6, <1>7, <1>8 DEF FrontInv

LEMMA FrontEndAuthenticateKeeps ==
  ASSUME F!SettingOK, FrontInv, NEW r \in FrontRequests, F!Authenticate(r)
  PROVE  FrontInv'
<1>1. r \in F!Live /\ at[r] = "open" /\ sent[r].user \in Users
  BY DEF F!Authenticate, F!Live
<1>2. UNCHANGED <<sent, slots, accounts, saves, known, entitled>>
  BY DEF F!Authenticate
<1>. DEFINE owner == accounts[sent[r].user]
<1>3. CASE F!Stamp(r) \in fresh
  <2>1. owner # None /\ owner.password = sent[r].password
    BY <1>3 DEF FrontInv, FreshIsValid, F!Stamp
  <2>2. r \in known
    BY <1>1, <2>1 DEF FrontInv, NoneMissed, HoldsNow
  <2>3. F!To(r, "known") /\ fresh' = fresh
    BY <1>3 DEF F!Authenticate
  <2>4. FreshIsValid'
    BY <2>3 DEF FrontInv, FreshIsValid
  <2>. QED  BY <1>1, <1>2, <2>2, <2>3, <2>4, FrontEndMoveKeeps DEF Places
<1>4. CASE F!Stamp(r) \notin fresh /\ owner # None /\ owner.password = sent[r].password
  <2>1. F!To(r, "known") /\ F!Remember(F!Stamp(r))
    BY <1>4 DEF F!Authenticate
  <2>2. r \in known
    BY <1>1, <1>4 DEF FrontInv, NoneMissed, HoldsNow
  <2>3. \A s \in fresh' : s \in fresh \/ s = F!Stamp(r)
    BY <2>1 DEF F!Remember
  <2>4. FreshIsValid'
    BY <1>4, <2>3 DEF FrontInv, FreshIsValid, F!Stamp
  <2>. QED  BY <1>1, <1>2, <2>1, <2>2, <2>4, FrontEndMoveKeeps DEF Places
<1>5. CASE F!Stamp(r) \notin fresh /\ ~(owner # None /\ owner.password = sent[r].password)
  <2>1. F!To(r, "refused") /\ fresh' = fresh
    BY <1>5 DEF F!Authenticate
  <2>2. FreshIsValid'
    BY <2>1 DEF FrontInv, FreshIsValid
  <2>. QED  BY <1>1, <1>2, <2>1, <2>2, FrontEndMoveKeeps DEF Places
<1>. QED  BY <1>3, <1>4, <1>5

LEMMA FrontEndTrustKeeps ==
  ASSUME F!SettingOK, FrontInv, NEW r \in FrontRequests, F!Trust(r)
  PROVE  FrontInv'
<1>1. r \in F!Live /\ sent[r].user \notin Users
        /\ \E p \in {"known", "answering"} : F!To(r, p)
  BY DEF F!Trust, F!Live
<1>2. UNCHANGED <<sent, slots, accounts, saves, known, entitled, fresh>>
  BY DEF F!Trust
<1>3. FreshIsValid'
  BY <1>2 DEF FrontInv, FreshIsValid
<1>. QED  BY <1>1, <1>2, <1>3, FrontEndMoveKeeps DEF Places

(* The role read under the lock is the role of now.                         *)
LEMMA FrontEndAuthorizeKeeps ==
  ASSUME F!SettingOK, FrontInv, NEW r \in FrontRequests, F!Authorize(r)
  PROVE  FrontInv'
<1>1. r \in F!Live /\ at[r] = "known"
  BY DEF F!Authorize, F!Live
<1>2. UNCHANGED <<sent, slots, accounts, saves, known, entitled, fresh>>
  BY DEF F!Authorize
<1>3. FreshIsValid'
  BY <1>2 DEF FrontInv, FreshIsValid
<1>. DEFINE role == IF sent[r].user = "token" THEN "admin" ELSE accounts[sent[r].user].role
<1>4. CASE F!Allows(role, sent[r].method)
  <2>1. F!To(r, "allowed")
    BY <1>4 DEF F!Authorize
  <2>2. sent[r].user \in Users => r \in entitled
    BY <1>1, <1>4 DEF F!SettingOK, FrontInv, LoginIsKnown, NoneMissed, F!Live
  <2>. QED  BY <1>1, <1>2, <1>3, <2>1, <2>2, FrontEndMoveKeeps DEF Places
<1>5. CASE ~F!Allows(role, sent[r].method)
  <2>1. F!To(r, "refused")
    BY <1>5 DEF F!Authorize
  <2>. QED  BY <1>1, <1>2, <1>3, <2>1, FrontEndMoveKeeps DEF Places
<1>. QED  BY <1>4, <1>5

LEMMA FrontEndAcceptKeeps ==
  ASSUME F!SettingOK, FrontInv, NEW r \in FrontRequests, F!Accept(r)
  PROVE  FrontInv'
<1>1. at[r] = "new" /\ r \notin F!Live /\ r \notin known
  BY DEF F!Accept, F!Live, FrontInv, KnownHasAccount
<1>2. UNCHANGED <<accounts, fresh, saves>> /\ F!Watch({r}, sent', accounts)
  BY DEF F!Accept
<1>3. PICK q \in F!Asked : sent' = [sent EXCEPT ![r] = q]
  BY DEF F!Accept
<1>4. /\ sent' \in [FrontRequests -> F!Asked \cup {None}]
      /\ sent'[r] \in F!Asked /\ \A o \in FrontRequests \ {r} : sent'[o] = sent[o]
  BY <1>3 DEF FrontInv, TypeInv
<1>5. /\ known \subseteq known' /\ entitled \subseteq entitled'
      /\ \A o \in known' : o \in known \/ (o = r /\ HoldsNow(r)')
      /\ HoldsNow(r)' => r \in known'
      /\ r \in known' /\ F!Allows(accounts[sent'[r].user].role, sent'[r].method)
           => r \in entitled'
  BY <1>2 DEF F!Watch, HoldsNow
<1>6. \E p \in {"open", "closed"} : F!To(r, p)
  BY DEF F!Accept
<1>7. /\ at' \in [FrontRequests -> Places] /\ at'[r] \in {"open", "closed"}
      /\ \A o \in FrontRequests \ {r} : at'[o] = at[o]
  BY <1>6 DEF F!To, FrontInv, TypeInv, Places
<1>8. \A o \in F!Live' : o \in FrontRequests /\ (o = r \/ o \in F!Live)
  BY <1>7 DEF F!Live
<1>9. slots' \in 0..RequestSlots /\ F!SlotsReturn'
  <2>1. CASE slots > 0 /\ slots' = slots - 1 /\ F!To(r, "open")
    BY <1>1, <2>1, FrontEndSlotTaken DEF FrontInv
  <2>2. CASE F!To(r, "closed") /\ slots' = slots
    <3>1. F!Live' = F!Live
      BY <1>1, <1>7, <2>2 DEF F!Live, F!To, FrontInv, TypeInv
    <3>. QED  BY <2>2, <3>1 DEF FrontInv, TypeInv, F!SlotsReturn
  <2>. QED  BY <2>1, <2>2 DEF F!Accept
<1>10. TypeInv'
  BY <1>2, <1>4, <1>7, <1>8, <1>9 DEF FrontInv, TypeInv
<1>11. FreshIsValid'
  BY <1>2 DEF FrontInv, FreshIsValid
<1>12. KnownHasAccount'
  <2>. SUFFICES ASSUME NEW o \in known'
                PROVE  /\ o \in FrontRequests /\ at'[o] # "new" /\ sent'[o].user \in Users
                       /\ accounts[sent'[o].user] # None
    BY <1>2 DEF KnownHasAccount
  <2>1. CASE o = r
    BY <1>1, <1>2, <1>5, <1>7, <2>1 DEF HoldsNow
  <2>2. CASE o # r
    <3>1. o \in known /\ o \in FrontRequests
      BY <1>5, <2>2 DEF FrontInv, KnownHasAccount
    <3>. QED  BY <1>4, <1>7, <2>2, <3>1 DEF FrontInv, KnownHasAccount
  <2>. QED  BY <2>1, <2>2
<1>13. NoneMissed'
  BY <1>2, <1>4, <1>5, <1>8 DEF FrontInv, NoneMissed, HoldsNow, F!Live
<1>14. LoginIsKnown' /\ F!RightsAreCurrent'
  BY <1>4, <1>5, <1>7 DEF FrontInv, LoginIsKnown, F!RightsAreCurrent
<1>. QED  BY <1>9, <1>10, <1>11, <1>12, <1>13, <1>14 DEF FrontInv

(* A saved account never goes; a new password comes with its account.       *)
LEMMA FrontEndRunKeeps ==
  ASSUME F!SettingOK, FrontInv, NEW r \in FrontRequests, F!Run(r)
  PROVE  FrontInv'
<1>1. r \in F!Live /\ at[r] = "allowed" /\ sent[r] \in F!Asked
  BY DEF F!Run, F!Live, FrontInv, TypeInv
<1>2. UNCHANGED <<sent, slots, cache, fresh>> /\ F!Watch(F!Live, sent, accounts')
  BY DEF F!Run
<1>3. at' \in [FrontRequests -> Places] /\ at'[r] = "ran"
        /\ \A o \in FrontRequests \ {r} : at'[o] = at[o]
  BY DEF F!Run, F!To, FrontInv, TypeInv, Places
<1>4. F!Live' = F!Live
  BY <1>1, <1>3 DEF F!Live
<1>5. /\ saves' \in Nat /\ accounts' \in [Users -> F!Account \cup {None}]
      /\ \A u \in Users : accounts[u] # None => accounts'[u] # None
  <2>1. CASE accounts' = accounts /\ saves' = saves
    BY <2>1 DEF FrontInv, TypeInv
  <2>2. CASE /\ sent[r].method = "save" /\ ~F!Refuses(sent[r]) /\ saves' = saves + 1
             /\ accounts' = [accounts EXCEPT ![sent[r].subject] = F!Saved(sent[r])]
    <3>1. /\ sent[r].subject \in Users /\ sent[r].new \in Passwords \cup {None}
          /\ sent[r].role \in F!Roles
      BY <1>1, <2>2 DEF F!Asked, F!Login
    <3>2. F!Saved(sent[r]) \in F!Account
      <4>1. CASE sent[r].new = None
        <5>1. accounts[sent[r].subject] \in F!Account
          BY <2>2, <3>1, <4>1 DEF F!Refuses, FrontInv, TypeInv
        <5>. QED  BY <3>1, <4>1, <5>1 DEF F!Saved, F!Account
      <4>2. CASE sent[r].new # None
        BY <3>1, <4>2 DEF F!Saved, F!Account, FrontInv, TypeInv
      <4>. QED  BY <4>1, <4>2
    <3>. QED  BY <2>2, <3>1, <3>2, FrontEndSetting DEF FrontInv, TypeInv
  <2>. QED  BY <2>1, <2>2 DEF F!Run
<1>6. TypeInv'
  BY <1>2, <1>3, <1>4, <1>5 DEF FrontInv, TypeInv
<1>7. /\ known \subseteq known' /\ entitled \subseteq entitled'
      /\ \A o \in known' : o \in known \/ (o \in F!Live /\ HoldsNow(o)')
      /\ \A o \in F!Live : HoldsNow(o)' => o \in known'
      /\ \A o \in F!Live \cap known' :
           F!Allows(accounts'[sent[o].user].role, sent[o].method) => o \in entitled'
  BY <1>2 DEF F!Watch, HoldsNow
<1>8. FreshIsValid'
  BY <1>2 DEF FrontInv, FreshIsValid
<1>9. KnownHasAccount'
  <2>. SUFFICES ASSUME NEW o \in known'
                PROVE  /\ o \in FrontRequests /\ at'[o] # "new" /\ sent[o].user \in Users
                       /\ accounts'[sent[o].user] # None
    BY <1>2 DEF KnownHasAccount
  <2>1. CASE o \in known
    BY <1>3, <1>5, <2>1 DEF FrontInv, KnownHasAccount
  <2>2. CASE o \in F!Live /\ HoldsNow(o)'
    BY <1>2, <1>3, <2>2 DEF HoldsNow, F!Live
  <2>. QED  BY <1>7, <2>1, <2>2
<1>10. NoneMissed'
  BY <1>2, <1>4, <1>7 DEF NoneMissed
<1>11. LoginIsKnown' /\ F!RightsAreCurrent'
  BY <1>1, <1>2, <1>3, <1>7 DEF FrontInv, LoginIsKnown, F!RightsAreCurrent
<1>12. F!SlotsReturn'
  BY <1>2, <1>4 DEF FrontInv, F!SlotsReturn
<1>. QED  BY <1>6, <1>8, <1>9, <1>10, <1>11, <1>12 DEF FrontInv

LEMMA FrontEndCloseKeeps ==
  ASSUME F!SettingOK, FrontInv, NEW r \in FrontRequests, F!Close(r)
  PROVE  FrontInv'
<1>1. r \in F!Live /\ F!To(r, "closed") /\ slots' = slots + 1
  BY DEF F!Close, F!Live
<1>2. UNCHANGED <<sent, accounts, fresh, saves, known, entitled>>
  BY DEF F!Close
<1>3. slots' \in 0..RequestSlots /\ F!SlotsReturn'
  BY <1>1, FrontEndSlotReturned DEF FrontInv
<1>4. /\ at' \in [FrontRequests -> Places] /\ at'[r] = "closed"
      /\ \A o \in FrontRequests \ {r} : at'[o] = at[o]
  BY <1>1 DEF F!To, FrontInv, TypeInv, Places
<1>5. \A o \in F!Live' : o \in F!Live
  BY <1>4 DEF F!Live
<1>6. TypeInv'
  BY <1>2, <1>3, <1>4, <1>5 DEF FrontInv, TypeInv
<1>7. FreshIsValid' /\ NoneMissed'
  BY <1>2, <1>5 DEF FrontInv, FreshIsValid, NoneMissed, HoldsNow
<1>8. KnownHasAccount'
  BY <1>2, <1>4 DEF FrontInv, KnownHasAccount
<1>9. LoginIsKnown' /\ F!RightsAreCurrent'
  BY <1>2, <1>4 DEF FrontInv, LoginIsKnown, F!RightsAreCurrent
<1>. QED  BY <1>3, <1>6, <1>7, <1>8, <1>9 DEF FrontInv

LEMMA FrontEndExpireKeeps ==
  ASSUME FrontInv, F!Expire PROVE FrontInv'
BY DEF F!Expire, FrontInv, TypeInv, FreshIsValid, KnownHasAccount, NoneMissed, HoldsNow,
   LoginIsKnown, F!RightsAreCurrent, F!SlotsReturn, F!Live

LEMMA FrontRightsStep ==
  ASSUME F!SettingOK, FrontInv, [F!Next]_(F!vars) PROVE FrontInv'
<1>1. CASE UNCHANGED F!vars
  BY <1>1 DEF F!vars, FrontInv, TypeInv, FreshIsValid, KnownHasAccount, NoneMissed,
     HoldsNow, LoginIsKnown, F!RightsAreCurrent, F!SlotsReturn, F!Live
<1>2. CASE F!Next
  BY <1>2, FrontEndAcceptKeeps, FrontEndAuthenticateKeeps, FrontEndTrustKeeps,
     FrontEndAuthorizeKeeps, FrontEndRunKeeps, FrontEndCloseKeeps, FrontEndExpireKeeps
     DEF F!Next
<1>. QED  BY <1>1, <1>2

(* What is remembered and what the bounds say: the rest of the types.       *)
Logins == Users \X (F!Account \cup {None}) \X Passwords
RestFits ==
  /\ cache \in Seq(Logins) /\ Len(cache) <= CacheSize
  /\ saves \in 0..MaxSaves["frontend"]
  /\ known \subseteq FrontRequests /\ entitled \subseteq FrontRequests

FrontEndInv == FrontInv /\ RestFits

LEMMA FrontEndInit == F!SettingOK /\ F!Init => FrontEndInv
<1>. SUFFICES ASSUME F!SettingOK, F!Init PROVE FrontEndInv
  OBVIOUS
<1>1. cache \in Seq(Logins) /\ Len(cache) = 0
  BY DEF F!Init
<1>2. RestFits
  BY <1>1 DEF F!Init, F!SettingOK, RestFits
<1>. QED  BY <1>2, FrontRightsInit DEF FrontEndInv

LEMMA FrontEndRemembers ==
  ASSUME F!SettingOK, RestFits, NEW s \in Logins, F!Remember(s)
  PROVE  cache' \in Seq(Logins) /\ Len(cache') <= CacheSize
<1>1. PICK kept : kept = IF Len(cache) >= CacheSize THEN Tail(cache) ELSE cache
  OBVIOUS
<1>2. cache \in Seq(Logins) /\ Len(cache) \in Nat /\ CacheSize \in Nat /\ CacheSize > 0
  BY DEF RestFits, F!SettingOK
<1>3. kept \in Seq(Logins) /\ Len(kept) \in Nat /\ Len(kept) + 1 <= CacheSize
  <2>1. CASE Len(cache) >= CacheSize
    <3>1. cache # <<>>
      BY <1>2, <2>1
    <3>2. Tail(cache) \in Seq(Logins) /\ Len(Tail(cache)) = Len(cache) - 1
      BY <1>2, <3>1, HeadTailProperties
    <3>. QED  BY <1>1, <1>2, <2>1, <3>2 DEF RestFits
  <2>2. CASE ~(Len(cache) >= CacheSize)
    BY <1>1, <1>2, <2>2
  <2>. QED  BY <2>1, <2>2
<1>4. cache' = kept \/ cache' = Append(kept, s)
  BY <1>1 DEF F!Remember
<1>5. Append(kept, s) \in Seq(Logins) /\ Len(Append(kept, s)) = Len(kept) + 1
  BY <1>3
<1>. QED  BY <1>2, <1>3, <1>4, <1>5

LEMMA FrontEndStep ==
  ASSUME F!SettingOK, FrontEndInv, [F!Next]_(F!vars) PROVE FrontEndInv'
<1>1. FrontInv' /\ FrontInv /\ RestFits
  BY FrontRightsStep DEF FrontEndInv
<1>2. ASSUME NEW r \in FrontRequests, F!Accept(r) PROVE RestFits'
  BY <1>1, <1>2 DEF F!Accept, F!Watch, RestFits
<1>3. ASSUME NEW r \in FrontRequests, F!Authenticate(r) PROVE RestFits'
  <2>1. r \in F!Live /\ sent[r] \in F!Asked /\ sent[r].user \in Users
    BY <1>1, <1>3 DEF F!Authenticate, F!Live, FrontInv, TypeInv
  <2>2. sent[r].password \in Passwords
    <3>1. (CHOOSE p \in Passwords : TRUE) \in Passwords
      BY DEF F!SettingOK
    <3>. QED  BY <2>1, <3>1 DEF F!Asked, F!Login
  <2>3. accounts[sent[r].user] \in F!Account \cup {None}
    BY <1>1, <2>1 DEF FrontInv, TypeInv
  <2>4. F!Stamp(r) \in Logins
    BY <2>1, <2>2, <2>3 DEF F!Stamp, Logins
  <2>5. cache' \in Seq(Logins) /\ Len(cache') <= CacheSize
    <3>1. UNCHANGED cache \/ F!Remember(F!Stamp(r))
      BY <1>3 DEF F!Authenticate
    <3>2. CASE UNCHANGED cache
      BY <1>1, <3>2 DEF RestFits
    <3>3. CASE F!Remember(F!Stamp(r))
      BY <1>1, <2>4, <3>3, FrontEndRemembers
    <3>. QED  BY <3>1, <3>2, <3>3
  <2>6. UNCHANGED <<saves, known, entitled>>
    BY <1>3 DEF F!Authenticate
  <2>. QED  BY <1>1, <2>5, <2>6 DEF RestFits
<1>4. ASSUME NEW r \in FrontRequests, F!Run(r) PROVE RestFits'
  <2>1. cache' = cache /\ saves' \in 0..MaxSaves["frontend"]
    BY <1>1, <1>4 DEF F!Run, RestFits, F!SettingOK
  <2>2. known' \subseteq FrontRequests /\ entitled' \subseteq FrontRequests
    BY <1>1, <1>4 DEF F!Run, F!Watch, F!Live, RestFits
  <2>. QED  BY <1>1, <2>1, <2>2 DEF RestFits
<1>5. ASSUME NEW r \in FrontRequests, F!Trust(r) \/ F!Authorize(r) \/ F!Close(r) PROVE RestFits'
  BY <1>1, <1>5 DEF F!Trust, F!Authorize, F!Close, RestFits
<1>6. ASSUME F!Expire \/ UNCHANGED F!vars PROVE RestFits'
  <2>1. UNCHANGED <<cache, saves, known, entitled>>
    BY <1>6 DEF F!Expire, F!vars
  <2>. QED  BY <1>1, <2>1 DEF RestFits
<1>. QED  BY <1>1, <1>2, <1>3, <1>4, <1>5, <1>6 DEF F!Next, FrontEndInv

LEMMA FrontEndTypes == FrontEndInv => F!TypeOK
BY DEF FrontEndInv, FrontInv, TypeInv, Places, RestFits, Logins, F!TypeOK

LEMMA FrontEndRuns ==
  ASSUME [OperationsNext]_allVars, scenario' = "frontend"
  PROVE  scenario = "frontend" /\ [F!Next]_(F!vars)
<1>1. CASE OperationsNext
  BY <1>1 DEF OperationsNext
<1>2. CASE UNCHANGED allVars
  BY <1>2 DEF allVars, shared, ofFrontEnd, F!vars
<1>. QED  BY <1>1, <1>2

LEMMA FrontEndAlways == OperationsSpec => [](scenario = "frontend" => FrontEndInv)
<1>1. OperationsInit => (scenario = "frontend" => FrontEndInv)
  BY SettingsOK, FrontEndInit DEF OperationsInit
<1>2. (scenario = "frontend" => FrontEndInv) /\ [OperationsNext]_allVars
        => (scenario = "frontend" => FrontEndInv)'
  BY SettingsOK, FrontEndRuns, FrontEndStep
<1>. QED  BY <1>1, <1>2, PTL DEF OperationsSpec

(* For any requests and accounts: what is executed had, since it arrived,   *)
(* the password of its account and after that a role that allows it,        *)
(* whatever is saved or remembered meanwhile, and no failure leaks a slot.  *)
THEOREM FrontEndCorrect == OperationsSpec => []FrontEndHolds
<1>1. (scenario = "frontend" => FrontEndInv) => FrontEndHolds
  BY DEF FrontEndInv, FrontInv, FrontEndHolds
<1>. QED  BY <1>1, FrontEndAlways, PTL

-------------------------------------------------------------------------------
(* CI registry                                                              *)

(* What the component counts is what the library's theorems are about.      *)
LEMMA AssetsFinite == \A S : I!IsFiniteSet(S) <=> IsFiniteSet(S)
BY DEF I!IsFiniteSet, IsFiniteSet

LEMMA AssetsCount == \A S : I!Cardinality(S) = Cardinality(S)
BY DEF I!Cardinality, Cardinality, I!IsFiniteSet, IsFiniteSet

(* Every record says where the machine was that it describes.               *)
Filed ==
  \A h \in Hosts :
    disk[h].observed_ip = disk[h].observed /\ I!Get(h).observed_ip = I!Get(h).observed

(* Every record has the last metadata reported as updated, or later ones.   *)
AssetsKept == \A h \in Hosts : I!ManualSurvives(h)

AssetsInv == I!TypeOK /\ Filed /\ AssetsKept

(* The initial states *)

LEMMA AssetsInit == I!SettingOK /\ I!Init => AssetsInv
<1>. SUFFICES ASSUME I!SettingOK, I!Init PROVE AssetsInv
  OBVIOUS
<1>1. [manual |-> 0, status |-> None, observed |-> None, observed_ip |-> None] \in I!Record
  BY DEF I!Record, I!SettingOK
<1>2. 0 \in 0..MaxEdits["assets"] /\ 0 \in 0..MaxMoves /\ 0 \in 0..MaxFaults["assets"]
  BY DEF I!SettingOK
<1>3. I!TypeOK
  BY <1>1, <1>2 DEF I!Init, I!TypeOK
<1>4. Filed /\ AssetsKept
  BY DEF I!Init, Filed, AssetsKept, I!ManualSurvives, I!Get
<1>. QED  BY <1>3, <1>4 DEF AssetsInv

LEMMA AssetsGetType ==
  ASSUME I!SettingOK, I!TypeOK, NEW h \in Hosts
  PROVE  I!Get(h) \in I!Record
BY DEF I!TypeOK, I!Get

(* A record that is saved with the metadata that was there                  *)
LEMMA AssetsSaveKeeps ==
  ASSUME I!SettingOK, AssetsInv, NEW h \in Hosts, NEW v \in I!Record,
           NEW manner \in I!Writes,
         I!Save(h, v, manner), v.observed_ip = v.observed, v.manual = I!Get(h).manual,
         acked' = acked, doubt' = doubt
  PROVE  /\ disk' \in [Hosts -> I!Record] /\ cache' \in [Hosts -> I!Record \cup {None}]
         /\ faults' \in 0..MaxFaults["assets"] /\ Filed' /\ AssetsKept'
<1>. USE DEF AssetsInv
<1>1. I!Get(h) \in I!Record
  BY AssetsGetType
<1>2. /\ disk' \in [Hosts -> I!Record] /\ cache' \in [Hosts -> I!Record \cup {None}]
      /\ disk'[h] \in {v, disk[h]} /\ cache'[h] \in {v, I!Get(h)}
      /\ \A g \in Hosts \ {h} : disk'[g] = disk[g] /\ cache'[g] = cache[g]
  BY <1>1 DEF I!Save, I!TypeOK
<1>3. faults' \in 0..MaxFaults["assets"]
  BY DEF I!Save, I!TypeOK, I!SettingOK
<1>4. cache'[h] # None
  BY <1>1, <1>2 DEF I!SettingOK
<1>5. Filed'
  BY <1>2, <1>4 DEF Filed, I!Get
<1>6. AssetsKept'
  BY <1>2, <1>4 DEF AssetsKept, I!ManualSurvives, I!Get
<1>. QED  BY <1>2, <1>3, <1>5, <1>6

(* The steps *)

LEMMA AssetsSubmitKeeps ==
  ASSUME I!SettingOK, AssetsInv, NEW h \in Hosts, I!Submit(h)
  PROVE  AssetsInv'
<1>. USE DEF AssetsInv, I!Submit
<1>1. I!TypeOK'  BY DEF I!SettingOK, I!TypeOK, I!Row
<1>2. Filed'
  BY DEF Filed, I!Get
<1>3. AssetsKept'
  BY DEF AssetsKept, I!ManualSurvives, I!Get
<1>. QED  BY <1>1, <1>2, <1>3

LEMMA AssetsConnectKeeps ==
  ASSUME I!SettingOK, AssetsInv, NEW h \in Hosts, I!Connect(h)
  PROVE  AssetsInv'
<1>. USE DEF AssetsInv, I!Connect
<1>1. I!TypeOK'  BY DEF I!SettingOK, I!TypeOK, I!Row
<1>2. Filed'
  BY DEF Filed, I!Get
<1>3. AssetsKept'
  BY DEF AssetsKept, I!ManualSurvives, I!Get
<1>. QED  BY <1>1, <1>2, <1>3

LEMMA AssetsCollectedKeeps ==
  ASSUME I!SettingOK, AssetsInv, NEW h \in Hosts, I!Collected(h)
  PROVE  AssetsInv'
<1>. USE DEF AssetsInv, I!Place
<1>a. I!Get(h) \in I!Record
  BY AssetsGetType
<1>b. job[h] \in I!Row /\ job' \in [Hosts -> I!Row \cup {None}]
  BY DEF I!Collected, I!TypeOK, I!Row
<1>c. I!Seen(h, job[h].ip, job[h].ip) \in I!Record
        /\ I!Seen(h, job[h].ip, job[h].ip).manual = I!Get(h).manual
      /\ I!Seen(h, job[h].ip, job[h].ip).observed_ip = I!Seen(h, job[h].ip,
           job[h].ip).observed
  BY <1>a, <1>b DEF I!Seen, I!Record, I!Row
<1>d. \/ UNCHANGED <<disk, cache, faults>>
      \/ \E manner \in I!Writes : I!Save(h, I!Seen(h, job[h].ip, job[h].ip), manner)
  BY DEF I!Collected
<1>e. UNCHANGED <<ip, edits, moves, acked, doubt>>
  BY DEF I!Collected
<1>f. /\ disk' \in [Hosts -> I!Record] /\ cache' \in [Hosts -> I!Record \cup {None}]
      /\ faults' \in 0..MaxFaults["assets"] /\ Filed' /\ AssetsKept'
  <2>1. CASE UNCHANGED <<disk, cache, faults>>
    BY <1>e, <2>1 DEF I!TypeOK, Filed, AssetsKept, I!ManualSurvives, I!Get
  <2>2. CASE \E manner \in I!Writes : I!Save(h, I!Seen(h, job[h].ip, job[h].ip), manner)
    BY <1>c, <1>e, <2>2, AssetsSaveKeeps
  <2>. QED  BY <1>d, <2>1, <2>2
<1>1. I!TypeOK'
  BY <1>b, <1>e, <1>f DEF I!TypeOK
<1>2. Filed'
  BY <1>f
<1>3. AssetsKept'
  BY <1>f
<1>. QED  BY <1>1, <1>2, <1>3

LEMMA AssetsNotCollectedKeeps ==
  ASSUME I!SettingOK, AssetsInv, NEW h \in Hosts, I!NotCollected(h)
  PROVE  AssetsInv'
<1>. USE DEF AssetsInv, I!Row
<1>a. I!Get(h) \in I!Record
  BY AssetsGetType
<1>b. job' \in [Hosts -> I!Row \cup {None}] /\ UNCHANGED <<ip, edits, moves, acked, doubt>>
  BY DEF I!NotCollected, I!TypeOK
<1>c. I!Unseen(h) \in I!Record /\ I!Unseen(h).manual = I!Get(h).manual
      /\ I!Unseen(h).observed_ip = I!Unseen(h).observed
  BY <1>a DEF I!Unseen, I!Record, Filed
<1>f. /\ disk' \in [Hosts -> I!Record] /\ cache' \in [Hosts -> I!Record \cup {None}]
      /\ faults' \in 0..MaxFaults["assets"] /\ Filed' /\ AssetsKept'
  BY <1>b, <1>c, AssetsSaveKeeps DEF I!NotCollected
<1>1. I!TypeOK'
  BY <1>b, <1>f DEF I!TypeOK
<1>2. Filed'
  BY <1>f
<1>3. AssetsKept'
  BY <1>f
<1>. QED  BY <1>1, <1>2, <1>3

LEMMA AssetsReportKeeps ==
  ASSUME I!SettingOK, AssetsInv, NEW h \in Hosts, I!Report(h)
  PROVE  AssetsInv'
<1>. USE DEF AssetsInv, I!Row
<1>a. I!Get(h) \in I!Record
  BY AssetsGetType
<1>b. UNCHANGED <<job, edits, acked, doubt>>
  BY DEF I!Report
<1>c. I!Unseen(h) \in I!Record /\ I!Unseen(h).manual = I!Get(h).manual
      /\ I!Unseen(h).observed_ip = I!Unseen(h).observed
  BY <1>a DEF I!Unseen, I!Record, Filed
<1>d. \A a \in Addresses : I!Seen(h, a, a) \in I!Record
        /\ I!Seen(h, a, a).manual = I!Get(h).manual
                         /\ I!Seen(h, a, a).observed_ip = I!Seen(h, a, a).observed
  BY <1>a DEF I!Seen, I!Record
<1>e. ip' \in [Hosts -> Addresses \cup {None}] /\ moves' \in 0..MaxMoves
  BY DEF I!Report, I!TypeOK, I!SettingOK
<1>f. /\ disk' \in [Hosts -> I!Record] /\ cache' \in [Hosts -> I!Record \cup {None}]
      /\ faults' \in 0..MaxFaults["assets"] /\ Filed' /\ AssetsKept'
  <2>1. CASE \E a \in Addresses, manner \in I!Writes : I!Save(h, I!Seen(h, a, a), manner)
    BY <1>b, <1>d, <2>1, AssetsSaveKeeps
  <2>2. CASE \E manner \in I!Writes : I!Save(h, I!Unseen(h), manner)
    BY <1>b, <1>c, <2>2, AssetsSaveKeeps
  <2>. QED  BY <2>1, <2>2 DEF I!Report
<1>1. I!TypeOK'
  BY <1>b, <1>e, <1>f DEF I!TypeOK
<1>2. Filed'
  BY <1>f
<1>3. AssetsKept'
  BY <1>f
<1>. QED  BY <1>1, <1>2, <1>3

LEMMA AssetsReportRefusedKeeps ==
  ASSUME I!SettingOK, AssetsInv, NEW h \in Hosts, I!ReportRefused(h)
  PROVE  AssetsInv'
<1>. USE DEF AssetsInv, I!ReportRefused
<1>1. I!TypeOK'  BY DEF I!SettingOK, I!TypeOK, I!Row
<1>2. Filed'
  BY DEF Filed, I!Get
<1>3. AssetsKept'
  BY DEF AssetsKept, I!ManualSurvives, I!Get
<1>. QED  BY <1>1, <1>2, <1>3

LEMMA AssetsSaveInventoryKeeps ==
  ASSUME I!SettingOK, AssetsInv, NEW h \in Hosts, I!SaveInventory(h)
  PROVE  AssetsInv'
<1>. USE DEF AssetsInv, I!SaveInventory
<1>1. I!TypeOK'  BY DEF I!SettingOK, I!TypeOK, I!Row
<1>2. Filed'
  BY DEF Filed, I!Get
<1>3. AssetsKept'
  BY DEF AssetsKept, I!ManualSurvives, I!Get
<1>. QED  BY <1>1, <1>2, <1>3

LEMMA AssetsUpdateKeeps ==
  ASSUME I!SettingOK, AssetsInv, NEW picked \in SUBSET Hosts,
           NEW manner \in [picked -> I!Writes], edits < MaxEdits["assets"],
           edits' = edits + 1,
         disk' = [h \in Hosts |-> IF h \in picked
           /\ I!OnDisk(manner[h]) THEN I!Typed(h) ELSE disk[h]],
         cache' = [h \in Hosts |-> IF h \notin picked THEN cache[h]
                                  ELSE IF manner[h] = "done" THEN I!Typed(h) ELSE I!Get(h)],
         faults' = faults + Cardinality({h \in picked : manner[h] # "done"}),
           faults' <= MaxFaults["assets"],
         acked' = [h \in Hosts |-> IF h \in picked
           /\ manner[h] = "done" THEN edits + 1 ELSE acked[h]],
         doubt' = [h \in Hosts |-> IF h \notin picked THEN doubt[h]
                                  ELSE IF manner[h] = "done" THEN {} ELSE doubt[h] \cup {edits + 1}],
         UNCHANGED <<ip, job, moves>>
  PROVE  AssetsInv'
<1>. USE DEF AssetsInv, I!Row
<1>a. edits' \in 0..MaxEdits["assets"] /\ edits + 1 \in 1..MaxEdits["assets"]
  BY DEF I!TypeOK, I!SettingOK
<1>b. faults' \in 0..MaxFaults["assets"]
  <2>1. IsFiniteSet({h \in picked : manner[h] # "done"})
    BY AssetsFinite, FS_Subset DEF I!SettingOK
  <2>. QED  BY <2>1, FS_CardinalityType DEF I!TypeOK, I!SettingOK
<1>c. \A h \in Hosts : /\ I!Typed(h) \in I!Record /\ I!Typed(h).manual = edits + 1
                       /\ I!Typed(h).observed_ip = I!Typed(h).observed
                            /\ I!Get(h) \in I!Record
                       /\ I!Typed(h) # None /\ I!Get(h) # None
  BY <1>a, AssetsGetType DEF I!Typed, I!Record, Filed, I!SettingOK
<1>d. \A h \in Hosts :
        \/ h \notin picked /\ disk'[h] = disk[h] /\ cache'[h] = cache[h]
             /\ doubt'[h] = doubt[h] /\ acked'[h] = acked[h]
        \/ /\ h \in picked /\ disk'[h] = I!Typed(h) /\ cache'[h] = I!Typed(h)
           /\ acked'[h] = edits + 1 /\ doubt'[h] = {}
        \/ /\ h \in picked /\ disk'[h] \in {disk[h], I!Typed(h)} /\ cache'[h] = I!Get(h)
           /\ acked'[h] = acked[h] /\ doubt'[h] = doubt[h] \cup {edits + 1}
  BY DEF I!OnDisk, I!Writes
<1>1. I!TypeOK'
  <2>1. /\ disk' \in [Hosts -> I!Record] /\ cache' \in [Hosts -> I!Record \cup {None}]
    BY <1>c DEF I!TypeOK
  <2>2. /\ acked' \in [Hosts -> 0..MaxEdits["assets"]]
             /\ doubt' \in [Hosts -> SUBSET (1..MaxEdits["assets"])]
    <3>1. edits + 1 \in 0..MaxEdits["assets"]
      BY <1>a
    <3>. QED  BY <1>a, <3>1 DEF I!TypeOK
  <2>. QED  BY <1>a, <1>b, <2>1, <2>2 DEF I!TypeOK
<1>2. Filed'  BY <1>a, <1>b, <1>c, <1>d DEF I!TypeOK, Filed, I!Get
<1>3. AssetsKept'  BY <1>a, <1>b, <1>c, <1>d DEF I!TypeOK, AssetsKept, I!ManualSurvives,
                      I!Get
<1>. QED  BY <1>1, <1>2, <1>3

LEMMA AssetsCrashKeeps ==
  ASSUME I!SettingOK, AssetsInv, I!Crash
  PROVE  AssetsInv'
<1>. USE DEF AssetsInv, I!Row
<1>a. \A h \in Hosts : edits < MaxEdits["assets"] =>
        /\ I!Typed(h) \in I!Record /\ I!Typed(h).manual = edits + 1
        /\ I!Typed(h).observed_ip = I!Typed(h).observed
  <2>1. \A h \in Hosts : I!Get(h) \in I!Record
    BY AssetsGetType
  <2>2. edits < MaxEdits["assets"] => edits + 1 \in 0..MaxEdits["assets"]
    BY DEF I!TypeOK, I!SettingOK
  <2>. QED  BY <2>1, <2>2 DEF I!Typed, I!Record, Filed
<1>b. /\ edits' \in 0..MaxEdits["assets"] /\ faults' \in 0..MaxFaults["assets"]
           /\ UNCHANGED <<ip, moves, acked>>
      /\ cache' = [h \in Hosts |-> None] /\ job' = [h \in Hosts |-> None]
  BY DEF I!Crash, I!TypeOK, I!SettingOK
<1>c. \A h \in Hosts : \/ disk'[h] = disk[h] /\ doubt'[h] = doubt[h]
                       \/ /\ edits < MaxEdits["assets"] /\ disk'[h] = I!Typed(h)
                          /\ doubt'[h] = doubt[h] \cup {edits + 1}
  BY DEF I!Crash
<1>d. edits < MaxEdits["assets"] => edits + 1 \in 1..MaxEdits["assets"]
  BY DEF I!TypeOK, I!SettingOK
<1>e. /\ disk' \in [Hosts -> I!Record]
           /\ doubt' \in [Hosts -> SUBSET (1..MaxEdits["assets"])]
  <2>1. \/ UNCHANGED <<disk, doubt>>
        \/ \E written \in SUBSET {h \in Hosts : ip[h] # None} :
             /\ disk' = [h \in Hosts |-> IF h \in written THEN I!Typed(h) ELSE disk[h]]
             /\ doubt' = [h \in Hosts |-> IF h \in written THEN doubt[h] \cup {edits + 1} ELSE doubt[h]]
             /\ edits < MaxEdits["assets"]
    BY DEF I!Crash
  <2>. QED  BY <1>a, <1>d, <2>1 DEF I!TypeOK
<1>1. I!TypeOK'
  BY <1>b, <1>e DEF I!TypeOK
<1>2. Filed'  BY <1>a, <1>b, <1>c, <1>d, <1>e DEF I!TypeOK, Filed, I!Get
<1>3. AssetsKept'  BY <1>a, <1>b, <1>c, <1>d, <1>e DEF I!TypeOK, AssetsKept,
                      I!ManualSurvives, I!Get
<1>. QED  BY <1>1, <1>2, <1>3

LEMMA AssetsStep == I!SettingOK /\ AssetsInv /\ [I!Next]_(I!vars) => AssetsInv'
<1>. SUFFICES ASSUME I!SettingOK, AssetsInv, [I!Next]_(I!vars) PROVE AssetsInv'
  OBVIOUS
<1>1. CASE \E h \in Hosts : I!Submit(h)
  BY <1>1, AssetsSubmitKeeps
<1>2. CASE \E h \in Hosts : I!Connect(h)
  BY <1>2, AssetsConnectKeeps
<1>3. CASE \E h \in Hosts : I!Collected(h)
  BY <1>3, AssetsCollectedKeeps
<1>4. CASE \E h \in Hosts : I!NotCollected(h)
  BY <1>4, AssetsNotCollectedKeeps
<1>5. CASE \E h \in Hosts : I!Report(h)
  BY <1>5, AssetsReportKeeps
<1>6. CASE \E h \in Hosts : I!ReportRefused(h)
  BY <1>6, AssetsReportRefusedKeeps
<1>7. CASE \E h \in Hosts : I!SaveInventory(h)
  BY <1>7, AssetsSaveInventoryKeeps
<1>8. CASE \E picked \in SUBSET Hosts : I!Update(picked)
  BY AssetsCount, <1>8, AssetsUpdateKeeps DEF I!Update
<1>9. CASE I!Crash
  BY <1>9, AssetsCrashKeeps
<1>10. CASE UNCHANGED I!vars
  <2>. USE <1>10 DEF I!vars, AssetsInv
  <2>1. I!TypeOK'
    BY DEF I!TypeOK
  <2>2. Filed' /\ AssetsKept'
    BY DEF Filed, AssetsKept, I!Get, I!ManualSurvives
  <2>. QED  BY <2>1, <2>2
<1>. QED  BY <1>1, <1>2, <1>3, <1>4, <1>5, <1>6, <1>7, <1>8, <1>9, <1>10 DEF I!Next

LEMMA AssetsRuns ==
  ASSUME [OperationsNext]_allVars, scenario' = "assets"
  PROVE  scenario = "assets" /\ [I!Next]_(I!vars)
<1>1. CASE OperationsNext
  BY <1>1 DEF OperationsNext
<1>2. CASE UNCHANGED allVars
  BY <1>2 DEF allVars, shared, ofAssets, I!vars
<1>. QED  BY <1>1, <1>2

LEMMA AssetsAlways == OperationsSpec => [](scenario = "assets" => AssetsInv)
<1>1. OperationsInit => (scenario = "assets" => AssetsInv)
  BY SettingsOK, AssetsInit DEF OperationsInit
<1>2. (scenario = "assets" => AssetsInv) /\ [OperationsNext]_allVars
        => (scenario = "assets" => AssetsInv)'
  BY SettingsOK, AssetsRuns, AssetsStep
<1>. QED  BY <1>1, <1>2, PTL DEF OperationsSpec

(* For any hosts and addresses: an edit reported as updated is not lost to  *)
(* a collection, and an observation is filed for the machine that it        *)
(* describes.                                                               *)
THEOREM RecordsCorrect == OperationsSpec => []RecordsHold
<1>1. (scenario = "assets" => AssetsInv) => RecordsHold
  BY DEF AssetsInv, RecordsHold, I!RecordsHold, Filed, AssetsKept, I!StaleIsShown, I!Stale
<1>. QED  BY <1>1, AssetsAlways, PTL

-------------------------------------------------------------------------------
(* Backups                                                                  *)

(* While a capture is taken and until it is used, what it has of a file is  *)
(* a version that the file had meanwhile, or it is marked as not clean.     *)
Seen(f) == IF at \in {"backup", "store"} THEN K!Shown("backup", then[f])
           ELSE K!Shown("compare", now[f])
CaptureFits ==
  at \in {"backup", "store", "compare", "current"} =>
    /\ capture.left \subseteq capture.present /\ capture.present \subseteq capture.tested
    /\ \A f \in Files :
         /\ K!Reading => real[f] \in Seen(f)
         /\ f \in capture.tested \ capture.present => 0 \in Seen(f)
         /\ f \notin capture.present => capture.got[f] = 0
         /\ capture.clean /\ f \in capture.present \ capture.left
              => capture.got[f] \in Seen(f)
    /\ ~K!Reading /\ capture.clean => capture.tested = Files /\ capture.left = {}

(* Whoever calls the backup complete has its content, and nobody takes      *)
(* another one.                                                             *)
Fits == content # None /\ \A f \in Files : content[f] \in K!Shown("backup", then[f])
ContentFits ==
  /\ at \in {"backup", "store"} => content = None /\ manifest = None
  /\ at = "store" => artifact = "failed"
  /\ artifact = "completed" => Fits
  /\ manifest # None /\ manifest.artifact = "completed" => Fits
  /\ result # None /\ result.artifact = "completed" => Fits
  /\ at \in {"compare", "current"} => Fits /\ row = None
  /\ row = "completed" => Fits

BackupsInv == K!TypeOK /\ CaptureFits /\ ContentFits /\ K!DifferencesAreReal

(* The initial states *)

LEMMA BackupsInit == K!SettingOK /\ K!Init => BackupsInv
<1>. SUFFICES ASSUME K!SettingOK, K!Init PROVE BackupsInv
  OBVIOUS
<1>1. K!TypeOK
  <2>1. real \in K!Listing /\ changes \in 0..MaxChanges["backups"]
          /\ faults \in 0..MaxFaults["backups"]
    BY DEF K!Init, K!SettingOK, K!Listing, K!Versions
  <2>2. K!Fresh \in [tested : SUBSET Files, present : SUBSET Files, got : K!Listing,
                   left : SUBSET Files, clean : BOOLEAN]
    BY DEF K!Fresh, K!SettingOK, K!Listing, K!Versions
  <2>3. then \in [Files -> SUBSET K!Versions] /\ now \in [Files -> SUBSET K!Versions]
          /\ overtaken \in SUBSET {"backup", "compare"}
    BY DEF K!Init
  <2>. QED  BY <2>1, <2>2, <2>3 DEF K!Init, K!TypeOK, K!Ats, K!Statuses
<1>2. CaptureFits /\ ContentFits /\ K!DifferencesAreReal
  BY DEF K!Init, CaptureFits, ContentFits, K!DifferencesAreReal, K!SettingOK, K!Statuses
<1>. QED  BY <1>1, <1>2 DEF BackupsInv

(* What a cut takes from a capture: the bytes of the lost files, and nothing *)
(* else.                                                                    *)
LEMMA CutFits ==
  ASSUME K!SettingOK, K!TypeOK, NEW lost \in SUBSET Files
  PROVE  LET c == K!Cut(capture, lost)
         IN  /\ c \in [tested : SUBSET Files, present : SUBSET Files, got : K!Listing,
                       left : SUBSET Files, clean : BOOLEAN]
             /\ c.tested = capture.tested /\ c.present = capture.present
             /\ c.left = capture.left /\ c.clean = capture.clean
             /\ \A f \in Files : c.got[f] = IF f \in lost THEN 0 ELSE capture.got[f]
<1>1. [f \in Files |-> IF f \in lost THEN 0 ELSE capture.got[f]] \in K!Listing
  BY DEF K!TypeOK, K!Listing, K!Versions, K!SettingOK
<1>. QED  BY <1>1 DEF K!Cut, K!TypeOK

(* The steps *)

LEMMA BackupsChangeKeeps ==
  ASSUME K!SettingOK, BackupsInv, NEW f \in Files, K!Change(f)
  PROVE  BackupsInv'
<1>. USE DEF BackupsInv, K!Change
<1>1. K!TypeOK'  BY DEF K!SettingOK, K!TypeOK, K!Ats, K!Listing, K!Versions, K!Statuses,
                    K!Reading
<1>2. CaptureFits'
  BY DEF K!SettingOK, K!TypeOK, CaptureFits, K!Reading, Seen, K!Shown, K!Listing, ContentFits
<1>3. ContentFits'
  BY DEF K!SettingOK, K!TypeOK, ContentFits, Fits, CaptureFits, K!Reading, Seen,
     K!Shown, K!Statuses
<1>4. K!DifferencesAreReal'
  BY DEF K!SettingOK, K!TypeOK, K!DifferencesAreReal, ContentFits, Fits, CaptureFits,
     Seen, K!Shown, K!Reading, K!Statuses
<1>. QED  BY <1>1, <1>2, <1>3, <1>4

LEMMA BackupsTestKeeps ==
  ASSUME K!SettingOK, BackupsInv, NEW f \in Files, K!Test(f)
  PROVE  BackupsInv'
<1>. USE DEF BackupsInv, K!Test
<1>1. K!TypeOK'
  <2>1. capture' \in [tested : SUBSET Files, present : SUBSET Files, got : K!Listing,
                    left : SUBSET Files, clean : BOOLEAN]
    BY DEF K!TypeOK
  <2>. QED  BY <2>1 DEF K!TypeOK
<1>2. CaptureFits'
  BY DEF K!SettingOK, K!TypeOK, CaptureFits, K!Reading, Seen, K!Shown, K!Listing, ContentFits
<1>3. ContentFits'
  BY DEF K!SettingOK, K!TypeOK, ContentFits, Fits, CaptureFits, K!Reading, Seen,
     K!Shown, K!Statuses
<1>4. K!DifferencesAreReal'
  BY DEF K!SettingOK, K!TypeOK, K!DifferencesAreReal, ContentFits, Fits, CaptureFits,
     Seen, K!Shown, K!Reading, K!Statuses
<1>. QED  BY <1>1, <1>2, <1>3, <1>4

LEMMA BackupsReadKeeps ==
  ASSUME K!SettingOK, BackupsInv, NEW f \in Files, K!Read(f)
  PROVE  BackupsInv'
<1>. USE DEF BackupsInv, K!Read, K!Fault
<1>1. K!TypeOK'
  <2>1. [capture.got EXCEPT ![f] = real[f]] \in K!Listing
    BY DEF K!TypeOK, K!Listing
  <2>2. capture' \in [tested : SUBSET Files, present : SUBSET Files, got : K!Listing,
                    left : SUBSET Files, clean : BOOLEAN]
    BY <2>1 DEF K!TypeOK
  <2>3. faults' \in 0..MaxFaults["backups"]
    BY DEF K!TypeOK, K!SettingOK
  <2>. QED  BY <2>2, <2>3 DEF K!TypeOK
<1>2. CaptureFits'
  <2>1. CASE real[f] # 0 /\ capture' = [capture EXCEPT !.left = @ \ {f}, !.got[f] = real[f]]
    <3>1. /\ capture'.got = [capture.got EXCEPT ![f] = real[f]]
               /\ capture'.left = capture.left \ {f}
          /\ capture'.tested = capture.tested /\ capture'.present = capture.present
          /\ capture'.clean = capture.clean
      BY <2>1 DEF K!TypeOK
    <3>2. \A g \in Files : capture'.got[g] = IF g = f THEN real[f] ELSE capture.got[g]
      BY <3>1 DEF K!TypeOK, K!Listing
    <3>. QED  BY <3>1, <3>2 DEF K!TypeOK, CaptureFits, K!Reading, Seen, K!Shown
  <2>2. CASE capture' = [capture EXCEPT !.left = @ \ {f}, !.clean = FALSE]
    <3>1. /\ capture'.got = capture.got /\ capture'.left = capture.left \ {f}
          /\ capture'.tested = capture.tested /\ capture'.present = capture.present
          /\ capture'.clean = FALSE
      BY <2>2 DEF K!TypeOK
    <3>. QED  BY <3>1 DEF K!TypeOK, CaptureFits, K!Reading, Seen, K!Shown
  <2>. QED  BY <2>1, <2>2
<1>3. ContentFits'
  BY DEF K!SettingOK, K!TypeOK, ContentFits, Fits, CaptureFits, K!Reading, Seen,
     K!Shown, K!Statuses
<1>4. K!DifferencesAreReal'
  BY DEF K!SettingOK, K!TypeOK, K!DifferencesAreReal, ContentFits, Fits, CaptureFits,
     Seen, K!Shown, K!Reading, K!Statuses
<1>. QED  BY <1>1, <1>2, <1>3, <1>4

LEMMA BackupsBackupKeeps ==
  ASSUME K!SettingOK, BackupsInv, K!Backup
  PROVE  BackupsInv'
<1>. USE DEF BackupsInv, K!Backup, K!Written, K!Fresh
<1>1. K!TypeOK'  BY DEF K!SettingOK, K!TypeOK, K!Ats, K!Listing, K!Versions, K!Statuses,
                    K!Reading
<1>2. CaptureFits'
  BY DEF K!SettingOK, K!TypeOK, CaptureFits, K!Reading, Seen, K!Shown, K!Listing, ContentFits
<1>3. ContentFits'
  BY DEF K!SettingOK, K!TypeOK, ContentFits, Fits, CaptureFits, K!Reading, Seen,
     K!Shown, K!Statuses
<1>4. K!DifferencesAreReal'
  BY DEF K!SettingOK, K!TypeOK, K!DifferencesAreReal, ContentFits, Fits, CaptureFits,
     Seen, K!Shown, K!Reading, K!Statuses
<1>. QED  BY <1>1, <1>2, <1>3, <1>4

LEMMA BackupsCapturedKeeps ==
  ASSUME K!SettingOK, BackupsInv, K!Captured
  PROVE  BackupsInv'
<1>. USE DEF BackupsInv, K!Captured, K!Ended, K!Fault
<1>1. K!TypeOK'
  <2>1. capture' \in [tested : SUBSET Files, present : SUBSET Files, got : K!Listing,
                    left : SUBSET Files, clean : BOOLEAN]
    <3>1. CASE \E lost \in SUBSET capture.present \ {{}} : capture' = K!Cut(capture, lost)
      <4>1. PICK lost \in SUBSET Files : capture' = K!Cut(capture, lost)
        BY <3>1 DEF K!TypeOK
      <4>. QED  BY <4>1, CutFits
    <3>2. CASE capture' \in {capture, [capture EXCEPT !.clean = FALSE]}
      BY <3>2 DEF K!TypeOK
    <3>. QED  BY <3>1, <3>2
  <2>2. faults' \in 0..MaxFaults["backups"]
    BY DEF K!TypeOK, K!SettingOK
  <2>. QED  BY <2>1, <2>2 DEF K!TypeOK, K!Ats, K!Statuses
<1>2. CaptureFits'
  <2>1. CASE /\ \E lost \in SUBSET capture.present \ {{}} : capture' = K!Cut(capture, lost)
             /\ overtaken' = overtaken \cup {at}
             /\ capture.tested = Files /\ capture.left = {} /\ at' = "store"
    <3>1. PICK lost \in SUBSET Files : capture' = K!Cut(capture, lost)
      BY <2>1 DEF K!TypeOK
    <3>2. /\ capture'.tested = capture.tested /\ capture'.present = capture.present
          /\ capture'.left = capture.left /\ capture'.clean = capture.clean
          /\ \A f \in Files : capture'.got[f] = IF f \in lost THEN 0 ELSE capture.got[f]
      BY <3>1, CutFits
    <3>3. \A f \in Files : 0 \in Seen(f)'
      BY <2>1 DEF Seen, K!Shown
    <3>. QED  BY <2>1, <3>2, <3>3 DEF K!TypeOK, CaptureFits, K!Reading, Seen, K!Shown
  <2>2. CASE capture' \in {capture, [capture EXCEPT !.clean = FALSE]} /\ UNCHANGED overtaken
    BY <2>2 DEF K!SettingOK, K!TypeOK, CaptureFits, K!Reading, Seen, K!Shown, K!Listing,
       ContentFits
  <2>. QED  BY <2>1, <2>2
<1>3. ContentFits'
  BY DEF K!SettingOK, K!TypeOK, ContentFits, Fits, CaptureFits, K!Reading, Seen,
     K!Shown, K!Statuses
<1>4. K!DifferencesAreReal'
  BY DEF K!SettingOK, K!TypeOK, K!DifferencesAreReal, ContentFits, Fits, CaptureFits,
     Seen, K!Shown, K!Reading, K!Statuses
<1>. QED  BY <1>1, <1>2, <1>3, <1>4

LEMMA BackupsStoreKeeps ==
  ASSUME K!SettingOK, BackupsInv, K!Store
  PROVE  BackupsInv'
<1>. USE DEF BackupsInv, K!Store, K!Verdict, K!Fault
<1>1. K!TypeOK'  BY DEF K!SettingOK, K!TypeOK, K!Ats, K!Listing, K!Versions, K!Statuses,
                    K!Reading
<1>2. CaptureFits'
  BY DEF K!SettingOK, K!TypeOK, CaptureFits, K!Reading, Seen, K!Shown, K!Listing, ContentFits
<1>3. ContentFits'
  BY DEF K!SettingOK, K!TypeOK, ContentFits, Fits, CaptureFits, K!Reading, Seen,
     K!Shown, K!Statuses
<1>4. K!DifferencesAreReal'
  BY DEF K!SettingOK, K!TypeOK, K!DifferencesAreReal, ContentFits, Fits, CaptureFits,
     Seen, K!Shown, K!Reading, K!Statuses
<1>. QED  BY <1>1, <1>2, <1>3, <1>4

LEMMA BackupsDescribeKeeps ==
  ASSUME K!SettingOK, BackupsInv, K!Describe
  PROVE  BackupsInv'
<1>. USE DEF BackupsInv, K!Describe, K!Fault
<1>1. K!TypeOK'
  <2>1. faults' \in 0..MaxFaults["backups"]
    BY DEF K!TypeOK, K!SettingOK
  <2>2. metadata' \in BOOLEAN
    BY DEF K!TypeOK
  <2>3. artifact' \in K!Statuses /\ at' \in K!Ats
    BY DEF K!TypeOK, K!Ats, K!Statuses
  <2>. QED  BY <2>1, <2>2, <2>3 DEF K!TypeOK
<1>2. CaptureFits'
  BY DEF K!SettingOK, K!TypeOK, CaptureFits, K!Reading, Seen, K!Shown, K!Listing, ContentFits
<1>3. ContentFits'
  BY DEF K!SettingOK, K!TypeOK, ContentFits, Fits, CaptureFits, K!Reading, Seen,
     K!Shown, K!Statuses
<1>4. K!DifferencesAreReal'
  BY DEF K!SettingOK, K!TypeOK, K!DifferencesAreReal, ContentFits, Fits, CaptureFits,
     Seen, K!Shown, K!Reading, K!Statuses
<1>. QED  BY <1>1, <1>2, <1>3, <1>4

LEMMA BackupsNoteKeeps ==
  ASSUME K!SettingOK, BackupsInv, K!Note
  PROVE  BackupsInv'
<1>. USE DEF BackupsInv, K!Note, K!Publish, K!Fault
<1>1. K!TypeOK'  BY DEF K!SettingOK, K!TypeOK, K!Ats, K!Listing, K!Versions, K!Statuses,
                    K!Reading
<1>2. CaptureFits'
  BY DEF K!SettingOK, K!TypeOK, CaptureFits, K!Reading, Seen, K!Shown, K!Listing, ContentFits
<1>3. ContentFits'
  BY DEF K!SettingOK, K!TypeOK, ContentFits, Fits, CaptureFits, K!Reading, Seen,
     K!Shown, K!Statuses
<1>4. K!DifferencesAreReal'
  BY DEF K!SettingOK, K!TypeOK, K!DifferencesAreReal, ContentFits, Fits, CaptureFits,
     Seen, K!Shown, K!Reading, K!Statuses
<1>. QED  BY <1>1, <1>2, <1>3, <1>4

LEMMA BackupsCommandsKeeps ==
  ASSUME K!SettingOK, BackupsInv, K!Commands
  PROVE  BackupsInv'
<1>. USE DEF BackupsInv, K!Commands, K!Publish, K!Whole, K!Fault
<1>1. K!TypeOK'
  <2>1. faults' \in 0..MaxFaults["backups"]
    BY DEF K!TypeOK, K!SettingOK
  <2>2. PICK state \in K!Statuses :
          LET m == [status |-> K!Whole({artifact, state}), artifact |-> artifact]
          IN  /\ manifest' \in {manifest, m} /\ at' = "idle"
              /\ result' \in {m, [status |-> "failed", artifact |-> None]}
    OBVIOUS
  <2>3. K!Whole({artifact, state}) \in K!Statuses /\ artifact \in K!Statuses
    BY DEF K!Statuses, K!TypeOK
  <2>4. manifest' \in [status : K!Statuses \cup {"running"}, artifact : K!Statuses] \cup {None}
    BY <2>2, <2>3 DEF K!TypeOK
  <2>5. result' \in [status : K!Statuses, artifact : K!Statuses \cup {None}] \cup {None}
    BY <2>2, <2>3 DEF K!Statuses
  <2>6. at' \in K!Ats
    BY <2>2 DEF K!Ats
  <2>. QED  BY <2>1, <2>4, <2>5, <2>6 DEF K!TypeOK
<1>2. CaptureFits'
  BY DEF K!SettingOK, K!TypeOK, CaptureFits, K!Reading, Seen, K!Shown, K!Listing, ContentFits
<1>3. ContentFits'
  BY DEF K!SettingOK, K!TypeOK, ContentFits, Fits, CaptureFits, K!Reading, Seen,
     K!Shown, K!Statuses
<1>4. K!DifferencesAreReal'
  BY DEF K!SettingOK, K!TypeOK, K!DifferencesAreReal, ContentFits, Fits, CaptureFits,
     Seen, K!Shown, K!Reading, K!Statuses
<1>. QED  BY <1>1, <1>2, <1>3, <1>4

LEMMA BackupsCompareKeeps ==
  ASSUME K!SettingOK, BackupsInv, K!Compare
  PROVE  BackupsInv'
<1>. USE DEF BackupsInv, K!Compare, K!Usable, K!Fresh
<1>1. K!TypeOK'
  <2>1. capture' \in [tested : SUBSET Files, present : SUBSET Files, got : K!Listing,
                    left : SUBSET Files, clean : BOOLEAN]
    <3>1. K!Fresh \in [tested : SUBSET Files, present : SUBSET Files, got : K!Listing,
                    left : SUBSET Files, clean : BOOLEAN]
      BY DEF K!SettingOK, K!Listing, K!Versions
    <3>2. capture' = K!Fresh \/ capture' = capture
      OBVIOUS
    <3>. QED  BY <3>1, <3>2 DEF K!TypeOK
  <2>2. now' \in [Files -> SUBSET K!Versions]
    BY DEF K!TypeOK, K!Listing
  <2>. QED  BY <2>1, <2>2 DEF K!TypeOK, K!Ats
<1>2. CaptureFits'
  BY DEF K!SettingOK, K!TypeOK, CaptureFits, K!Reading, Seen, K!Shown, K!Listing, ContentFits
<1>3. ContentFits'
  BY DEF K!SettingOK, K!TypeOK, ContentFits, Fits, CaptureFits, K!Reading, Seen,
     K!Shown, K!Statuses
<1>4. K!DifferencesAreReal'
  BY DEF K!SettingOK, K!TypeOK, K!DifferencesAreReal, ContentFits, Fits, CaptureFits,
     Seen, K!Shown, K!Reading, K!Statuses
<1>. QED  BY <1>1, <1>2, <1>3, <1>4

LEMMA BackupsCurrentKeeps ==
  ASSUME K!SettingOK, BackupsInv, K!Current
  PROVE  BackupsInv'
<1>. USE DEF BackupsInv, K!Current, K!Ended, K!Fault
<1>1. K!TypeOK'
  <2>1. capture' \in [tested : SUBSET Files, present : SUBSET Files, got : K!Listing,
                    left : SUBSET Files, clean : BOOLEAN]
    <3>1. CASE \E lost \in SUBSET capture.present \ {{}} : capture' = K!Cut(capture, lost)
      <4>1. PICK lost \in SUBSET Files : capture' = K!Cut(capture, lost)
        BY <3>1 DEF K!TypeOK
      <4>. QED  BY <4>1, CutFits
    <3>2. CASE capture' \in {capture, [capture EXCEPT !.clean = FALSE]}
      BY <3>2 DEF K!TypeOK
    <3>. QED  BY <3>1, <3>2
  <2>2. faults' \in 0..MaxFaults["backups"]
    BY DEF K!TypeOK, K!SettingOK
  <2>. QED  BY <2>1, <2>2 DEF K!TypeOK, K!Ats, K!Statuses
<1>2. CaptureFits'
  <2>1. CASE /\ \E lost \in SUBSET capture.present \ {{}} : capture' = K!Cut(capture, lost)
             /\ overtaken' = overtaken \cup {at}
             /\ capture.tested = Files /\ capture.left = {} /\ at' = "current"
    <3>1. PICK lost \in SUBSET Files : capture' = K!Cut(capture, lost)
      BY <2>1 DEF K!TypeOK
    <3>2. /\ capture'.tested = capture.tested /\ capture'.present = capture.present
          /\ capture'.left = capture.left /\ capture'.clean = capture.clean
          /\ \A f \in Files : capture'.got[f] = IF f \in lost THEN 0 ELSE capture.got[f]
      BY <3>1, CutFits
    <3>3. \A f \in Files : 0 \in Seen(f)'
      BY <2>1 DEF Seen, K!Shown
    <3>. QED  BY <2>1, <3>2, <3>3 DEF K!TypeOK, CaptureFits, K!Reading, Seen, K!Shown
  <2>2. CASE capture' \in {capture, [capture EXCEPT !.clean = FALSE]} /\ UNCHANGED overtaken
    BY <2>2 DEF K!SettingOK, K!TypeOK, CaptureFits, K!Reading, Seen, K!Shown, K!Listing,
       ContentFits
  <2>. QED  BY <2>1, <2>2
<1>3. ContentFits'
  BY DEF K!SettingOK, K!TypeOK, ContentFits, Fits, CaptureFits, K!Reading, Seen,
     K!Shown, K!Statuses
<1>4. K!DifferencesAreReal'
  BY DEF K!SettingOK, K!TypeOK, K!DifferencesAreReal, ContentFits, Fits, CaptureFits,
     Seen, K!Shown, K!Reading, K!Statuses
<1>. QED  BY <1>1, <1>2, <1>3, <1>4

LEMMA BackupsReportKeeps ==
  ASSUME K!SettingOK, BackupsInv, K!Report
  PROVE  BackupsInv'
<1>. USE DEF BackupsInv, K!Report, K!Difference, K!Fault
<1>1. K!TypeOK'  BY DEF K!SettingOK, K!TypeOK, K!Ats, K!Listing, K!Versions, K!Statuses,
                    K!Reading
<1>2. CaptureFits'
  BY DEF K!SettingOK, K!TypeOK, CaptureFits, K!Reading, Seen, K!Shown, K!Listing, ContentFits
<1>3. ContentFits'
  BY DEF K!SettingOK, K!TypeOK, ContentFits, Fits, CaptureFits, K!Reading, Seen,
     K!Shown, K!Statuses
<1>4. K!DifferencesAreReal'
  BY DEF K!SettingOK, K!TypeOK, K!DifferencesAreReal, ContentFits, Fits, CaptureFits,
     Seen, K!Shown, K!Reading, K!Statuses
<1>. QED  BY <1>1, <1>2, <1>3, <1>4

LEMMA BackupsCrashKeeps ==
  ASSUME K!SettingOK, BackupsInv, K!Crash
  PROVE  BackupsInv'
<1>. USE DEF BackupsInv, K!Crash, K!Fault
<1>1. K!TypeOK'  BY DEF K!SettingOK, K!TypeOK, K!Ats, K!Listing, K!Versions, K!Statuses,
                    K!Reading
<1>2. CaptureFits'
  BY DEF K!SettingOK, K!TypeOK, CaptureFits, K!Reading, Seen, K!Shown, K!Listing, ContentFits
<1>3. ContentFits'
  BY DEF K!SettingOK, K!TypeOK, ContentFits, Fits, CaptureFits, K!Reading, Seen,
     K!Shown, K!Statuses
<1>4. K!DifferencesAreReal'
  BY DEF K!SettingOK, K!TypeOK, K!DifferencesAreReal, ContentFits, Fits, CaptureFits,
     Seen, K!Shown, K!Reading, K!Statuses
<1>. QED  BY <1>1, <1>2, <1>3, <1>4

LEMMA BackupsStep == K!SettingOK /\ BackupsInv /\ [K!Next]_(K!vars) => BackupsInv'
<1>. SUFFICES ASSUME K!SettingOK, BackupsInv, [K!Next]_(K!vars) PROVE BackupsInv'
  OBVIOUS
<1>1. CASE \E f \in Files : K!Change(f)
  BY <1>1, BackupsChangeKeeps
<1>2. CASE \E f \in Files : K!Test(f)
  BY <1>2, BackupsTestKeeps
<1>3. CASE \E f \in Files : K!Read(f)
  BY <1>3, BackupsReadKeeps
<1>4. CASE K!Backup
  BY <1>4, BackupsBackupKeeps
<1>5. CASE K!Captured
  BY <1>5, BackupsCapturedKeeps
<1>6. CASE K!Store
  BY <1>6, BackupsStoreKeeps
<1>7. CASE K!Describe
  BY <1>7, BackupsDescribeKeeps
<1>8. CASE K!Note
  BY <1>8, BackupsNoteKeeps
<1>9. CASE K!Commands
  BY <1>9, BackupsCommandsKeeps
<1>10. CASE K!Compare
  BY <1>10, BackupsCompareKeeps
<1>11. CASE K!Current
  BY <1>11, BackupsCurrentKeeps
<1>12. CASE K!Report
  BY <1>12, BackupsReportKeeps
<1>13. CASE K!Crash
  BY <1>13, BackupsCrashKeeps
<1>14. CASE UNCHANGED K!vars
  <2>. USE <1>14 DEF K!vars, BackupsInv
  <2>1. K!TypeOK'
    BY DEF K!TypeOK
  <2>2. CaptureFits' /\ ContentFits' /\ K!DifferencesAreReal'
    BY DEF CaptureFits, ContentFits, K!DifferencesAreReal, Seen, Fits, K!Shown,
       K!Reading
  <2>. QED  BY <2>1, <2>2
<1>. QED  BY <1>1, <1>2, <1>3, <1>4, <1>5, <1>6, <1>7, <1>8, <1>9, <1>10, <1>11, <1>12,
             <1>13, <1>14 DEF K!Next

LEMMA BackupsRuns ==
  ASSUME [OperationsNext]_allVars, scenario' = "backups"
  PROVE  scenario = "backups" /\ [K!Next]_(K!vars)
<1>1. CASE OperationsNext
  BY <1>1 DEF OperationsNext
<1>2. CASE UNCHANGED allVars
  BY <1>2 DEF allVars, shared, ofBackups, K!vars
<1>. QED  BY <1>1, <1>2

LEMMA BackupsAlways == OperationsSpec => [](scenario = "backups" => BackupsInv)
<1>1. OperationsInit => (scenario = "backups" => BackupsInv)
  BY SettingsOK, BackupsInit DEF OperationsInit
<1>2. (scenario = "backups" => BackupsInv) /\ [OperationsNext]_allVars
        => (scenario = "backups" => BackupsInv)'
  BY SettingsOK, BackupsRuns, BackupsStep
<1>. QED  BY <1>1, <1>2, PTL DEF OperationsSpec

(* For any files and bounds: a backup shown as completed holds of each file *)
(* a version that it had meanwhile, and what a comparison reports is true   *)
(* of versions that the file had; only files that the exit status of a      *)
(* capture overtook are shown as missing without a word.                    *)
THEOREM BackupsCorrect == OperationsSpec => []BackupsHold
<1>1. (scenario = "backups" => BackupsInv) => BackupsHold
  BY DEF BackupsInv, BackupsHold, K!BackupsHold, K!CompleteIsWhole, ContentFits, Fits
<1>. QED  BY <1>1, BackupsAlways, PTL

-------------------------------------------------------------------------------
(* Logging                                                                  *)

(* What the component counts is what the library's theorems are about.      *)
LEMMA LogFinite == \A S : L!IsFiniteSet(S) <=> IsFiniteSet(S)
BY DEF L!IsFiniteSet, IsFiniteSet

LEMMA LogCount == \A S : L!Cardinality(S) = Cardinality(S)
BY DEF L!Cardinality, Cardinality, L!IsFiniteSet, IsFiniteSet

(* There is at most one object, and every thread past creation has it.      *)
LogOne ==
  /\ instance \in {0, 1} /\ Len(object) = instance
  /\ \A t \in Threads :
       thread[t].at \notin {"away", "unseen"} => thread[t].self = 1 /\ instance = 1

Console(n, level) == [kind |-> "console", no |-> n, level |-> level]
File(n, level) == [kind |-> "file", no |-> n, level |-> level]

(* The handlers are a pair of the level that was configured, or none.       *)
LogPaired ==
  /\ instance = 0 => handlers = <<>>
  /\ instance = 1 =>
       IF object[1].configured
       THEN \E n \in 1..MaxOpens :
              handlers = <<Console(n, object[1].level), File(n, object[1].level)>>
       ELSE handlers = <<>>
  /\ L!Attached \subseteq open

LogInv == L!TypeOK /\ LogOne /\ LogPaired

(* The initial states *)

LEMMA LogObjectExcept ==
  ASSUME NEW s \in Seq(L!Object), Len(s) = 1, NEW o \in L!Object
  PROVE  /\ [s EXCEPT ![1] = o] \in Seq(L!Object) /\ Len([s EXCEPT ![1] = o]) = 1
         /\ [s EXCEPT ![1] = o][1] = o
BY ExceptSeq

(* The handlers that are attached                                           *)
LEMMA LogNoneAttached == handlers = <<>> => L!Attached = {} /\ Len(handlers) = 0
BY DEF L!Attached

LEMMA LogPairAttached ==
  ASSUME NEW n, NEW level, handlers = <<Console(n, level), File(n, level)>>
  PROVE  /\ L!Attached = {Console(n, level), File(n, level)}
         /\ Len(handlers) = 2 /\ handlers[1] = Console(n, level)
              /\ handlers[2] = File(n, level)
<1>1. DOMAIN handlers = {1, 2} /\ handlers[1] = Console(n, level)
        /\ handlers[2] = File(n, level)
  OBVIOUS
<1>. QED  BY <1>1 DEF L!Attached

LEMMA LogExactInv == L!SettingOK /\ LogInv => L!HandlersExact
<1>. SUFFICES ASSUME L!SettingOK, LogInv PROVE L!HandlersExact
  OBVIOUS
<1>. USE DEF LogInv
<1>1. DOMAIN object = 1..instance
  BY LenProperties DEF L!TypeOK, LogOne
<1>2. CASE handlers = <<>>
  <2>1. {h.kind : h \in L!Attached} = {}
    BY <1>2, LogNoneAttached
  <2>2. Len(handlers) = Cardinality({h.kind : h \in L!Attached})
    BY <1>2, <2>1, LogNoneAttached, FS_EmptySet
  <2>3. \A n \in DOMAIN object : ~object[n].configured
    <3>1. ASSUME instance = 1, object[1].configured PROVE FALSE
      <4>1. PICK n \in 1..MaxOpens :
              handlers = <<Console(n, object[1].level), File(n, object[1].level)>>
        BY <3>1 DEF LogPaired
      <4>. QED  BY <1>2, <4>1, LogPairAttached, LogNoneAttached
    <3>. QED  BY <1>1, <3>1 DEF LogOne
  <2>. QED  BY LogCount, <1>2, <2>2, <2>3 DEF L!HandlersExact, LogPaired
<1>3. CASE instance = 1 /\ object[1].configured
  <2>1. PICK n \in 1..MaxOpens :
          handlers = <<Console(n, object[1].level), File(n, object[1].level)>>
    BY <1>3 DEF LogPaired
  <2>2. {h.kind : h \in L!Attached} = {"console", "file"}
    BY <2>1, LogPairAttached DEF Console, File
  <2>3. Cardinality({"console", "file"}) = 2
    <3>1. IsFiniteSet({}) /\ Cardinality({}) = 0
      BY FS_EmptySet
    <3>2. IsFiniteSet({"console"}) /\ Cardinality({"console"}) = 1
      BY FS_Singleton
    <3>3. "file" \notin {"console"} /\ {"console", "file"} = {"console"} \cup {"file"}
      OBVIOUS
    <3>. QED  BY <3>2, <3>3, FS_AddElement
  <2>4. Len(handlers) = 2 /\ \A h \in L!Attached : h.level = object[1].level
    BY <2>1, LogPairAttached DEF Console, File
  <2>5. DOMAIN object = {1}
    BY <1>1, <1>3
  <2>6. L!Attached \subseteq open
    BY DEF LogPaired
  <2>. QED  BY LogCount, <1>3, <2>2, <2>3, <2>4, <2>5, <2>6, LogPairAttached, <2>1 DEF L!HandlersExact
<1>. QED  BY <1>2, <1>3 DEF LogOne, LogPaired

LEMMA LogInit == L!SettingOK /\ L!Init => LogInv
<1>. SUFFICES ASSUME L!SettingOK, L!Init PROVE LogInv
  OBVIOUS
<1>1. 0 <= Cardinality(Threads)
  BY LogFinite, FS_CardinalityType DEF L!SettingOK
<1>2. L!TypeOK
  <2>1. object \in Seq(L!Object) /\ Len(object) = 0 /\ handlers \in Seq(L!Handler)
    BY DEF L!Init
  <2>2. opens \in 0..MaxOpens /\ faults \in 0..MaxFaults["logger"]
    BY DEF L!Init, L!SettingOK
  <2>. QED  BY LogCount, <1>1, <2>1, <2>2 DEF L!Init, L!TypeOK, L!Ats
<1>3. LogOne /\ LogPaired
  BY DEF L!Init, LogOne, LogPaired, L!Attached
<1>. QED  BY <1>2, <1>3 DEF LogInv

(* The steps *)

LEMMA LogLookKeeps ==
  ASSUME L!SettingOK, LogInv, NEW t \in Threads, L!Look(t)
  PROVE  LogInv'
<1>. USE DEF LogInv, L!Look
<1>1. L!TypeOK'  BY DEF L!SettingOK, L!TypeOK, LogOne, L!Object, L!Ats, L!Levels
<1>2. LogOne'  BY DEF L!SettingOK, L!TypeOK, LogOne
<1>3. LogPaired'  BY DEF L!SettingOK, L!TypeOK, LogOne, LogPaired, L!Attached, L!Object
<1>. QED  BY <1>1, <1>2, <1>3

LEMMA LogCreateKeeps ==
  ASSUME L!SettingOK, LogInv, NEW t \in Threads, L!Create(t)
  PROVE  LogInv'
<1>. USE DEF LogInv, L!Create, L!New
<1>1. L!TypeOK'
  <2>1. Cardinality(Threads) \in Nat /\ Cardinality(Threads) # 0
    BY LogFinite, FS_CardinalityType, FS_EmptySet DEF L!SettingOK
  <2>2. L!New \in L!Object
    BY DEF L!Object, L!Levels
  <2>3. object' \in Seq(L!Object) /\ Len(object') = 1 /\ instance' = 1
    <3>1. CASE instance = 0
      BY <2>2, <3>1, AppendProperties DEF L!TypeOK, LogOne
    <3>2. CASE instance = 1
      BY <3>2 DEF L!TypeOK, LogOne
    <3>. QED  BY <3>1, <3>2 DEF LogOne
  <2>4. thread' \in [Threads -> [at : L!Ats, self : 0..Len(object'),
          holds : SUBSET L!Handler]]
    <3>1. Len(object) <= 1
      BY DEF LogOne
    <3>2. 0..Len(object) \subseteq 0..1 /\ 0..Len(object') = 0..1
      BY <2>3, <3>1 DEF LogOne
    <3>4. ASSUME NEW u \in Threads
          PROVE  thread[u] \in [at : L!Ats, self : 0..1, holds : SUBSET L!Handler]
      <4>1. thread[u] \in [at : L!Ats, self : 0..Len(object), holds : SUBSET L!Handler]
        BY DEF L!TypeOK
      <4>. QED  BY <3>2, <4>1
    <3>5. thread \in [Threads -> [at : L!Ats, self : 0..1, holds : SUBSET L!Handler]]
      BY <3>4 DEF L!TypeOK
    <3>6. /\ thread[t] \in [at : L!Ats, self : 0..1, holds : SUBSET L!Handler]
          /\ "created" \in L!Ats /\ instance' \in 0..1
      BY <2>3, <3>4 DEF L!Ats
    <3>3. /\ [thread[t] EXCEPT !.at = "created", !.self = instance']
               \in [at : L!Ats, self : 0..1, holds : SUBSET L!Handler]
          /\ thread \in [Threads -> [at : L!Ats, self : 0..1, holds : SUBSET L!Handler]]
      BY <3>5, <3>6
    <3>. QED  BY <3>2, <3>3, <2>3
  <2>. QED  BY LogCount, <2>1, <2>3, <2>4 DEF L!TypeOK
<1>2. LogOne'  BY DEF L!SettingOK, L!TypeOK, LogOne
<1>3. LogPaired'  BY DEF L!SettingOK, L!TypeOK, LogOne, LogPaired, L!Attached, L!Object
<1>. QED  BY <1>1, <1>2, <1>3

LEMMA LogInitializeKeeps ==
  ASSUME L!SettingOK, LogInv, NEW t \in Threads, L!Initialize(t)
  PROVE  LogInv'
<1>. USE DEF LogInv, L!Mine
<1>a. /\ thread[t].self = 1 /\ instance = 1 /\ object \in Seq(L!Object) /\ Len(object) = 1
      /\ object[1] \in L!Object /\ L!Mine(t) = object[1]
      /\ thread[t] \in [at : L!Ats, self : 0..1, holds : SUBSET L!Handler]
  <2>1. thread[t].self = 1 /\ instance = 1 /\ object \in Seq(L!Object) /\ Len(object) = 1
    BY DEF LogOne, L!TypeOK, L!Initialize
  <2>2. object[1] \in L!Object
    <3>1. 1 \in 1..Len(object)
      BY <2>1
    <3>. QED  BY <2>1, <3>1, ElementOfSeq
  <2>3. thread[t] \in [at : L!Ats, self : 0..1, holds : SUBSET L!Handler]
    BY <2>1 DEF L!TypeOK
  <2>. QED  BY <2>1, <2>2, <2>3 DEF L!Mine
<1>b. /\ UNCHANGED <<instance, handlers, open, opens>>
      /\ \/ /\ object' = [object EXCEPT ![1] = [object[1] EXCEPT !.initialized = TRUE]]
            /\ thread' = [thread EXCEPT ![t].at = "ready"] /\ faults' = faults
         \/ /\ faults' \in 0..MaxFaults["logger"]
                 /\ thread' = [thread EXCEPT ![t].at = "away"]
            /\ object' = object
  BY <1>a DEF L!Initialize, L!Fails, L!TypeOK, L!SettingOK
<1>c. /\ object' \in Seq(L!Object) /\ Len(object') = 1
      /\ object'[1].configured = object[1].configured /\ object'[1].level = object[1].level
  <2>1. [object[1] EXCEPT !.initialized = TRUE] \in L!Object
    BY <1>a DEF L!Object
  <2>2. /\ [object[1] EXCEPT !.initialized = TRUE].configured = object[1].configured
        /\ [object[1] EXCEPT !.initialized = TRUE].level = object[1].level
    BY <1>a DEF L!Object
  <2>3. /\ [object EXCEPT ![1] = [object[1] EXCEPT !.initialized = TRUE]] \in Seq(L!Object)
        /\ Len([object EXCEPT ![1] = [object[1] EXCEPT !.initialized = TRUE]]) = 1
        /\ [object EXCEPT ![1] = [object[1] EXCEPT !.initialized = TRUE]][1]
             = [object[1] EXCEPT !.initialized = TRUE]
    BY <1>a, <2>1, LogObjectExcept
  <2>4. \/ object' = [object EXCEPT ![1] = [object[1] EXCEPT !.initialized = TRUE]]
        \/ object' = object
    BY <1>b
  <2>. QED  BY <1>a, <2>2, <2>3, <2>4
<1>1. L!TypeOK'
  BY <1>a, <1>b, <1>c DEF L!TypeOK, L!Ats, LogOne
<1>2. LogOne'  BY <1>a, <1>b, <1>c DEF L!SettingOK, L!TypeOK, LogOne
<1>3. LogPaired'  BY <1>a, <1>b, <1>c DEF L!SettingOK, L!TypeOK, LogOne, LogPaired,
                     L!Attached, L!Object
<1>. QED  BY <1>1, <1>2, <1>3

LEMMA LogAskKeeps ==
  ASSUME L!SettingOK, LogInv, NEW t \in Threads, L!Ask(t)
  PROVE  LogInv'
<1>. USE DEF LogInv, L!Ask
<1>1. L!TypeOK'  BY DEF L!SettingOK, L!TypeOK, LogOne, L!Object, L!Ats, L!Levels
<1>2. LogOne'  BY DEF L!SettingOK, L!TypeOK, LogOne
<1>3. LogPaired'  BY DEF L!SettingOK, L!TypeOK, LogOne, LogPaired, L!Attached, L!Object
<1>. QED  BY <1>1, <1>2, <1>3

LEMMA LogGetKeeps ==
  ASSUME L!SettingOK, LogInv, NEW t \in Threads, L!Get(t)
  PROVE  LogInv'
<1>. USE DEF LogInv, L!Mine
<1>a. /\ thread[t].self = 1 /\ instance = 1 /\ object \in Seq(L!Object) /\ Len(object) = 1
      /\ object[1] \in L!Object /\ L!Mine(t) = object[1]
      /\ thread[t] \in [at : L!Ats, self : 0..1, holds : SUBSET L!Handler]
  <2>1. thread[t].self = 1 /\ instance = 1 /\ object \in Seq(L!Object) /\ Len(object) = 1
    BY DEF LogOne, L!TypeOK, L!Get
  <2>2. object[1] \in L!Object
    <3>1. 1 \in 1..Len(object)
      BY <2>1
    <3>. QED  BY <2>1, <3>1, ElementOfSeq
  <2>3. thread[t] \in [at : L!Ats, self : 0..1, holds : SUBSET L!Handler]
    BY <2>1 DEF L!TypeOK
  <2>. QED  BY <2>1, <2>2, <2>3 DEF L!Mine
<1>b. /\ instance' = instance
      /\ thread' = [thread EXCEPT ![t].at = thread'[t].at] /\ thread'[t].at \in L!Ats
  BY <1>a DEF L!Get, L!Ats, L!TypeOK
<1>c. \/ UNCHANGED <<opens, handlers, open, object, faults>>
      \/ /\ opens' = opens + 1 /\ opens' \in 1..MaxOpens /\ ~object[1].configured
         /\ \/ /\ handlers' = handlers \o <<Console(opens', object[1].level),
                    File(opens', object[1].level)>>
               /\ open' = open \cup {Console(opens', object[1].level),
                    File(opens', object[1].level)}
               /\ object' = [object EXCEPT ![1] = [object[1] EXCEPT !.configured = TRUE]]
               /\ faults' = faults
            \/ faults' \in 0..MaxFaults["logger"] /\ UNCHANGED <<handlers, open, object>>
  <2>1. CASE object[1].configured
    BY <1>a, <2>1 DEF L!Get
  <2>2. CASE ~object[1].configured
    <3>1. L!Attach(t)
      BY <1>a, <2>2 DEF L!Get
    <3>2. opens' = opens + 1 /\ opens' \in 1..MaxOpens
      BY <3>1 DEF L!Attach, L!TypeOK, L!SettingOK
    <3>3. L!Fails => faults' \in 0..MaxFaults["logger"]
      BY DEF L!Fails, L!TypeOK, L!SettingOK
    <3>4. [[kind |-> "console", no |-> opens',
            level |-> object[1].level] EXCEPT !.kind = "file"]
            = File(opens', object[1].level)
      BY DEF File
    <3>. QED  BY <1>a, <2>2, <3>1, <3>2, <3>3, <3>4 DEF L!Attach, Console
  <2>. QED  BY <2>1, <2>2
<1>d. object' = [object EXCEPT ![1] = [object[1] EXCEPT !.configured = TRUE]] =>
        /\ object' \in Seq(L!Object) /\ Len(object') = 1
        /\ object'[1].configured = TRUE /\ object'[1].level = object[1].level
  <2>1. [object[1] EXCEPT !.configured = TRUE] \in L!Object
    BY <1>a DEF L!Object
  <2>. QED  BY <1>a, <2>1, LogObjectExcept DEF L!Object
<1>e. Console(opens', object[1].level) \in [kind : {"console", "file"}, no : {opens'},
        level : L!Levels]
      /\ File(opens', object[1].level) \in [kind : {"console", "file"}, no : {opens'},
           level : L!Levels]
  BY <1>a DEF L!Object, Console, File
<1>1. L!TypeOK'
  <2>1. /\ opens' \in 0..MaxOpens /\ faults' \in 0..MaxFaults["logger"]
    BY <1>c DEF L!TypeOK, L!SettingOK
  <2>2. object' \in Seq(L!Object) /\ Len(object') = 1
    BY <1>a, <1>c, <1>d
  <2>3. handlers' \in Seq(L!Handler) /\ open' \subseteq L!Handler
    <3>1. opens' \in 1..MaxOpens =>
            Console(opens', object[1].level) \in L!Handler
              /\ File(opens', object[1].level) \in L!Handler
      BY <1>e DEF L!Handler
    <3>2. UNCHANGED <<handlers, open>> \/
          /\ opens' \in 1..MaxOpens
          /\ handlers' = handlers \o <<Console(opens', object[1].level),
               File(opens', object[1].level)>>
          /\ open' = open \cup {Console(opens', object[1].level),
               File(opens', object[1].level)}
      BY <1>c
    <3>3. opens' \in 1..MaxOpens =>
            <<Console(opens', object[1].level),
              File(opens', object[1].level)>> \in Seq(L!Handler)
      BY <3>1
    <3>. QED  BY <3>1, <3>2, <3>3, ConcatProperties DEF L!TypeOK
  <2>4. thread' \in [Threads -> [at : L!Ats, self : 0..Len(object'),
          holds : SUBSET L!Handler]]
    BY <1>a, <1>b, <2>2 DEF L!TypeOK
  <2>5. Len(object') <= Cardinality(Threads) /\ instance' \in 0..Len(object')
    BY LogCount, <1>a, <1>b, <2>2 DEF L!TypeOK
  <2>. QED  BY LogCount, <2>1, <2>2, <2>3, <2>4, <2>5 DEF L!TypeOK
<1>2. LogOne'
  <2>1. \A u \in Threads : thread'[u].self = thread[u].self
          /\ (u # t => thread'[u] = thread[u])
    BY <1>a, <1>b DEF L!TypeOK
  <2>2. Len(object') = 1
    BY <1>a, <1>c, <1>d
  <2>. QED  BY <1>a, <1>b, <2>1, <2>2 DEF LogOne
<1>3. LogPaired'
  <2>1. CASE UNCHANGED <<opens, handlers, open, object, faults>>
    BY <1>b, <2>1 DEF LogPaired, L!Attached
  <2>2. CASE UNCHANGED <<handlers, open, object>>
    BY <1>b, <2>2 DEF LogPaired, L!Attached
  <2>3. CASE /\ opens' \in 1..MaxOpens /\ ~object[1].configured
             /\ handlers' = handlers \o <<Console(opens', object[1].level),
                  File(opens', object[1].level)>>
             /\ open' = open \cup {Console(opens', object[1].level),
                  File(opens', object[1].level)}
             /\ object' = [object EXCEPT ![1] = [object[1] EXCEPT !.configured = TRUE]]
    <3>1. handlers = <<>>
      BY <1>a, <2>3 DEF LogPaired
    <3>2. handlers' = <<Console(opens', object[1].level), File(opens', object[1].level)>>
      BY <2>3, <3>1
    <3>3. L!Attached' = {Console(opens', object[1].level), File(opens', object[1].level)}
      <4>1. DOMAIN handlers' = {1, 2} /\ handlers'[1] = Console(opens', object[1].level)
            /\ handlers'[2] = File(opens', object[1].level)
        BY <3>2
      <4>. QED  BY <4>1 DEF L!Attached
    <3>. QED  BY <1>a, <1>b, <1>d, <2>3, <3>2, <3>3 DEF LogPaired
  <2>. QED  BY <1>c, <2>1, <2>2, <2>3
<1>. QED  BY <1>1, <1>2, <1>3

LEMMA LogEmitKeeps ==
  ASSUME L!SettingOK, LogInv, NEW t \in Threads, L!Emit(t)
  PROVE  LogInv'
<1>. USE DEF LogInv, L!Emit
<1>1. L!TypeOK'
  <2>1. L!Attached \subseteq L!Handler
    BY DEF L!TypeOK, L!Attached
  <2>. QED  BY <2>1 DEF L!TypeOK
<1>2. LogOne'  BY DEF L!SettingOK, L!TypeOK, LogOne
<1>3. LogPaired'  BY DEF L!SettingOK, L!TypeOK, LogOne, LogPaired, L!Attached, L!Object
<1>. QED  BY <1>1, <1>2, <1>3

LEMMA LogWriteKeeps ==
  ASSUME L!SettingOK, LogInv, NEW t \in Threads, L!Write(t)
  PROVE  LogInv'
<1>. USE DEF LogInv, L!Write
<1>1. L!TypeOK'  BY DEF L!SettingOK, L!TypeOK, LogOne, L!Object, L!Ats, L!Levels
<1>2. LogOne'  BY DEF L!SettingOK, L!TypeOK, LogOne
<1>3. LogPaired'  BY DEF L!SettingOK, L!TypeOK, LogOne, LogPaired, L!Attached, L!Object
<1>. QED  BY <1>1, <1>2, <1>3

LEMMA LogShutdownKeeps ==
  ASSUME L!SettingOK, LogInv, NEW t \in Threads, L!Shutdown(t)
  PROVE  LogInv'
<1>. USE DEF LogInv, L!Mine
<1>a. /\ thread[t].self = 1 /\ instance = 1 /\ object \in Seq(L!Object) /\ Len(object) = 1
      /\ object[1] \in L!Object /\ L!Mine(t) = object[1]
      /\ thread[t] \in [at : L!Ats, self : 0..1, holds : SUBSET L!Handler]
  <2>1. thread[t].self = 1 /\ instance = 1 /\ object \in Seq(L!Object) /\ Len(object) = 1
    BY DEF LogOne, L!TypeOK, L!Shutdown
  <2>2. object[1] \in L!Object
    <3>1. 1 \in 1..Len(object)
      BY <2>1
    <3>. QED  BY <2>1, <3>1, ElementOfSeq
  <2>3. thread[t] \in [at : L!Ats, self : 0..1, holds : SUBSET L!Handler]
    BY <2>1 DEF L!TypeOK
  <2>. QED  BY <2>1, <2>2, <2>3 DEF L!Mine
<1>b. /\ instance' = instance /\ opens' = opens /\ faults' \in 0..MaxFaults["logger"]
      /\ thread' = [thread EXCEPT ![t].at = "away"]
      /\ object' = [object EXCEPT ![1] = [object[1] EXCEPT !.configured = FALSE]]
  BY <1>a DEF L!Shutdown, L!Fails, L!TypeOK, L!SettingOK
<1>c. /\ object' \in Seq(L!Object) /\ Len(object') = 1 /\ object'[1].configured = FALSE
  <2>1. [object[1] EXCEPT !.configured = FALSE] \in L!Object
    BY <1>a DEF L!Object
  <2>. QED  BY <1>a, <1>b, <2>1, LogObjectExcept DEF L!Object
<1>d. handlers' = <<>> /\ open' \subseteq open
  <2>1. PICK k \in 0..Len(handlers) :
          /\ k = Len(handlers) \/ (k > 0 /\ handlers[k].kind = "file")
          /\ handlers' = SubSeq(handlers, k + 1, Len(handlers))
               /\ open' = open \ L!Taken(handlers, k)
    BY DEF L!Shutdown
  <2>2. CASE handlers = <<>>
    BY <2>1, <2>2
  <2>3. CASE object[1].configured
    <3>1. PICK n \in 1..MaxOpens :
            handlers = <<Console(n, object[1].level), File(n, object[1].level)>>
      BY <1>a, <2>3 DEF LogPaired
    <3>2. k = 2
      BY <2>1, <3>1, LogPairAttached DEF Console
    <3>. QED  BY <2>1, <3>1, <3>2
  <2>. QED  BY <1>a, <2>1, <2>2, <2>3 DEF LogPaired
<1>1. L!TypeOK'
  <2>1. thread' \in [Threads -> [at : L!Ats, self : 0..Len(object'),
          holds : SUBSET L!Handler]]
    BY <1>a, <1>b, <1>c DEF L!TypeOK, L!Ats
  <2>2. handlers' \in Seq(L!Handler) /\ open' \subseteq L!Handler
    BY <1>d DEF L!TypeOK
  <2>3. Len(object') <= Cardinality(Threads) /\ instance' \in 0..Len(object')
    BY LogCount, <1>a, <1>b, <1>c DEF L!TypeOK
  <2>4. opens' \in 0..MaxOpens
    BY <1>b DEF L!TypeOK
  <2>. QED  BY LogCount, <1>b, <1>c, <2>1, <2>2, <2>3, <2>4 DEF L!TypeOK
<1>2. LogOne'  BY <1>a, <1>b, <1>c, <1>d DEF L!SettingOK, L!TypeOK, LogOne
<1>3. LogPaired'
  BY <1>a, <1>b, <1>c, <1>d DEF LogPaired, L!Attached
<1>. QED  BY <1>1, <1>2, <1>3

LEMMA LogConfigureKeeps ==
  ASSUME L!SettingOK, LogInv, NEW t \in Threads, NEW level \in L!Levels,
           L!Configure(t, level)
  PROVE  LogInv'
<1>. USE DEF LogInv, L!Mine
<1>a. /\ thread[t].self = 1 /\ instance = 1 /\ object \in Seq(L!Object) /\ Len(object) = 1
      /\ object[1] \in L!Object /\ L!Mine(t) = object[1]
      /\ thread[t] \in [at : L!Ats, self : 0..1, holds : SUBSET L!Handler]
  <2>1. thread[t].self = 1 /\ instance = 1 /\ object \in Seq(L!Object) /\ Len(object) = 1
    BY DEF LogOne, L!TypeOK, L!Configure
  <2>2. object[1] \in L!Object
    <3>1. 1 \in 1..Len(object)
      BY <2>1
    <3>. QED  BY <2>1, <3>1, ElementOfSeq
  <2>3. thread[t] \in [at : L!Ats, self : 0..1, holds : SUBSET L!Handler]
    BY <2>1 DEF L!TypeOK
  <2>. QED  BY <2>1, <2>2, <2>3 DEF L!Mine
<1>b. /\ UNCHANGED <<instance, handlers, open, opens, thread>> /\ ~object[1].configured
      /\ \/ object' = [object EXCEPT ![1] = [object[1] EXCEPT !.level = level]]
              /\ faults' = faults
         \/ faults' \in 0..MaxFaults["logger"] /\ object' = object
  BY <1>a DEF L!Configure, L!Fails, L!TypeOK, L!SettingOK
<1>c. /\ object' \in Seq(L!Object) /\ Len(object') = 1
      /\ object'[1].configured = object[1].configured
  <2>1. [object[1] EXCEPT !.level = level] \in L!Object
    BY <1>a DEF L!Object
  <2>2. [object[1] EXCEPT !.level = level].configured = object[1].configured
    BY <1>a DEF L!Object
  <2>3. /\ [object EXCEPT ![1] = [object[1] EXCEPT !.level = level]] \in Seq(L!Object)
        /\ Len([object EXCEPT ![1] = [object[1] EXCEPT !.level = level]]) = 1
        /\ [object EXCEPT ![1] = [object[1] EXCEPT !.level = level]][1]
             = [object[1] EXCEPT !.level = level]
    BY <1>a, <2>1, LogObjectExcept
  <2>4. \/ object' = [object EXCEPT ![1] = [object[1] EXCEPT !.level = level]]
        \/ object' = object
    BY <1>b
  <2>. QED  BY <1>a, <2>2, <2>3, <2>4
<1>1. L!TypeOK'
  BY <1>a, <1>b, <1>c DEF L!TypeOK, L!Ats, LogOne
<1>2. LogOne'  BY <1>a, <1>b, <1>c DEF L!SettingOK, L!TypeOK, LogOne
<1>3. LogPaired'  BY <1>a, <1>b, <1>c DEF L!SettingOK, L!TypeOK, LogOne, LogPaired,
                     L!Attached, L!Object
<1>. QED  BY <1>1, <1>2, <1>3

LEMMA LogStep == L!SettingOK /\ LogInv /\ [L!Next]_(L!vars) => LogInv'
<1>. SUFFICES ASSUME L!SettingOK, LogInv, [L!Next]_(L!vars) PROVE LogInv'
  OBVIOUS
<1>1. CASE \E t \in Threads : L!Look(t)
  BY <1>1, LogLookKeeps
<1>2. CASE \E t \in Threads : L!Create(t)
  BY <1>2, LogCreateKeeps
<1>3. CASE \E t \in Threads : L!Initialize(t)
  BY <1>3, LogInitializeKeeps
<1>4. CASE \E t \in Threads : L!Ask(t)
  BY <1>4, LogAskKeeps
<1>5. CASE \E t \in Threads : L!Get(t)
  BY <1>5, LogGetKeeps
<1>6. CASE \E t \in Threads : L!Emit(t)
  BY <1>6, LogEmitKeeps
<1>7. CASE \E t \in Threads : L!Write(t)
  BY <1>7, LogWriteKeeps
<1>8. CASE \E t \in Threads : L!Shutdown(t)
  BY <1>8, LogShutdownKeeps
<1>9. CASE \E t \in Threads, level \in L!Levels : L!Configure(t, level)
  BY <1>9, LogConfigureKeeps
<1>10. CASE UNCHANGED L!vars
  <2>. USE <1>10 DEF L!vars, LogInv
  <2>1. L!TypeOK'
    BY DEF L!TypeOK
  <2>2. LogOne' /\ LogPaired'
    BY DEF LogOne, LogPaired, L!Attached
  <2>. QED  BY <2>1, <2>2
<1>. QED  BY <1>1, <1>2, <1>3, <1>4, <1>5, <1>6, <1>7, <1>8, <1>9, <1>10 DEF L!Next

LEMMA LogRuns ==
  ASSUME [OperationsNext]_allVars, scenario' = "logger"
  PROVE  scenario = "logger" /\ [L!Next]_(L!vars)
<1>1. CASE OperationsNext
  BY <1>1 DEF OperationsNext
<1>2. CASE UNCHANGED allVars
  BY <1>2 DEF allVars, shared, ofLogger, L!vars
<1>. QED  BY <1>1, <1>2

LEMMA LogAlways == OperationsSpec => [](scenario = "logger" => LogInv)
<1>1. OperationsInit => (scenario = "logger" => LogInv)
  BY SettingsOK, LogInit DEF OperationsInit
<1>2. (scenario = "logger" => LogInv) /\ [OperationsNext]_allVars
        => (scenario = "logger" => LogInv)'
  BY SettingsOK, LogRuns, LogStep
<1>. QED  BY <1>1, <1>2, PTL DEF OperationsSpec

(* For any threads, over failures to open and shutdown: while the manager   *)
(* is configured it has one handler of each kind, open and of the           *)
(* configured level, and otherwise none.                                    *)
THEOREM HandlersCorrect == OperationsSpec => []HandlersExact
<1>1. (scenario = "logger" => LogInv) => HandlersExact
  BY SettingsOK, LogExactInv DEF HandlersExact
<1>. QED  BY <1>1, LogAlways, PTL
===============================================================================
