----------------------------- MODULE FilesProofs -----------------------------
(***************************************************************************)
(* What holds of uploaded files for any number of files, entities,         *)
(* conversations, requests, failures and restarts, and for every batch     *)
(* size: types, and the three safety properties. That a cycle ends and     *)
(* that garbage goes are left to TLC.                                      *)
(***************************************************************************)
EXTENDS Files, TLAPS

\* No request names a file that was not uploaded.
FilesKnown == \A w \in Worker : call[w].file \in used \cup {None}

LEMMA ReadyOK == Ready \in Call /\ Ready.pc = "ready" /\ Ready.file = None
BY DEF Ready, Call

\* A request that moves on leaves the others well-formed.
LEMMA CallsOK ==
  ASSUME TypeOK, FilesKnown, used \subseteq used', NEW w \in Worker, NEW r \in Call,
         CallOK(r)', r.file \in used' \cup {None}, Goto(w, r)
  PROVE  call' \in [Worker -> Call] /\ (\A v \in Worker : CallOK(call[v]))' /\ FilesKnown'
<1>1. call' = [call EXCEPT ![w] = r]
  BY DEF Goto
<1>2. call'[w] = r /\ \A v \in Worker \ {w} : call'[v] = call[v]
  BY <1>1 DEF TypeOK
<1>3. ASSUME NEW v \in Worker PROVE CallOK(call[v])' /\ call'[v].file \in used' \cup {None}
  <2>1. CASE v = w
    BY <1>2, <2>1 DEF CallOK
  <2>2. CASE v # w
    <3>1. call'[v] = call[v] /\ CallOK(call[v]) /\ call[v].file \in used \cup {None}
      BY <1>2, <2>2 DEF TypeOK, FilesKnown
    <3>2. QED
      BY <3>1 DEF CallOK
  <2>3. QED
    BY <2>1, <2>2
<1>4. call' \in [Worker -> Call]
  BY <1>1 DEF TypeOK
<1>5. QED
  BY <1>3, <1>4 DEF FilesKnown

LEMMA FinishOK ==
  ASSUME TypeOK, FilesKnown, used \subseteq used', NEW w \in Worker, Finish(w)
  PROVE  call' \in [Worker -> Call] /\ (\A v \in Worker : CallOK(call[v]))' /\ FilesKnown'
<1>1. Ready \in Call /\ CallOK(Ready)' /\ Ready.file \in used' \cup {None}
  BY ReadyOK DEF CallOK
<1>2. QED
  BY <1>1, CallsOK DEF Finish

LEMMA SameCalls ==
  ASSUME TypeOK, FilesKnown, used \subseteq used', UNCHANGED call
  PROVE  call' \in [Worker -> Call] /\ (\A v \in Worker : CallOK(call[v]))' /\ FilesKnown'
BY DEF TypeOK, FilesKnown, CallOK

LEMMA FilesInitType == Init => TypeOK /\ FilesKnown
<1> SUFFICES ASSUME Init PROVE TypeOK /\ FilesKnown
  OBVIOUS
<1>1. NoRecord \in Record /\ ~ NoRecord.stored /\ Idle \in Sweep /\ Idle.pc = "idle"
  BY DEF NoRecord, Record, Idle, Sweep
<1>2. call \in [Worker -> Call] /\ \A w \in Worker : CallOK(call[w]) /\ call[w].file = None
  BY ReadyOK DEF Init, CallOK
<1>3. Stored = {} /\ record \in [File -> Record] /\ avatar \in [Entity -> used \cup {None}]
  BY <1>1 DEF Init, Stored
<1>4. QED
  BY <1>1, <1>2, <1>3 DEF Init, TypeOK, FilesKnown

\* The cleanup goroutine: what it holds, and that it only removes.
LEMMA SweepStepType ==
  ASSUME TypeOK, FilesKnown, Sweeps
  PROVE  /\ sweep' \in Sweep /\ (sweep'.pc = "forget" => sweep'.file \in File)
         /\ UNCHANGED <<used, avatar, sent, call, missed, late, contested>>
         /\ disk' \subseteq disk /\ record' \in [File -> Record]
         /\ Stored' \subseteq Stored
         /\ \A f \in Stored' : record'[f] = record[f]
         /\ halved' \subseteq File /\ faults' \in Nat /\ restarts' \in Nat
<1>1. Avatars \subseteq File /\ Stored \subseteq File /\ disk \subseteq File
  BY DEF TypeOK, Avatars, Stored
<1>2. sweep \in Sweep
  BY DEF TypeOK
<1>3. faults' \in Nat /\ restarts' \in Nat
  <2>1. UNCHANGED bounds \/ Fault
    BY DEF Sweeps, StartSweep, FetchBatch, KeepAvatar, RemoveExpired, ForgetExpired, EndBatch,
           ListNames, ListAvatars, ReadDir, RemoveOrphan, EndSweep, Intact
  <2>2. QED
    BY <2>1 DEF Fault, bounds, TypeOK
<1>4. UNCHANGED <<used, avatar, sent, call, missed, late, contested>>
  BY DEF Sweeps, StartSweep, FetchBatch, KeepAvatar, RemoveExpired, ForgetExpired, EndBatch,
         ListNames, ListAvatars, ReadDir, RemoveOrphan, EndSweep, stores, past
<1>5. disk' \subseteq disk
  BY DEF Sweeps, StartSweep, FetchBatch, KeepAvatar, RemoveExpired, ForgetExpired, EndBatch,
         ListNames, ListAvatars, ReadDir, RemoveOrphan, EndSweep, stores, past
<1>6. ASSUME NEW f \in File, sweep.file = f,
             record' = [record EXCEPT ![f] = NoRecord] \/ UNCHANGED record
      PROVE  /\ record' \in [File -> Record] /\ Stored' \subseteq Stored
             /\ \A g \in Stored' : record'[g] = record[g]
  <2>1. NoRecord \in Record /\ ~ NoRecord.stored
    BY DEF NoRecord, Record
  <2>2. CASE UNCHANGED record
    BY <2>2 DEF TypeOK, Stored
  <2>3. CASE record' = [record EXCEPT ![f] = NoRecord]
    <3>1. record' \in [File -> Record]
      BY <2>1, <2>3 DEF TypeOK
    <3>2. \A g \in Stored' : g # f /\ record'[g] = record[g]
      BY <2>1, <2>3 DEF TypeOK, Stored
    <3>3. QED
      BY <3>1, <3>2 DEF Stored
  <2>4. QED
    BY <1>6, <2>2, <2>3
<1>7. ASSUME UNCHANGED record
      PROVE  /\ record' \in [File -> Record] /\ Stored' \subseteq Stored
             /\ \A g \in Stored' : record'[g] = record[g]
  BY <1>7 DEF TypeOK, Stored
<1>8. /\ record' \in [File -> Record] /\ Stored' \subseteq Stored
      /\ \A g \in Stored' : record'[g] = record[g]
      /\ halved' \subseteq File
  <2>1. CASE ForgetExpired
    <3>1. sweep.file \in File
      BY <2>1 DEF ForgetExpired, TypeOK
    <3>2. halved' \subseteq File
      BY <2>1, <3>1 DEF ForgetExpired, TypeOK
    <3>3. record' = [record EXCEPT ![sweep.file] = NoRecord] \/ UNCHANGED record
      BY <2>1 DEF ForgetExpired
    <3>4. QED
      BY <1>6, <3>1, <3>2, <3>3
  <2>2. CASE ~ ForgetExpired
    <3>1. UNCHANGED <<record, halved>>
      BY <2>2 DEF Sweeps, StartSweep, FetchBatch, KeepAvatar, RemoveExpired, EndBatch,
             ListNames, ListAvatars, ReadDir, RemoveOrphan, EndSweep, stores, past
    <3>2. QED
      BY <1>7, <3>1 DEF TypeOK
  <2>3. QED
    BY <2>1, <2>2
<1>9. sweep' \in Sweep /\ (sweep'.pc = "forget" => sweep'.file \in File)
  <2>0. Idle \in Sweep
    BY DEF Idle, Sweep
  <2>1. CASE StartSweep
    <3>2. QED
      BY <1>1, <2>1 DEF StartSweep, Step, Idle, Sweep, Expiring, Scanning
  <2>2. CASE FetchBatch
    BY <1>1, <1>2, <2>2 DEF FetchBatch, Move, Step, Sweep, Expiring, Scanning
  <2>3. CASE KeepAvatar \/ EndBatch
    BY <1>2, <2>3 DEF KeepAvatar, EndBatch, Move, Step, Sweep, Expiring, Scanning
  <2>4. CASE RemoveExpired
    <3>1. PICK f \in sweep.batch :
            sweep' = [sweep EXCEPT !.pc = "forget", !.file = f, !.batch = sweep.batch \ {f}]
      BY <2>4 DEF RemoveExpired, Step
    <3>2. f \in File
      BY <1>2, <3>1 DEF Sweep
    <3>3. QED
      BY <1>2, <3>1, <3>2 DEF Sweep, Expiring, Scanning
  <2>5. CASE ForgetExpired
    BY <1>2, <2>5 DEF ForgetExpired, Step, Sweep, Expiring, Scanning
  <2>6. CASE ListNames
    <3>1. sweep' = Idle \/ sweep' = [Idle EXCEPT !.pc = "avatars", !.known = Stored]
      BY <2>6 DEF ListNames, Step
    <3>2. QED
      BY <1>1, <2>0, <3>1 DEF Idle, Sweep, Expiring, Scanning
  <2>7. CASE ListAvatars
    <3>1. sweep' = Idle \/ sweep' = [sweep EXCEPT !.pc = "dir", !.known = sweep.known \cup Avatars]
      BY <2>7 DEF ListAvatars, Step
    <3>2. Idle.pc = "idle"
      BY DEF Idle
    <3>3. QED
      BY <1>1, <1>2, <2>0, <3>1, <3>2, ZenonT(40) DEF Sweep, Expiring, Scanning
  <2>8. CASE ReadDir
    <3>1. sweep' = Idle
          \/ sweep' = [sweep EXCEPT !.pc = "orphans", !.listed = disk \ sweep.known, !.known = {}]
      BY <2>8 DEF ReadDir, Step
    <3>2. Idle.pc = "idle"
      BY DEF Idle
    <3>3. QED
      BY <1>1, <1>2, <2>0, <3>1, <3>2, ZenonT(40) DEF Sweep, Expiring, Scanning
  <2>9. CASE RemoveOrphan \/ EndSweep
    BY <1>2, <2>0, <2>9 DEF RemoveOrphan, EndSweep, Step, Sweep, Expiring, Scanning, Idle
  <2>10. QED
    BY <2>1, <2>2, <2>3, <2>4, <2>5, <2>6, <2>7, <2>8, <2>9 DEF Sweeps
<1>10. QED
  BY <1>3, <1>4, <1>5, <1>8, <1>9

LEMMA FilesStepType == TypeOK /\ FilesKnown /\ [Next]_vars => (TypeOK /\ FilesKnown)'
<1> SUFFICES ASSUME TypeOK, FilesKnown, [Next]_vars PROVE (TypeOK /\ FilesKnown)'
  OBVIOUS
<1>a. Stored \subseteq used /\ used \subseteq File /\ \A f \in File : record[f] \in Record
  BY DEF TypeOK
<1>1. ASSUME NEW w \in Worker, NEW e \in Entity, NEW c \in Conv \cup {None}, NEW f \in File,
             Save(w, e, c, f)
      PROVE  (TypeOK /\ FilesKnown)'
  <2> DEFINE r == [pc |-> "record", me |-> e, file |-> f, conv |-> c]
  <2>1. used' = used \cup {f} /\ disk' = disk \cup {f} /\ UNCHANGED <<record, avatar, sent, sweep, past>>
    BY <1>1 DEF Save
  <2>2. (Goto(w, r) \/ UNCHANGED call) /\ faults' \in Nat /\ restarts' \in Nat
    BY <1>1 DEF Save, Intact, Fault, bounds, TypeOK
  <2>3. r \in Call /\ CallOK(r)' /\ r.file \in used' \cup {None}
    BY <2>1 DEF Call, CallOK
  <2> HIDE DEF r
  <2>4. call' \in [Worker -> Call] /\ (\A v \in Worker : CallOK(call[v]))' /\ FilesKnown'
    BY <2>1, <2>2, <2>3, CallsOK, SameCalls
  <2>5. QED
    BY <2>1, <2>2, <2>4 DEF TypeOK, Stored, past
<1>2. ASSUME NEW w \in Worker, StoreRecord(w) PROVE (TypeOK /\ FilesKnown)'
  <2> DEFINE r == call[w]
             row == [stored |-> TRUE, by |-> r.me, conv |-> r.conv, expired |-> FALSE]
  <2>1. r \in Call /\ r.me \in Entity /\ r.file \in used /\ row \in Record
    BY <1>2 DEF StoreRecord, TypeOK, CallOK, Call, Record
  <2>2. UNCHANGED <<disk, used, avatar, sent, sweep, halved, late, contested>>
        /\ faults' \in Nat /\ restarts' \in Nat
    BY <1>2 DEF StoreRecord, Intact, Fault, bounds, TypeOK
  <2>3. CASE /\ record' = [record EXCEPT ![r.file] = row] /\ Finish(w)
             /\ missed' \subseteq missed \cup {r.file}
    <3>1. record' \in [File -> Record] /\ Stored' \subseteq Stored \cup {r.file}
      BY <1>a, <2>1, <2>3 DEF TypeOK, Stored
    <3>2. call' \in [Worker -> Call] /\ (\A v \in Worker : CallOK(call[v]))' /\ FilesKnown'
      BY <2>2, <2>3, FinishOK
    <3>3. QED
      BY <1>a, <2>1, <2>2, <2>3, <3>1, <3>2 DEF TypeOK
  <2>4. CASE Goto(w, [r EXCEPT !.pc = "discard"]) /\ UNCHANGED <<record, missed>>
    <3>1. PICK q \in Call : q = [r EXCEPT !.pc = "discard"]
      BY <2>1 DEF Call
    <3>2. q.pc = "discard" /\ q.me \in Entity /\ q.file \in used /\ Goto(w, q)
      BY <2>1, <2>4, <3>1 DEF Call
    <3>4. CallOK(q)' /\ q.file \in used' \cup {None}
      BY <2>2, <3>2 DEF CallOK
    <3>5. call' \in [Worker -> Call] /\ (\A v \in Worker : CallOK(call[v]))' /\ FilesKnown'
      BY <2>2, <3>2, <3>4, CallsOK
    <3>6. QED
      BY <2>2, <2>4, <3>5 DEF TypeOK, Stored
  <2>5. QED
    BY <1>2, <2>3, <2>4 DEF StoreRecord
<1>3. ASSUME NEW w \in Worker, Discard(w) PROVE (TypeOK /\ FilesKnown)'
  <2>1. disk' \subseteq disk /\ UNCHANGED <<used, record, avatar, sent, sweep, past>> /\ Finish(w)
        /\ faults' \in Nat /\ restarts' \in Nat
    BY <1>3 DEF Discard, Intact, Fault, bounds, TypeOK
  <2>2. call' \in [Worker -> Call] /\ (\A v \in Worker : CallOK(call[v]))' /\ FilesKnown'
    BY <2>1, FinishOK
  <2>3. QED
    BY <2>1, <2>2 DEF TypeOK, Stored, past
<1>4. ASSUME NEW w \in Worker, NEW e \in Entity, NEW f \in File \cup {None}, ReadRow(w, e, f)
      PROVE  (TypeOK /\ FilesKnown)'
  <2> DEFINE r == [Ready EXCEPT !.pc = "write", !.me = e, !.file = f]
  <2>1. UNCHANGED <<stores, sweep, past, bounds>> /\ Goto(w, r) /\ f \in used \cup {None}
    BY <1>4, <1>a DEF ReadRow, Intact, TypeOK
  <2>2. r \in Call /\ CallOK(r)' /\ r.file \in used' \cup {None}
    BY <2>1 DEF Ready, Call, CallOK, stores
  <2> HIDE DEF r
  <2>3. call' \in [Worker -> Call] /\ (\A v \in Worker : CallOK(call[v]))' /\ FilesKnown'
    BY <2>1, <2>2, CallsOK DEF stores
  <2>4. QED
    BY <2>1, <2>3 DEF TypeOK, Stored, past, stores, bounds
<1>5. ASSUME NEW w \in Worker, WriteRow(w) PROVE (TypeOK /\ FilesKnown)'
  <2>1. call[w].me \in Entity /\ call[w].file \in used \cup {None}
    BY <1>5 DEF WriteRow, TypeOK, CallOK, FilesKnown
  <2>2. UNCHANGED <<disk, used, record, sent, sweep, missed, halved, contested, bounds>> /\ Finish(w)
    BY <1>5 DEF WriteRow, Intact
  <2>3. avatar' \in [Entity -> used' \cup {None}]
    BY <1>5, <2>1, <2>2 DEF WriteRow, TypeOK
  <2>4. late' \subseteq File
    BY <1>5, <1>a, <2>1 DEF WriteRow, TypeOK
  <2>5. call' \in [Worker -> Call] /\ (\A v \in Worker : CallOK(call[v]))' /\ FilesKnown'
    BY <2>2, FinishOK
  <2>6. QED
    BY <2>2, <2>3, <2>4, <2>5 DEF TypeOK, Stored, bounds
<1>6. ASSUME NEW w \in Worker, NEW e \in Entity, NEW f \in File, NEW c \in Conv,
             AttachCheck(w, e, f, c)
      PROVE  (TypeOK /\ FilesKnown)'
  <2> DEFINE r == [pc |-> "bind", me |-> e, file |-> f, conv |-> c]
  <2>1. UNCHANGED <<disk, used, record, avatar, sweep, past, bounds>> /\ f \in used
    BY <1>6, <1>a DEF AttachCheck, Intact
  <2>2. sent' \subseteq sent \cup {<<f, c, "rest">>} /\ (Goto(w, r) \/ UNCHANGED call)
    BY <1>6 DEF AttachCheck
  <2>3. r \in Call /\ CallOK(r)' /\ r.file \in used' \cup {None}
    BY <2>1 DEF Call, CallOK
  <2> HIDE DEF r
  <2>4. call' \in [Worker -> Call] /\ (\A v \in Worker : CallOK(call[v]))' /\ FilesKnown'
    BY <2>1, <2>2, <2>3, CallsOK, SameCalls
  <2>5. sent' \subseteq used' \X Conv \X {"rest", "socket"}
    BY <2>1, <2>2 DEF TypeOK
  <2>6. QED
    BY <2>1, <2>4, <2>5 DEF TypeOK, Stored, past, bounds
<1>7. ASSUME NEW w \in Worker, Bind(w) PROVE (TypeOK /\ FilesKnown)'
  <2>1. PICK f \in used, c \in Conv : f = call[w].file /\ c = call[w].conv
    BY <1>7 DEF Bind, TypeOK, CallOK
  <2>2. UNCHANGED <<disk, used, avatar, sweep, missed, halved, late, bounds>> /\ Finish(w)
        /\ sent' = sent \cup {<<f, c, "rest">>} /\ contested' \subseteq contested \cup {f}
        /\ (UNCHANGED record \/ record' = [record EXCEPT ![f] = [record[f] EXCEPT !.conv = c]])
    BY <1>7, <2>1 DEF Bind, Intact
  <2>3. [record[f] EXCEPT !.conv = c] \in Record
        /\ [record[f] EXCEPT !.conv = c].stored = record[f].stored
    BY <1>a DEF Record
  <2>4. record' \in [File -> Record] /\ Stored' = Stored
    BY <1>a, <2>2, <2>3, SMTT(30), ZenonT(40) DEF TypeOK, Stored
  <2>5. call' \in [Worker -> Call] /\ (\A v \in Worker : CallOK(call[v]))' /\ FilesKnown'
    BY <2>2, FinishOK
  <2>6. sent' \subseteq used' \X Conv \X {"rest", "socket"}
    BY <2>2 DEF TypeOK
  <2>7. QED
    BY <1>a, <2>2, <2>4, <2>5, <2>6 DEF TypeOK, bounds
<1>8. CASE Sweeps
  <2>1. /\ sweep' \in Sweep /\ (sweep'.pc = "forget" => sweep'.file \in File)
        /\ UNCHANGED <<used, avatar, sent, call, missed, late, contested>>
        /\ disk' \subseteq disk /\ record' \in [File -> Record] /\ Stored' \subseteq Stored
        /\ halved' \subseteq File /\ faults' \in Nat /\ restarts' \in Nat
    BY <1>8, SweepStepType
  <2>2. call' \in [Worker -> Call] /\ (\A v \in Worker : CallOK(call[v]))' /\ FilesKnown'
    BY <2>1, SameCalls
  <2>3. QED
    BY <2>1, <2>2 DEF TypeOK
<1>9. ASSUME NEW f \in File, Expire(f) PROVE (TypeOK /\ FilesKnown)'
  <2>1. [record[f] EXCEPT !.expired = TRUE] \in Record
        /\ [record[f] EXCEPT !.expired = TRUE].stored = record[f].stored
    BY <1>a DEF Record
  <2>2. record' = [record EXCEPT ![f] = [record[f] EXCEPT !.expired = TRUE]]
        /\ UNCHANGED <<disk, used, avatar, sent, call, sweep, bounds, past>>
    BY <1>9 DEF Expire
  <2>3. record' \in [File -> Record] /\ Stored' = Stored
    BY <2>1, <2>2 DEF TypeOK, Stored
  <2>4. call' \in [Worker -> Call] /\ (\A v \in Worker : CallOK(call[v]))' /\ FilesKnown'
    BY <2>2, SameCalls
  <2>5. QED
    BY <2>2, <2>3, <2>4 DEF TypeOK, past, bounds
<1>10. CASE Restart
  <2>1. call' = [w \in Worker |-> Ready] /\ sweep' = Idle /\ UNCHANGED <<stores, missed, late, contested>>
        /\ restarts' \in Nat /\ UNCHANGED faults
    BY <1>10 DEF Restart, TypeOK
  <2>2. halved' \subseteq File
    BY <1>10 DEF Restart, TypeOK
  <2>3. Idle \in Sweep /\ Idle.pc = "idle"
    BY DEF Idle, Sweep
  <2>4. call' \in [Worker -> Call] /\ (\A v \in Worker : CallOK(call[v]))' /\ FilesKnown'
    BY <2>1, ReadyOK DEF CallOK, FilesKnown
  <2>5. QED
    BY <2>1, <2>2, <2>3, <2>4 DEF TypeOK, Stored, stores
<1>11. CASE UNCHANGED vars
  <2>1. call' \in [Worker -> Call] /\ (\A v \in Worker : CallOK(call[v]))' /\ FilesKnown'
    BY <1>11, SameCalls DEF vars, stores
  <2>2. QED
    BY <1>11, <2>1 DEF TypeOK, Stored, vars, stores, past, bounds
<1>12. ASSUME NEW f \in File, NEW c \in Conv, AttachOverSocket(f, c) PROVE (TypeOK /\ FilesKnown)'
  <2>1. UNCHANGED <<disk, used, record, avatar, call, sweep, past, bounds>>
        /\ f \in used /\ sent' = sent \cup {<<f, c, "socket">>}
    BY <1>12 DEF AttachOverSocket, Intact
  <2>2. call' \in [Worker -> Call] /\ (\A v \in Worker : CallOK(call[v]))' /\ FilesKnown'
    BY <2>1, SameCalls
  <2>3. sent' \subseteq used' \X Conv \X {"rest", "socket"}
    BY <2>1 DEF TypeOK
  <2>4. QED
    BY <2>1, <2>2, <2>3 DEF TypeOK, Stored, past, bounds
<1>13. QED
  BY <1>1, <1>2, <1>3, <1>4, <1>5, <1>6, <1>7, <1>8, <1>9, <1>10, <1>11, <1>12
     DEF Next, Uploads, SetsAvatar, Attaches

\* TypeOK: types, and every name a request, an avatar or a message holds is one that
\* was given to an uploaded file.
THEOREM FilesTypes == Spec => []TypeOK
<1>1. TypeOK /\ FilesKnown => TypeOK
  OBVIOUS
<1>2. QED
  BY <1>1, FilesInitType, FilesStepType, PTL DEF Spec

LEMMA FilesInvType == Spec => [](TypeOK /\ FilesKnown)
BY FilesInitType, FilesStepType, PTL DEF Spec
-----------------------------------------------------------------------------
(* The inductive invariant *)

\* The name an upload in progress has given is not yet used by anybody else.
Uploading(w) == call[w].pc \in {"record", "discard"}
Fresh(f)     == f \notin Stored \cup Avatars /\ \A c \in Conv : <<f, c, "rest">> \notin sent
UploadInv ==
  \A w \in Worker : Uploading(w) =>
    Fresh(call[w].file) /\ \A v \in Worker \ {w} : call[v].file # call[w].file

\* What the cleanup has read still covers the avatars and the records, but for
\* those that came since.
SweepInv ==
  /\ sweep.pc \in Expiring => Avatars \subseteq sweep.kept \cup late
  /\ sweep.pc \in {"avatars", "dir"} => Stored \subseteq sweep.known \cup missed
  /\ sweep.pc = "dir" => Avatars \subseteq sweep.known \cup late
  /\ sweep.pc = "orphans" => /\ sweep.listed \cap Stored \subseteq missed
                             /\ sweep.listed \cap Avatars \subseteq late

\* A binding that was found possible is still possible, or contested.
BindInv ==
  \A w \in Worker : call[w].pc = "bind" =>
    LET f == call[w].file IN
    record[f].stored => record[f].conv \in {None, call[w].conv} \/ f \in contested

FilesInv ==
  UploadInv /\ SweepInv /\ BindInv /\ RecordHasFile /\ AvatarHasFile /\ AttachmentBound

LEMMA FilesInitInv == Init => FilesInv
<1> SUFFICES ASSUME Init PROVE FilesInv
  OBVIOUS
<1>1. Stored = {} /\ Avatars = {} /\ sent = {} /\ sweep.pc = "idle"
      /\ \A w \in Worker : call[w].pc = "ready"
  BY ReadyOK DEF Init, Stored, Avatars, NoRecord, Idle
<1>2. QED
  BY <1>1 DEF FilesInv, UploadInv, Uploading, SweepInv, Expiring, BindInv, RecordHasFile,
              AvatarHasFile, AttachmentBound

\* One request goes one step, or a record grows old.
Asks ==
  \/ \E w \in Worker : Uploads(w) \/ SetsAvatar(w) \/ Attaches(w)
  \/ \E f \in File : Expire(f) \/ \E c \in Conv : AttachOverSocket(f, c)

LEMMA UploadNames ==
  ASSUME TypeOK, FilesKnown, NEW w \in Worker, Uploading(w)
  PROVE  call[w].file \in used /\ call[w].file \in File /\ call[w].file # None
BY FilesAssumption DEF TypeOK, CallOK, Uploading

LEMMA UploadDiffers ==
  ASSUME TypeOK, FilesKnown, UploadInv, NEW w \in Worker, NEW v \in Worker, Uploading(v), v # w
  PROVE  call[v].file # call[w].file /\ Fresh(call[v].file)
BY DEF UploadInv

\* A request that ends leaves the others' names alone.
LEMMA UploadFinish ==
  ASSUME TypeOK, FilesKnown, UploadInv, NEW w \in Worker, Finish(w),
         \A v \in Worker \ {w} : \A f \in File :
           Uploading(v) /\ f = call[v].file /\ f # call[w].file /\ Fresh(f) => Fresh(f)'
  PROVE  UploadInv'
<1>1. call'[w] = Ready /\ \A v \in Worker \ {w} : call'[v] = call[v]
  BY DEF Finish, Goto, TypeOK
<1>2. ASSUME NEW v \in Worker, Uploading(v)'
      PROVE  Fresh(call[v].file)' /\ \A u \in Worker \ {v} : call'[u].file # call'[v].file
  <2>1. v # w /\ Uploading(v) /\ call'[v] = call[v]
    BY <1>1, <1>2, ReadyOK DEF Uploading
  <2>2. PICK f \in File : f = call[v].file /\ f # None
    BY <2>1, UploadNames
  <2>3. f # call[w].file /\ Fresh(f)
    BY <2>1, <2>2, UploadDiffers
  <2>4. Fresh(f)'
    BY <2>1, <2>2, <2>3
  <2>5. ASSUME NEW u \in Worker \ {v} PROVE call'[u].file # call'[v].file
    BY <1>1, <2>1, <2>2, ReadyOK DEF UploadInv
  <2>6. QED
    BY <2>1, <2>2, <2>4, <2>5 DEF Fresh
<1>3. QED
  BY <1>2 DEF UploadInv

\* Names are given up and taken over as an upload needs.
LEMMA UploadStep ==
  ASSUME TypeOK, FilesKnown, UploadInv, [Next]_vars
  PROVE  UploadInv'
<1>b. ASSUME UNCHANGED call, Stored' \subseteq Stored, Avatars' \subseteq Avatars, UNCHANGED sent
      PROVE  UploadInv'
  BY <1>b DEF UploadInv, Uploading, Fresh
<1>1. ASSUME NEW w \in Worker, NEW e \in Entity, NEW c \in Conv \cup {None}, NEW f \in File,
             Save(w, e, c, f)
      PROVE  UploadInv'
  <2>1. UNCHANGED <<record, avatar, sent>> /\ f \notin used
    BY <1>1 DEF Save
  <2>2. Stored' = Stored /\ Avatars' = Avatars
    BY <2>1 DEF Stored, Avatars
  <2>3. CASE Goto(w, [pc |-> "record", me |-> e, file |-> f, conv |-> c])
    <3>1. call'[w].file = f /\ \A v \in Worker \ {w} : call'[v] = call[v]
      BY <2>3 DEF Goto, TypeOK
    <3>2. Fresh(f)'
      BY <2>1, <2>2, FilesAssumption DEF Fresh, TypeOK, Avatars
    <3>3. \A v \in Worker : call[v].file # f
      BY <2>1, FilesAssumption DEF FilesKnown
    <3>4. QED
      BY <2>1, <2>2, <3>1, <3>2, <3>3 DEF UploadInv, Uploading, Fresh
  <2>4. QED
    BY <1>1, <1>b, <2>1, <2>2, <2>3 DEF Save
<1>2. ASSUME NEW w \in Worker, StoreRecord(w) PROVE UploadInv'
  <2>1. UNCHANGED <<avatar, sent>> /\ Uploading(w) /\ call[w].file \in File
    BY <1>2, UploadNames DEF StoreRecord, Uploading
  <2>2. CASE Finish(w) /\ Stored' \subseteq Stored \cup {call[w].file}
    BY <2>1, <2>2, UploadFinish DEF Fresh, Avatars
  <2>3. CASE UNCHANGED record /\ Goto(w, [call[w] EXCEPT !.pc = "discard"])
    <3>1. call'[w].file = call[w].file /\ \A v \in Worker \ {w} : call'[v] = call[v]
      BY <2>3 DEF Goto, TypeOK, Call
    <3>2. Stored' = Stored /\ Avatars' = Avatars
      BY <2>1, <2>3 DEF Stored, Avatars
    <3>3. QED
      BY <2>1, <3>1, <3>2 DEF UploadInv, Uploading, Fresh
  <2>4. QED
    BY <1>2, <2>1, <2>2, <2>3 DEF StoreRecord, Stored, TypeOK
<1>3. ASSUME NEW w \in Worker, Discard(w) PROVE UploadInv'
  BY <1>3, UploadFinish DEF Discard, Fresh, Stored, Avatars
<1>4. ASSUME NEW w \in Worker, NEW e \in Entity, NEW f \in File \cup {None}, ReadRow(w, e, f)
      PROVE  UploadInv'
  <2>1. f \in Stored \cup Avatars \cup {None} /\ UNCHANGED <<record, avatar, sent>>
    BY <1>4 DEF ReadRow, Avatars, stores
  <2>2. Stored' = Stored /\ Avatars' = Avatars
    BY <2>1 DEF Stored, Avatars
  <2>3. call'[w].pc = "write" /\ call'[w].file = f /\ \A v \in Worker \ {w} : call'[v] = call[v]
    BY <1>4 DEF ReadRow, Goto, TypeOK, Ready
  <2>4. \A v \in Worker : Uploading(v) => call[v].file # f
    BY <2>1, UploadNames DEF UploadInv, Fresh
  <2>5. QED
    BY <2>1, <2>2, <2>3, <2>4 DEF UploadInv, Uploading, Fresh
<1>5. ASSUME NEW w \in Worker, WriteRow(w) PROVE UploadInv'
  <2>1. UNCHANGED <<record, sent>> /\ Finish(w) /\ Avatars' \subseteq Avatars \cup {call[w].file}
    BY <1>5 DEF WriteRow, Avatars, TypeOK
  <2>2. QED
    BY <2>1, UploadFinish DEF Fresh, Stored
<1>6. ASSUME NEW w \in Worker, NEW e \in Entity, NEW f \in File, NEW c \in Conv,
             AttachCheck(w, e, f, c)
      PROVE  UploadInv'
  <2>1. f \in Stored /\ UNCHANGED <<record, avatar>> /\ sent' \subseteq sent \cup {<<f, c, "rest">>}
    BY <1>6 DEF AttachCheck
  <2>2. Stored' = Stored /\ Avatars' = Avatars
    BY <2>1 DEF Stored, Avatars
  <2>3. \A v \in Worker : Uploading(v) => call[v].file # f
    BY <2>1 DEF UploadInv, Fresh
  <2>4. CASE UNCHANGED call
    BY <2>1, <2>2, <2>3, <2>4 DEF UploadInv, Uploading, Fresh
  <2>5. CASE Goto(w, [pc |-> "bind", me |-> e, file |-> f, conv |-> c])
    <3>1. call'[w].pc = "bind" /\ call'[w].file = f /\ \A v \in Worker \ {w} : call'[v] = call[v]
      BY <2>5 DEF Goto, TypeOK
    <3>2. QED
      BY <2>1, <2>2, <2>3, <3>1 DEF UploadInv, Uploading, Fresh
  <2>6. QED
    BY <1>6, <2>4, <2>5 DEF AttachCheck
<1>7. ASSUME NEW w \in Worker, Bind(w) PROVE UploadInv'
  <2>1. Finish(w) /\ UNCHANGED avatar /\ sent' = sent \cup {<<call[w].file, call[w].conv, "rest">>}
    BY <1>7 DEF Bind
  <2>2. Stored' \subseteq Stored
    BY <1>7 DEF Bind, Stored, TypeOK, Record
  <2>3. QED
    BY <2>1, <2>2, UploadFinish DEF Fresh, Avatars
<1>8. CASE Sweeps
  BY <1>8, <1>b, SweepStepType DEF Avatars
<1>9. ASSUME NEW f \in File, Expire(f) PROVE UploadInv'
  <2>1. UNCHANGED <<call, avatar, sent>> /\ Stored' \subseteq Stored
    BY <1>9 DEF Expire, Stored, TypeOK, Record
  <2>2. QED
    BY <1>b, <2>1 DEF Avatars
<1>10. CASE Restart
  BY <1>10, ReadyOK DEF Restart, UploadInv, Uploading
<1>11. CASE UNCHANGED vars
  BY <1>11, <1>b DEF vars, stores, Stored, Avatars
<1>12. ASSUME NEW f \in File, NEW c \in Conv, AttachOverSocket(f, c) PROVE UploadInv'
  BY <1>12 DEF AttachOverSocket, UploadInv, Uploading, Fresh, Stored, Avatars
<1>13. QED
  BY <1>1, <1>2, <1>3, <1>4, <1>5, <1>6, <1>7, <1>8, <1>9, <1>10, <1>11, <1>12
     DEF Next, Uploads, SetsAvatar, Attaches

\* What a step of a request does to the rest.
LEMMA AskEffects ==
  ASSUME TypeOK, FilesKnown, UploadInv, Asks \/ UNCHANGED vars
  PROVE  /\ UNCHANGED <<sweep, halved>> /\ missed \subseteq missed' /\ late \subseteq late'
         /\ \A f \in Stored' \ Stored :
              f \in missed' \/ (f \in disk' /\ sweep.pc \notin Scanning \ {"names"})
         /\ \A f \in Avatars' \ Avatars : f \in late' \/ (f \in disk' /\ sweep.pc = "idle")
         /\ \A f \in disk \ disk' : f \notin Stored' \cup Avatars'
<1> DEFINE Goal ==
         /\ UNCHANGED <<sweep, halved>> /\ missed \subseteq missed' /\ late \subseteq late'
         /\ \A f \in Stored' \ Stored :
              f \in missed' \/ (f \in disk' /\ sweep.pc \notin Scanning \ {"names"})
         /\ \A f \in Avatars' \ Avatars : f \in late' \/ (f \in disk' /\ sweep.pc = "idle")
         /\ \A f \in disk \ disk' : f \notin Stored' \cup Avatars'
<1>a. ASSUME UNCHANGED <<sweep, past, avatar>>, disk \subseteq disk', Stored' \subseteq Stored
      PROVE  Goal
  BY <1>a DEF past, Avatars
<1>1. ASSUME NEW w \in Worker, NEW e \in Entity, NEW c \in Conv \cup {None}, NEW f \in File,
             Save(w, e, c, f)
      PROVE  Goal
  BY <1>1, <1>a DEF Save, Stored
<1>2. ASSUME NEW w \in Worker, StoreRecord(w) PROVE Goal
  <2>1. UNCHANGED <<disk, avatar, sweep, halved, late>>
    BY <1>2 DEF StoreRecord
  <2>2. Avatars' = Avatars
    BY <2>1 DEF Avatars
  <2>3. CASE UNCHANGED <<record, missed>>
    BY <2>1, <2>2, <2>3 DEF Stored
  <2>4. CASE /\ Stored' \subseteq Stored \cup {call[w].file}
             /\ missed' = IF call[w].file \notin disk \/ sweep.pc \in Scanning \ {"names"}
                          THEN missed \cup {call[w].file} ELSE missed
    BY <2>1, <2>2, <2>4
  <2>5. QED
    BY <1>2, <2>3, <2>4 DEF StoreRecord, Stored, TypeOK
<1>3. ASSUME NEW w \in Worker, Discard(w) PROVE Goal
  <2>1. UNCHANGED <<record, avatar, sweep, past>> /\ disk \subseteq disk' \cup {call[w].file}
    BY <1>3 DEF Discard
  <2>2. Fresh(call[w].file)
    BY <1>3 DEF Discard, UploadInv, Uploading
  <2>3. Stored' = Stored /\ Avatars' = Avatars
    BY <2>1 DEF Stored, Avatars
  <2>4. QED
    BY <2>1, <2>2, <2>3 DEF Fresh, past
<1>4. ASSUME NEW w \in Worker, NEW e \in Entity, NEW f \in File \cup {None}, ReadRow(w, e, f)
      PROVE  Goal
  BY <1>4, <1>a DEF ReadRow, stores, Stored
<1>5. ASSUME NEW w \in Worker, WriteRow(w) PROVE Goal
  <2>1. UNCHANGED <<disk, record, sweep, missed, halved>> /\ call[w].me \in Entity
    BY <1>5 DEF WriteRow, TypeOK, CallOK
  <2>2. Stored' = Stored /\ late \subseteq late'
    BY <1>5, <2>1 DEF WriteRow, Stored
  <2>3. ASSUME NEW f \in Avatars' \ Avatars PROVE f \in late' \/ (f \in disk' /\ sweep.pc = "idle")
    <3>1. f = call[w].file /\ f # avatar[call[w].me] /\ f # None
      BY <1>5, <2>1, <2>3 DEF WriteRow, Avatars, TypeOK
    <3>2. QED
      BY <1>5, <2>1, <3>1 DEF WriteRow
  <2>4. QED
    BY <2>1, <2>2, <2>3
<1>6. ASSUME NEW w \in Worker, NEW e \in Entity, NEW f \in File, NEW c \in Conv,
             AttachCheck(w, e, f, c)
      PROVE  Goal
  BY <1>6, <1>a DEF AttachCheck, Stored
<1>7. ASSUME NEW w \in Worker, Bind(w) PROVE Goal
  <2>1. UNCHANGED <<disk, avatar, sweep, missed, halved, late>>
    BY <1>7 DEF Bind
  <2>2. Stored' \subseteq Stored /\ Avatars' = Avatars
    BY <1>7, <2>1 DEF Bind, Stored, TypeOK, Record, Avatars
  <2>3. QED
    BY <2>1, <2>2
<1>8. ASSUME NEW f \in File, Expire(f) PROVE Goal
  <2>1. UNCHANGED <<disk, avatar, sweep, past>> /\ Stored' \subseteq Stored
    BY <1>8 DEF Expire, Stored, TypeOK, Record
  <2>2. QED
    BY <1>a, <2>1
<1>9. CASE UNCHANGED vars
  BY <1>9, <1>a DEF vars, stores, Stored
<1>10. ASSUME NEW f \in File, NEW c \in Conv, AttachOverSocket(f, c) PROVE Goal
  BY <1>10, <1>a DEF AttachOverSocket, Stored, Avatars, past
<1>11. QED
  BY <1>1, <1>2, <1>3, <1>4, <1>5, <1>6, <1>7, <1>8, <1>9, <1>10
     DEF Asks, Uploads, SetsAvatar, Attaches

LEMMA AskSweep ==
  ASSUME TypeOK, FilesKnown, UploadInv, SweepInv, RecordHasFile, AvatarHasFile,
         Asks \/ UNCHANGED vars
  PROVE  SweepInv' /\ RecordHasFile' /\ AvatarHasFile'
<1>1. /\ UNCHANGED <<sweep, halved>> /\ missed \subseteq missed' /\ late \subseteq late'
      /\ \A f \in Stored' \ Stored :
           f \in missed' \/ (f \in disk' /\ sweep.pc \notin Scanning \ {"names"})
      /\ \A f \in Avatars' \ Avatars : f \in late' \/ (f \in disk' /\ sweep.pc = "idle")
      /\ \A f \in disk \ disk' : f \notin Stored' \cup Avatars'
  BY AskEffects
<1>2. SweepInv'
  BY <1>1 DEF SweepInv, Expiring, Scanning
<1>3. RecordHasFile'
  BY <1>1 DEF RecordHasFile
<1>4. AvatarHasFile'
  BY <1>1 DEF AvatarHasFile
<1>5. QED
  BY <1>2, <1>3, <1>4

\* What the cleanup removes is nothing it must keep.
LEMMA SweepsSweep ==
  ASSUME TypeOK, FilesKnown, SweepInv, RecordHasFile, AvatarHasFile, Sweeps
  PROVE  SweepInv' /\ RecordHasFile' /\ AvatarHasFile'
<1>a. sweep \in Sweep /\ halved \subseteq halved'
  BY DEF TypeOK, Sweeps, StartSweep, FetchBatch, KeepAvatar, RemoveExpired, ForgetExpired, EndBatch,
         ListNames, ListAvatars, ReadDir, RemoveOrphan, EndSweep, past
<1>b. /\ UNCHANGED <<avatar, missed, late>> /\ Stored' \subseteq Stored /\ Avatars' = Avatars
      /\ disk' \subseteq disk
  BY SweepStepType DEF Avatars
<1>c. ASSUME UNCHANGED disk, sweep.pc # "forget" PROVE RecordHasFile' /\ AvatarHasFile'
  BY <1>a, <1>b, <1>c DEF RecordHasFile, AvatarHasFile
<1>d. Idle.pc = "idle"
  BY DEF Idle
<1>e. ASSUME sweep'.pc \in {"idle", "names"} PROVE SweepInv'
  BY <1>e DEF SweepInv, Expiring
<1>f. ASSUME sweep'.pc \in Expiring, sweep.pc \in Expiring, sweep'.kept = sweep.kept PROVE SweepInv'
  BY <1>b, <1>f DEF SweepInv, Expiring
<1>1. CASE StartSweep
  <2>1. UNCHANGED disk /\ sweep.pc = "idle"
        /\ (sweep'.pc = "names" \/ (sweep'.pc = "fetch" /\ sweep'.kept = Avatars))
    <3>1. UNCHANGED disk /\ sweep.pc = "idle"
      BY <1>1 DEF StartSweep, stores
    <3>2. \/ sweep' = [Idle EXCEPT !.pc = "fetch", !.kept = Avatars,
                                  !.cutoff = {f \in Stored : record[f].expired}]
          \/ sweep' = [Idle EXCEPT !.pc = "names"]
      BY <1>1 DEF StartSweep, Step
    <3>3. QED
      BY <3>1, <3>2 DEF Idle
  <2>2. SweepInv'
    BY <1>b, <2>1 DEF SweepInv, Expiring
  <2>3. QED
    BY <1>c, <2>1, <2>2
<1>2. CASE FetchBatch \/ KeepAvatar \/ EndBatch
  <2>1. UNCHANGED disk /\ sweep.pc \in {"fetch", "batch"}
    BY <1>2 DEF FetchBatch, KeepAvatar, EndBatch, stores
  <2>2. sweep'.pc = "names" \/ (sweep'.pc \in Expiring /\ sweep'.kept = sweep.kept)
    BY <1>2, <1>a DEF FetchBatch, KeepAvatar, EndBatch, Move, Step, Sweep, Expiring
  <2>3. SweepInv'
    BY <1>e, <1>f, <2>1, <2>2 DEF Expiring
  <2>4. QED
    BY <1>c, <2>1, <2>3
<1>3. CASE RemoveExpired
  <2>1. PICK f \in sweep.batch \ sweep.kept :
          /\ sweep' = [sweep EXCEPT !.pc = "forget", !.file = f, !.batch = sweep.batch \ {f}]
          /\ disk \subseteq disk' \cup {f}
    BY <1>3 DEF RemoveExpired, Step
  <2>2. sweep.pc = "batch" /\ sweep'.pc = "forget" /\ sweep'.file = f /\ sweep'.kept = sweep.kept
    BY <1>3, <1>a, <2>1 DEF RemoveExpired, Sweep
  <2>3. SweepInv'
    BY <1>f, <2>2 DEF Expiring
  <2>4. RecordHasFile'
    BY <1>a, <1>b, <2>1, <2>2 DEF RecordHasFile
  <2>5. f \in Avatars => f \in late
    BY <2>1, <2>2 DEF SweepInv, Expiring
  <2>6. AvatarHasFile'
    BY <1>b, <2>1, <2>5 DEF AvatarHasFile
  <2>7. QED
    BY <2>3, <2>4, <2>6
<1>4. CASE ForgetExpired
  <2>1. /\ sweep.pc = "forget" /\ UNCHANGED disk
        /\ sweep' = [sweep EXCEPT !.pc = "batch", !.file = None]
    BY <1>4 DEF ForgetExpired, Step
  <2>2. sweep'.pc = "batch" /\ sweep'.kept = sweep.kept
    BY <1>a, <2>1 DEF Sweep
  <2>3. SweepInv'
    BY <1>f, <2>1, <2>2 DEF Expiring
  <2>4. sweep.file \notin Stored' \/ sweep.file \in halved'
    BY <1>4 DEF ForgetExpired, Stored, NoRecord, TypeOK
  <2>5. RecordHasFile' /\ AvatarHasFile'
    BY <1>a, <1>b, <2>1, <2>4 DEF RecordHasFile, AvatarHasFile
  <2>6. QED
    BY <2>3, <2>5
<1>5. CASE ListNames
  <2>1. UNCHANGED <<disk, record>> /\ sweep.pc = "names"
        /\ (sweep'.pc = "idle" \/ (sweep'.pc = "avatars" /\ sweep'.known = Stored))
    <3>1. UNCHANGED <<disk, record>> /\ sweep.pc = "names"
      BY <1>5 DEF ListNames, stores
    <3>2. sweep' = Idle \/ sweep' = [Idle EXCEPT !.pc = "avatars", !.known = Stored]
      BY <1>5 DEF ListNames, Step
    <3>3. [Idle EXCEPT !.pc = "avatars", !.known = Stored].pc = "avatars"
          /\ [Idle EXCEPT !.pc = "avatars", !.known = Stored].known = Stored
      BY DEF Idle
    <3>4. QED
      BY <1>d, <3>1, <3>2, <3>3
  <2>2. SweepInv'
    BY <1>b, <2>1 DEF SweepInv, Expiring
  <2>3. QED
    BY <1>c, <2>1, <2>2
<1>6. CASE ListAvatars
  <2>1. UNCHANGED disk /\ sweep.pc = "avatars"
        /\ (sweep'.pc = "idle" \/ (sweep'.pc = "dir" /\ sweep'.known = sweep.known \cup Avatars))
    <3>1. UNCHANGED disk /\ sweep.pc = "avatars"
      BY <1>6 DEF ListAvatars, stores
    <3>2. sweep' = Idle \/ sweep' = [sweep EXCEPT !.pc = "dir", !.known = sweep.known \cup Avatars]
      BY <1>6 DEF ListAvatars, Step
    <3>3. QED
      BY <1>a, <1>d, <3>1, <3>2 DEF Sweep
  <2>2. SweepInv'
    BY <1>b, <2>1 DEF SweepInv, Expiring
  <2>3. QED
    BY <1>c, <2>1, <2>2
<1>7. CASE ReadDir
  <2>1. UNCHANGED disk /\ sweep.pc = "dir"
        /\ (sweep'.pc = "idle" \/ (sweep'.pc = "orphans" /\ sweep'.listed = disk \ sweep.known))
    <3>1. UNCHANGED disk /\ sweep.pc = "dir"
      BY <1>7 DEF ReadDir, stores
    <3>2. sweep' = Idle
          \/ sweep' = [sweep EXCEPT !.pc = "orphans", !.listed = disk \ sweep.known, !.known = {}]
      BY <1>7 DEF ReadDir, Step
    <3>3. QED
      BY <1>a, <1>d, <3>1, <3>2 DEF Sweep
  <2>2. SweepInv'
    BY <1>b, <2>1 DEF SweepInv, Expiring
  <2>3. QED
    BY <1>c, <2>1, <2>2
<1>8. CASE RemoveOrphan
  <2>1. PICK f \in sweep.listed :
          sweep' = [sweep EXCEPT !.listed = sweep.listed \ {f}] /\ disk \subseteq disk' \cup {f}
    BY <1>8 DEF RemoveOrphan, Step
  <2>2. sweep.pc = "orphans" /\ sweep'.pc = "orphans" /\ sweep'.listed = sweep.listed \ {f}
    BY <1>8, <1>a, <2>1 DEF RemoveOrphan, Sweep
  <2>3. (f \in Stored => f \in missed) /\ (f \in Avatars => f \in late)
    BY <2>1, <2>2 DEF SweepInv
  <2>4. SweepInv'
    BY <1>b, <2>2 DEF SweepInv, Expiring
  <2>5. RecordHasFile' /\ AvatarHasFile'
    BY <1>a, <1>b, <2>1, <2>2, <2>3 DEF RecordHasFile, AvatarHasFile
  <2>6. QED
    BY <2>4, <2>5
<1>9. CASE EndSweep
  BY <1>9, <1>c, <1>d, <1>e DEF EndSweep, Step, stores
<1>10. QED
  BY <1>1, <1>2, <1>3, <1>4, <1>5, <1>6, <1>7, <1>8, <1>9 DEF Sweeps

LEMMA RestartSweep ==
  ASSUME TypeOK, SweepInv, RecordHasFile, AvatarHasFile, Restart
  PROVE  SweepInv' /\ RecordHasFile' /\ AvatarHasFile'
<1>1. /\ UNCHANGED <<stores, missed, late>> /\ sweep' = Idle
      /\ halved' = IF sweep.pc = "forget" THEN halved \cup {sweep.file} ELSE halved
  BY DEF Restart
<1>2. Idle.pc = "idle"
  BY DEF Idle
<1>3. QED
  BY <1>1, <1>2 DEF stores, SweepInv, Expiring, RecordHasFile, AvatarHasFile, Stored, Avatars

\* Attaching: what a message may name.
LEMMA BindStep ==
  ASSUME TypeOK, FilesKnown, UploadInv, BindInv, AttachmentBound, [Next]_vars
  PROVE  BindInv' /\ AttachmentBound'
<1>a. ASSUME UNCHANGED <<sent, contested>>,
             \A w \in Worker : call'[w] = call[w] \/ call'[w].pc # "bind",
             \A f \in File : record'[f].stored =>
               record'[f] = record[f] \/ (record[f].stored /\ record'[f].conv = record[f].conv)
                 \/ \E w \in Worker : Uploading(w) /\ f = call[w].file
      PROVE  BindInv' /\ AttachmentBound'
  <2>1. ASSUME NEW w \in Worker, call'[w].pc = "bind", record'[call'[w].file].stored
        PROVE  \/ record'[call'[w].file].conv \in {None, call'[w].conv}
               \/ call'[w].file \in contested'
    <3>1. PICK f \in File : f = call[w].file /\ call'[w] = call[w] /\ call[w].pc = "bind"
      BY <1>a, <2>1 DEF TypeOK, CallOK
    <3>2. ASSUME NEW v \in Worker, Uploading(v) PROVE f # call[v].file
      BY <3>1, <3>2 DEF UploadInv, Uploading
    <3>3. record'[f] = record[f] \/ (record[f].stored /\ record'[f].conv = record[f].conv)
      BY <1>a, <2>1, <3>1, <3>2
    <3>4. QED
      BY <1>a, <2>1, <3>1, <3>3 DEF BindInv
  <2>2. ASSUME NEW f \in File, NEW c \in Conv, record'[f].stored, <<f, c, "rest">> \in sent
        PROVE  record'[f].conv = c \/ f \in contested
    <3>1. ASSUME NEW v \in Worker, Uploading(v) PROVE f # call[v].file
      BY <2>2, <3>1 DEF UploadInv, Fresh
    <3>2. record'[f] = record[f] \/ (record[f].stored /\ record'[f].conv = record[f].conv)
      BY <1>a, <2>2, <3>1
    <3>3. QED
      BY <2>2, <3>2 DEF AttachmentBound, Stored
  <2>3. QED
    BY <1>a, <2>1, <2>2 DEF BindInv, AttachmentBound, Stored
<1>b. ASSUME NEW w \in Worker, Finish(w)
      PROVE  \A v \in Worker : call'[v] = call[v] \/ call'[v].pc # "bind"
  BY <1>b, ReadyOK DEF Finish, Goto, TypeOK
<1>1. ASSUME NEW w \in Worker, NEW e \in Entity, NEW c \in Conv \cup {None}, NEW f \in File,
             Save(w, e, c, f)
      PROVE  BindInv' /\ AttachmentBound'
  <2>1. UNCHANGED <<record, sent, contested>>
    BY <1>1 DEF Save, past
  <2>2. \A v \in Worker : call'[v] = call[v] \/ call'[v].pc # "bind"
    BY <1>1 DEF Save, Goto, TypeOK
  <2>3. QED
    BY <1>a, <2>1, <2>2
<1>2. ASSUME NEW w \in Worker, StoreRecord(w) PROVE BindInv' /\ AttachmentBound'
  <2>1. UNCHANGED <<sent, contested>> /\ Uploading(w)
    BY <1>2 DEF StoreRecord, Uploading
  <2>2. \A v \in Worker : call'[v] = call[v] \/ call'[v].pc # "bind"
    BY <1>2, <1>b DEF StoreRecord, Goto, TypeOK, Call
  <2>3. \A f \in File : record'[f] = record[f] \/ f = call[w].file
    BY <1>2 DEF StoreRecord, TypeOK
  <2>4. QED
    BY <1>a, <2>1, <2>2, <2>3
<1>3. ASSUME NEW w \in Worker, Discard(w) PROVE BindInv' /\ AttachmentBound'
  BY <1>3, <1>a, <1>b DEF Discard, past
<1>4. ASSUME NEW w \in Worker, NEW e \in Entity, NEW f \in File \cup {None}, ReadRow(w, e, f)
      PROVE  BindInv' /\ AttachmentBound'
  <2>1. UNCHANGED <<record, sent, contested>>
    BY <1>4 DEF ReadRow, stores, past
  <2>2. \A v \in Worker : call'[v] = call[v] \/ call'[v].pc # "bind"
    BY <1>4 DEF ReadRow, Goto, TypeOK, Ready
  <2>3. QED
    BY <1>a, <2>1, <2>2
<1>5. ASSUME NEW w \in Worker, WriteRow(w) PROVE BindInv' /\ AttachmentBound'
  BY <1>5, <1>a, <1>b DEF WriteRow
<1>6. ASSUME NEW w \in Worker, NEW e \in Entity, NEW f \in File, NEW c \in Conv,
             AttachCheck(w, e, f, c)
      PROVE  BindInv' /\ AttachmentBound'
  <2>1. UNCHANGED <<record, contested>>
    BY <1>6 DEF AttachCheck, past
  <2>2. CASE record[f].conv = c /\ UNCHANGED call /\ sent' = sent \cup {<<f, c, "rest">>}
    BY <2>1, <2>2 DEF BindInv, AttachmentBound, Stored
  <2>3. CASE /\ record[f].conv = None /\ UNCHANGED sent
             /\ Goto(w, [pc |-> "bind", me |-> e, file |-> f, conv |-> c])
    <3>1. /\ call'[w].file = f /\ call'[w].conv = c
          /\ \A v \in Worker \ {w} : call'[v] = call[v]
      BY <2>3 DEF Goto, TypeOK
    <3>2. QED
      BY <2>1, <2>3, <3>1 DEF BindInv, AttachmentBound, Stored
  <2>4. QED
    BY <1>6, <2>2, <2>3 DEF AttachCheck
<1>7. ASSUME NEW w \in Worker, Bind(w) PROVE BindInv' /\ AttachmentBound'
  <2>1. PICK f \in used, c \in Conv : f = call[w].file /\ c = call[w].conv /\ f \in File
    BY <1>7 DEF Bind, TypeOK, CallOK
  <2>2. /\ record' = IF record[f].stored /\ record[f].conv = None
                     THEN [record EXCEPT ![f] = [record[f] EXCEPT !.conv = c]] ELSE record
        /\ sent' = sent \cup {<<f, c, "rest">>} /\ contested \subseteq contested'
        /\ Finish(w) /\ call[w].pc = "bind"
    BY <1>7, <2>1 DEF Bind
  <2>3. ASSUME NEW v \in Worker, call[v].pc = "bind", call[v].file = f
        PROVE  call[v].conv = c \/ f \in contested'
    BY <1>7, <2>1, <2>3 DEF Bind
  <2>4. record'[f].stored =>
          /\ record[f].stored
          /\ \/ record'[f].conv = c \/ f \in contested'
    BY <2>1, <2>2 DEF BindInv, TypeOK, Record
  <2>5. \A g \in File \ {f} : record'[g] = record[g]
    BY <2>1, <2>2 DEF TypeOK
  <2>6. record[f].stored /\ record[f].conv # None => record'[f] = record[f]
    BY <2>2
  <2>7. BindInv'
    <3> SUFFICES ASSUME NEW v \in Worker, call'[v].pc = "bind", record'[call'[v].file].stored
                 PROVE  \/ record'[call'[v].file].conv \in {None, call'[v].conv}
                        \/ call'[v].file \in contested'
      BY DEF BindInv
    <3>1. v # w /\ call'[v] = call[v]
      BY <2>2, ReadyOK DEF Finish, Goto, TypeOK
    <3>2. call[v].file \in File
      BY <3>1 DEF TypeOK, CallOK
    <3>3. CASE call[v].file = f
      BY <2>3, <2>4, <3>1, <3>3
    <3>4. CASE call[v].file # f
      BY <2>2, <2>5, <3>1, <3>2, <3>4 DEF BindInv
    <3>5. QED
      BY <3>3, <3>4
  <2>8. AttachmentBound'
    <3> SUFFICES ASSUME NEW g \in File, NEW d \in Conv, record'[g].stored,
                        <<g, d, "rest">> \in sent'
                 PROVE  record'[g].conv = d \/ g \in contested'
      BY DEF AttachmentBound, Stored
    <3>1. CASE <<g, d, "rest">> = <<f, c, "rest">>
      BY <2>4, <3>1
    <3>2. CASE <<g, d, "rest">> \in sent
      <4>1. CASE g = f
        <5>1. record[f].conv = d \/ f \in contested
          BY <2>4, <3>2, <4>1 DEF AttachmentBound, Stored
        <5>2. d # None
          BY FilesAssumption
        <5>3. QED
          BY <2>2, <2>4, <2>6, <4>1, <5>1, <5>2
      <4>2. CASE g # f
        BY <2>2, <2>5, <3>2, <4>2 DEF AttachmentBound, Stored
      <4>3. QED
        BY <4>1, <4>2
    <3>3. QED
      BY <2>2, <3>1, <3>2
  <2>9. QED
    BY <2>7, <2>8
<1>8. CASE Sweeps
  <2>1. /\ UNCHANGED <<sent, call, contested>>
        /\ \A f \in Stored' : record'[f] = record[f]
    BY <1>8, SweepStepType
  <2>2. QED
    BY <1>a, <2>1 DEF Stored
<1>9. ASSUME NEW f \in File, Expire(f) PROVE BindInv' /\ AttachmentBound'
  <2>1. /\ UNCHANGED <<sent, call, contested>>
        /\ \A g \in File : record'[g] = record[g]
                           \/ (record[g].stored /\ record'[g].conv = record[g].conv)
    BY <1>9 DEF Expire, past, TypeOK, Record
  <2>2. QED
    BY <1>a, <2>1
<1>10. CASE Restart
  <2>1. UNCHANGED <<record, sent, contested>> /\ \A w \in Worker : call'[w].pc # "bind"
    BY <1>10, ReadyOK DEF Restart, stores
  <2>2. QED
    BY <1>a, <2>1
<1>11. CASE UNCHANGED vars
  BY <1>11, <1>a DEF vars, stores, past
<1>12. ASSUME NEW f \in File, NEW c \in Conv, AttachOverSocket(f, c) PROVE BindInv' /\ AttachmentBound'
  BY <1>12 DEF AttachOverSocket, BindInv, AttachmentBound, Stored, past
<1>13. QED
  BY <1>1, <1>2, <1>3, <1>4, <1>5, <1>6, <1>7, <1>8, <1>9, <1>10, <1>11, <1>12
     DEF Next, Uploads, SetsAvatar, Attaches

LEMMA FilesInvStep == TypeOK /\ FilesKnown /\ FilesInv /\ [Next]_vars => FilesInv'
<1> SUFFICES ASSUME TypeOK, FilesKnown, FilesInv, [Next]_vars PROVE FilesInv'
  OBVIOUS
<1>1. UploadInv' /\ BindInv' /\ AttachmentBound'
  BY UploadStep, BindStep DEF FilesInv
<1>2. Asks \/ Sweeps \/ Restart \/ UNCHANGED vars
  BY DEF Next, Asks
<1>3. SweepInv' /\ RecordHasFile' /\ AvatarHasFile'
  BY <1>2, AskSweep, SweepsSweep, RestartSweep DEF FilesInv
<1>4. QED
  BY <1>1, <1>3 DEF FilesInv

LEMMA FilesInvariant == Spec => []FilesInv
BY FilesInvType, FilesInitInv, FilesInvStep, PTL DEF Spec

\* RecordHasFile: no interleaving of uploads, cleanup, failures and restarts, but
\* for the three that the history records, leaves a record without its file.
THEOREM FilesRecords == Spec => []RecordHasFile
<1>1. FilesInv => RecordHasFile
  BY DEF FilesInv
<1>2. QED
  BY <1>1, FilesInvariant, PTL

\* AvatarHasFile: the cleanup removes no avatar it could have known of.
THEOREM FilesAvatars == Spec => []AvatarHasFile
<1>1. FilesInv => AvatarHasFile
  BY DEF FilesInv
<1>2. QED
  BY <1>1, FilesInvariant, PTL

\* AttachmentBound: a file attached by HandleSendMessage belongs to the conversation
\* it is attached in, unless two conversations attached it at once; what is attached
\* over WebSockets, where nothing is checked or bound, takes nothing from this.
THEOREM FilesAttachments == Spec => []AttachmentBound
<1>1. FilesInv => AttachmentBound
  BY DEF FilesInv
<1>2. QED
  BY <1>1, FilesInvariant, PTL
=============================================================================
