--------------------------- MODULE TrafficProofs ---------------------------
(***************************************************************************)
(* Proofs about reactions, push subscriptions and webhooks, for any number *)
(* of requests, senders and deliveries at once.                            *)
(***************************************************************************)
EXTENDS Reactions, Webhooks, Push, TLAPS

-----------------------------------------------------------------------------
(* Reactions *)

\* Somebody about to remove the reaction, alone, will find it.
RemoversFind ==
  \A w \in Toggler : toggle[w].pc = "remove" /\ toggle[w].by \notin crossed =>
    /\ toggle[w].by \in reacted
    /\ \A v \in Toggler : Removes(v, toggle[w].by) => v = w

Reading == \E w \in Toggler : toggle[w].pc = "fetch"

\* While nobody is about to read, what the latest reader saw are the rows, and so is
\* what the clients show once it was sent.
LatestIsStored ==
  ~Reading =>
    /\ \A w \in Toggler \ outdated : toggle[w].pc = "send" => toggle[w].seen = reacted
    /\ ~behind => shown = reacted

ReactInv == ReactTypeOK /\ TogglesCount /\ RemoversFind /\ LatestIsStored

LEMMA ProceedOK ==
  ASSUME ReactTypeOK, NEW w \in Toggler, NEW pc \in {"ready", "remove", "fetch", "send"},
         NEW e \in Fan \cup {NoFan}, NEW S \in SUBSET Fan, Proceed(w, pc, e, S)
  PROVE  /\ toggle' \in [Toggler -> Toggle]
         /\ toggle'[w].pc = pc /\ toggle'[w].by = e /\ toggle'[w].seen = S
         /\ \A v \in Toggler \ {w} : toggle'[v] = toggle[v]
BY DEF ReactTypeOK, Proceed, Toggle

LEMMA RestOK ==
  ASSUME ReactTypeOK, NEW w \in Toggler, Rest(w)
  PROVE  /\ toggle' \in [Toggler -> Toggle] /\ toggle'[w].pc = "ready"
         /\ \A v \in Toggler \ {w} : toggle'[v] = toggle[v]
<1>1. {} \in SUBSET Fan
  OBVIOUS
<1>2. QED
  BY <1>1, ProceedOK DEF Rest

LEMMA ReactInitInv == ReactInit => ReactInv
<1> SUFFICES ASSUME ReactInit PROVE ReactInv
  OBVIOUS
<1>0. {} \in SUBSET Fan
  OBVIOUS
<1>1. toggle \in [Toggler -> Toggle] /\ \A w \in Toggler : toggle[w].pc = "ready"
  BY <1>0 DEF ReactInit, Toggle
<1>2. ReactTypeOK
  BY <1>1 DEF ReactInit, ReactTypeOK
<1>3. QED
  BY <1>1, <1>2 DEF ReactInit, ReactInv, TogglesCount, RemoversFind, LatestIsStored, Reading

LEMMA ReactStepInv == ReactInv /\ [ReactNext]_reactVars => ReactInv'
<1> SUFFICES ASSUME ReactInv, [ReactNext]_reactVars PROVE ReactInv'
  OBVIOUS
<1>0. ReactTypeOK /\ TogglesCount /\ RemoversFind /\ LatestIsStored
  BY DEF ReactInv
<1>s. {} \in SUBSET Fan
  OBVIOUS
<1> USE ReactionsAssumption
<1>1. ASSUME NEW w \in Toggler, NEW e \in Fan, AddReaction(w, e) PROVE ReactInv'
  <2>1. ReactTypeOK'
    <3>1. Proceed(w, "fetch", e, {}) \/ Proceed(w, "remove", e, {})
      BY <1>1 DEF AddReaction
    <3>2. /\ toggle' \in [Toggler -> Toggle] /\ toggle'[w].by = e
          /\ \A v \in Toggler \ {w} : toggle'[v] = toggle[v]
      BY <1>0, <1>s, <3>1, ProceedOK
    <3>3. QED
      BY <1>0, <1>1, <3>2 DEF AddReaction, ReactTypeOK, Flip
  <2>2. CASE e \notin reacted
    <3>1. /\ reacted' = reacted \cup {e} /\ odd' = Flip(odd, e) /\ crossed' = crossed
          /\ toggle'[w].pc = "fetch" /\ \A v \in Toggler \ {w} : toggle'[v] = toggle[v]
      BY <1>0, <1>s, <1>1, <2>2, ProceedOK DEF AddReaction
    <3>2. TogglesCount'
      BY <1>0, <2>2, <3>1 DEF TogglesCount, Flip
    <3>3. RemoversFind'
      BY <1>0, <2>2, <3>1 DEF RemoversFind, Removes
    <3>4. LatestIsStored'
      BY <3>1 DEF LatestIsStored, Reading
    <3>5. QED
      BY <2>1, <3>2, <3>3, <3>4 DEF ReactInv
  <2>3. CASE e \in reacted
    <3>1. /\ UNCHANGED <<reacted, odd, shown, behind, outdated>>
          /\ crossed' = IF \E v \in Toggler : Removes(v, e) THEN crossed \cup {e} ELSE crossed
          /\ toggle'[w].pc = "remove" /\ toggle'[w].by = e
          /\ toggle[w].pc = "ready" /\ \A v \in Toggler \ {w} : toggle'[v] = toggle[v]
      BY <1>0, <1>s, <1>1, <2>3, ProceedOK DEF AddReaction
    <3>2. TogglesCount'
      BY <1>0, <3>1 DEF TogglesCount
    <3>3. RemoversFind'
      BY <1>0, <2>3, <3>1 DEF RemoversFind, Removes
    <3>4. LatestIsStored'
      BY <1>0, <3>1 DEF LatestIsStored, Reading
    <3>5. QED
      BY <2>1, <3>2, <3>3, <3>4 DEF ReactInv
  <2>4. QED
    BY <2>2, <2>3
<1>2. ASSUME NEW w \in Toggler, RemoveReaction(w) PROVE ReactInv'
  <2> DEFINE e == toggle[w].by
  <2>2. e \in Fan /\ toggle[w].pc = "remove"
    BY <1>0, <1>2 DEF RemoveReaction, ReactTypeOK
  <2>1. ReactTypeOK'
    <3>1. Proceed(w, "fetch", e, {}) \/ Rest(w)
      BY <1>2 DEF RemoveReaction
    <3>2. /\ toggle' \in [Toggler -> Toggle] /\ (toggle'[w].pc = "ready" \/ toggle'[w].by = e)
          /\ \A v \in Toggler \ {w} : toggle'[v] = toggle[v]
      BY <1>0, <1>s, <2>2, <3>1, ProceedOK, RestOK
    <3>3. QED
      BY <1>0, <1>2, <2>2, <3>2 DEF RemoveReaction, ReactTypeOK, Flip, Break
  <2>3. CASE reacted' = reacted \ {e} /\ odd' = Flip(odd, e)
              /\ Proceed(w, "fetch", e, {})
    <3>1. /\ toggle'[w].pc = "fetch" /\ crossed' = crossed
          /\ \A v \in Toggler \ {w} : toggle'[v] = toggle[v]
      BY <1>0, <1>s, <1>2, <2>2, <2>3, ProceedOK DEF RemoveReaction
    <3>2. e \notin crossed => e \in reacted /\ \A v \in Toggler : Removes(v, e) => v = w
      BY <1>0, <2>2 DEF RemoversFind
    <3>3. TogglesCount'
      BY <1>0, <2>2, <2>3, <3>1, <3>2 DEF TogglesCount, Flip
    <3>4. RemoversFind'
      BY <1>0, <2>2, <2>3, <3>1, <3>2 DEF RemoversFind, Removes
    <3>5. LatestIsStored'
      BY <3>1 DEF LatestIsStored, Reading
    <3>6. QED
      BY <2>1, <3>3, <3>4, <3>5 DEF ReactInv
  <2>4. CASE Rest(w) /\ UNCHANGED <<reacted, odd>>
    <3>1. /\ UNCHANGED <<reacted, odd, crossed, shown, behind, outdated>>
          /\ toggle'[w].pc = "ready" /\ \A v \in Toggler \ {w} : toggle'[v] = toggle[v]
      BY <1>0, <1>2, <2>4, RestOK DEF RemoveReaction
    <3>2. TogglesCount' /\ RemoversFind'
      BY <1>0, <3>1 DEF TogglesCount, RemoversFind, Removes
    <3>3. LatestIsStored'
      BY <1>0, <2>2, <3>1 DEF LatestIsStored, Reading
    <3>4. QED
      BY <2>1, <3>2, <3>3 DEF ReactInv
  <2>5. QED
    BY <1>2, <2>3, <2>4 DEF RemoveReaction
<1>3. ASSUME NEW w \in Toggler, FetchReactions(w) PROVE ReactInv'
  <2>0. toggle[w].by \in Fan /\ reacted \in SUBSET Fan
    BY <1>0, <1>3 DEF FetchReactions, ReactTypeOK
  <2>1. ReactTypeOK'
    <3>1. Proceed(w, "send", toggle[w].by, reacted) \/ Rest(w)
      BY <1>3 DEF FetchReactions
    <3>2. /\ toggle' \in [Toggler -> Toggle]
          /\ (toggle'[w].pc = "ready" \/ toggle'[w].by = toggle[w].by)
          /\ \A v \in Toggler \ {w} : toggle'[v] = toggle[v]
      BY <1>0, <2>0, <3>1, ProceedOK, RestOK
    <3>3. QED
      BY <1>0, <1>3, <2>0, <3>2 DEF FetchReactions, ReactTypeOK, Break
  <2>2. /\ UNCHANGED <<reacted, odd, crossed, shown>> /\ behind' = TRUE
        /\ outdated' = {v \in Toggler \ {w} : toggle[v].pc = "send"}
        /\ \/ toggle'[w].pc = "send" /\ toggle'[w].seen = reacted
           \/ toggle'[w].pc = "ready"
        /\ \A v \in Toggler \ {w} : toggle'[v] = toggle[v]
    BY <1>0, <1>3, <2>0, ProceedOK, RestOK DEF FetchReactions
  <2>3. TogglesCount' /\ RemoversFind'
    BY <1>0, <2>2 DEF TogglesCount, RemoversFind, Removes
  <2>4. LatestIsStored'
    BY <2>2 DEF LatestIsStored
  <2>5. QED
    BY <2>1, <2>3, <2>4 DEF ReactInv
<1>4. ASSUME NEW w \in Toggler, BroadcastReactions(w) PROVE ReactInv'
  <2>1. ReactTypeOK'
    BY <1>0, <1>4, RestOK DEF BroadcastReactions, ReactTypeOK, Toggle
  <2>2. /\ UNCHANGED <<reacted, odd, crossed>> /\ shown' = toggle[w].seen
        /\ behind' = (w \in outdated) /\ outdated' = outdated \ {w}
        /\ toggle[w].pc = "send" /\ toggle'[w].pc = "ready"
        /\ \A v \in Toggler \ {w} : toggle'[v] = toggle[v]
    BY <1>0, <1>4, RestOK DEF BroadcastReactions
  <2>3. TogglesCount' /\ RemoversFind'
    BY <1>0, <2>2 DEF TogglesCount, RemoversFind, Removes
  <2>4. LatestIsStored'
    BY <1>0, <2>2 DEF LatestIsStored, Reading
  <2>5. QED
    BY <2>1, <2>3, <2>4 DEF ReactInv
<1>5. CASE UNCHANGED reactVars
  BY <1>0, <1>5 DEF reactVars, ReactInv, ReactTypeOK, TogglesCount, RemoversFind, LatestIsStored,
                    Reading, Removes
<1>6. QED
  BY <1>1, <1>2, <1>3, <1>4, <1>5 DEF ReactNext, Toggles

\* For any number of participants and of toggles at once (HandleToggleReaction): who
\* toggled an odd number of times has the reaction, unless two of the own toggles
\* crossed, and the clients end up with the rows unless a broadcast overtook another.
THEOREM ReactionsMatched == ReactSpec => [](ReactTypeOK /\ ReactionsMatch)
<1>1. ReactInv => ReactTypeOK /\ ReactionsMatch
  BY DEF ReactInv, ReactionsMatch, ShownIsStored, LatestIsStored, Reading
<1>2. QED
  BY <1>1, ReactInitInv, ReactStepInv, PTL DEF ReactSpec

-----------------------------------------------------------------------------
(* Push subscriptions *)

\* What a goroutine is about to delete was reported gone, or registered meanwhile;
\* what it is about to mark as failed has failed.
SendersJustified ==
  \A s \in Notifier :
    /\ notify[s].pc = "drop" => notify[s].ep \in dead \cup overtaken /\ notify[s].got # "ok"
    /\ notify[s].pc \in {"drop", "status"} /\ notify[s].got # "ok" => notify[s].id \in blamed

PushInv == PushTypeOK /\ RegisteredStays /\ ErrorIsOwn /\ SendersJustified

LEMMA PushInitInv == PushInit => PushInv
<1> SUFFICES ASSUME PushInit PROVE PushInv
  OBVIOUS
<1>1. {} \in SUBSET (Endpoint \X RowIds)
  OBVIOUS
<1>2. notify \in [Notifier -> Sending] /\ \A s \in Notifier : notify[s].pc = "ready"
  BY <1>1, PushAssumption DEF PushInit, Sending, Answers
<1>3. PushTypeOK
  <2>1. device \in [Endpoint -> 0 .. MaxRows] /\ nextRow \in 1 .. MaxRows + 1
    BY PushAssumption DEF PushInit
  <2>2. \A d \in Endpoint : device[d] = 0 /\ device[d] < nextRow
    BY DEF PushInit
  <2>3. QED
    BY <1>2, <2>1, <2>2 DEF PushInit, PushTypeOK
<1>4. QED
  BY <1>2, <1>3 DEF PushInit, PushInv, RegisteredStays, ErrorIsOwn, SendersJustified

LEMMA SwitchOK ==
  ASSUME PushTypeOK, NEW s \in Notifier, NEW pc \in {"ready", "next", "drop", "status"},
         NEW left \in SUBSET (Endpoint \X RowIds), NEW ep \in Endpoint \cup {NoEndpoint},
         NEW id \in 0 .. MaxRows, NEW got \in Answers, Switch(s, pc, left, ep, id, got)
  PROVE  /\ notify' \in [Notifier -> Sending]
         /\ notify'[s].pc = pc /\ notify'[s].left = left /\ notify'[s].ep = ep
         /\ notify'[s].id = id /\ notify'[s].got = got
         /\ \A v \in Notifier \ {s} : notify'[v] = notify[v]
BY DEF PushTypeOK, Switch, Sending

LEMMA UpsertOK ==
  ASSUME PushTypeOK, NEW d \in Endpoint, Upsert(d)
  PROVE  /\ device' \in [Endpoint -> 0 .. MaxRows] /\ nextRow' \in 1 .. MaxRows + 1
         /\ \A f \in Endpoint : device'[f] < nextRow'
         /\ \A f, g \in Endpoint : device'[f] = device'[g] /\ device'[f] # 0 => f = g
         /\ device'[d] # 0 /\ \A f \in Endpoint \ {d} : device'[f] = device[f]
         /\ erred' = erred \ {d}
<1> USE PushAssumption DEF PushTypeOK
<1>1. CASE device[d] = 0 /\ nextRow <= MaxRows /\ nextRow' = nextRow + 1
           /\ device' = [device EXCEPT ![d] = nextRow]
  <2>1. device'[d] = nextRow /\ \A f \in Endpoint \ {d} : device'[f] = device[f]
    BY <1>1
  <2>2. \A f \in Endpoint \ {d} : device'[f] < nextRow
    BY <2>1
  <2>3. \A f, g \in Endpoint : device'[f] = device'[g] /\ device'[f] # 0 => f = g
    BY <2>1, <2>2
  <2>4. QED
    BY <1>1, <2>1, <2>2, <2>3 DEF Upsert
<1>2. CASE device[d] # 0 /\ UNCHANGED <<device, nextRow>>
  BY <1>2 DEF Upsert
<1>3. QED
  BY <1>1, <1>2 DEF Upsert

LEMMA DeleteRowOK ==
  ASSUME PushTypeOK, NEW d \in Endpoint, DeleteRow(d)
  PROVE  /\ device' \in [Endpoint -> 0 .. MaxRows]
         /\ \A f \in Endpoint : device'[f] < nextRow
         /\ \A f, g \in Endpoint : device'[f] = device'[g] /\ device'[f] # 0 => f = g
         /\ device'[d] = 0 /\ \A f \in Endpoint \ {d} : device'[f] = device[f]
         /\ erred' = erred \ {d}
BY PushAssumption DEF PushTypeOK, DeleteRow

LEMMA PushStepInv == PushInv /\ [PushNext]_pushVars => PushInv'
<1> SUFFICES ASSUME PushInv, [PushNext]_pushVars PROVE PushInv'
  OBVIOUS
<1>0. PushTypeOK /\ RegisteredStays /\ ErrorIsOwn /\ SendersJustified
  BY DEF PushInv
<1> USE PushAssumption
<1>1. ASSUME NEW d \in Endpoint, RegisterPush(d) PROVE PushInv'
  <2>1. /\ Upsert(d) /\ wanted' = wanted \cup {d} /\ dead' = dead \ {d}
        /\ overtaken' = IF Dropping(d) THEN overtaken \cup {d} ELSE overtaken \ {d}
        /\ UNCHANGED <<notify, silent, blamed>>
    BY <1>1 DEF RegisterPush
  <2>2. PushTypeOK'
    BY <1>0, <2>1, UpsertOK DEF PushTypeOK
  <2>3. RegisteredStays' /\ ErrorIsOwn'
    BY <1>0, <2>1, UpsertOK DEF RegisteredStays, ErrorIsOwn, PushTypeOK
  <2>4. SendersJustified'
    BY <1>0, <2>1 DEF SendersJustified, Dropping
  <2>5. QED
    BY <2>2, <2>3, <2>4 DEF PushInv
<1>2. ASSUME NEW d \in Endpoint, UnregisterPush(d) PROVE PushInv'
  <2>1. UNCHANGED <<nextRow, notify, dead, overtaken, blamed>>
    BY <1>2 DEF UnregisterPush
  <2>2. CASE DeleteRow(d) /\ wanted' = wanted \ {d} /\ UNCHANGED silent
    <3>1. PushTypeOK'
      BY <1>0, <2>1, <2>2, DeleteRowOK DEF PushTypeOK
    <3>2. RegisteredStays' /\ ErrorIsOwn'
      BY <1>0, <2>1, <2>2, DeleteRowOK DEF RegisteredStays, ErrorIsOwn, PushTypeOK
    <3>3. QED
      BY <1>0, <2>1, <3>1, <3>2 DEF PushInv, SendersJustified
  <2>3. CASE Silently /\ UNCHANGED <<device, erred, wanted>>
    BY <1>0, <2>1, <2>3 DEF PushInv, PushTypeOK, RegisteredStays, ErrorIsOwn, SendersJustified,
                            Silently
  <2>4. QED
    BY <1>2, <2>2, <2>3 DEF UnregisterPush
<1>3. ASSUME NEW s \in Notifier, ReadSubscriptions(s) PROVE PushInv'
  <2> DEFINE list == {<<d, device[d]>> : d \in {f \in Endpoint : device[f] # 0}}
  <2>1. list \in SUBSET (Endpoint \X RowIds)
    BY <1>0 DEF PushTypeOK, RowIds
  <2>2. Switch(s, "next", list, NoEndpoint, 0, "ok")
    BY <1>3 DEF ReadSubscriptions
  <2> HIDE DEF list
  <2>r. /\ notify' \in [Notifier -> Sending] /\ notify'[s].pc = "next"
        /\ \A v \in Notifier \ {s} : notify'[v] = notify[v]
    BY <1>0, <2>1, <2>2, SwitchOK, 0 \in 0 .. MaxRows, "ok" \in Answers DEF Answers
  <2>3. PushTypeOK'
    BY <1>0, <1>3, <2>r DEF ReadSubscriptions, PushTypeOK
  <2>4. SendersJustified'
    BY <1>0, <1>3, <2>r DEF ReadSubscriptions, SendersJustified
  <2>5. QED
    BY <1>0, <1>3, <2>3, <2>4 DEF ReadSubscriptions, PushInv, RegisteredStays, ErrorIsOwn
<1>4. ASSUME NEW s \in Notifier, SendPush(s) PROVE PushInv'
  <2>1. UNCHANGED <<device, erred, nextRow, silent, wanted, overtaken>>
    BY <1>4 DEF SendPush
  <2>2. ASSUME NEW p \in notify[s].left, NEW answer \in Answers,
               Switch(s, IF answer = "gone" THEN "drop" ELSE "status", notify[s].left \ {p},
                      p[1], p[2], answer),
               dead' = IF answer = "gone" THEN dead \cup {p[1]} ELSE dead,
               blamed' = IF answer = "ok" THEN blamed ELSE blamed \cup {p[2]}
        PROVE  PushInv'
    <3>1. p[1] \in Endpoint /\ p[2] \in RowIds /\ notify[s].left \in SUBSET (Endpoint \X RowIds)
      BY <1>0 DEF PushTypeOK, Sending
    <3>2. notify[s].left \ {p} \in SUBSET (Endpoint \X RowIds)
      BY <3>1
    <3>3. p[2] \in 0 .. MaxRows /\ p[1] \in Endpoint \cup {NoEndpoint}
      BY <3>1 DEF RowIds
    <3>f. /\ notify' \in [Notifier -> Sending]
          /\ notify'[s].pc = IF answer = "gone" THEN "drop" ELSE "status"
          /\ notify'[s].ep = p[1] /\ notify'[s].id = p[2] /\ notify'[s].got = answer
          /\ \A v \in Notifier \ {s} : notify'[v] = notify[v]
      BY <1>0, <2>2, <3>2, <3>3 DEF Switch, PushTypeOK, Sending
    <3>4. PushTypeOK'
      BY <1>0, <2>1, <2>2, <3>1, <3>f DEF PushTypeOK, RowIds
    <3>5. SendersJustified'
      BY <1>0, <2>2, <2>1, <3>1, <3>f DEF SendersJustified
    <3>6. RegisteredStays' /\ ErrorIsOwn'
      BY <1>0, <2>1, <2>2 DEF RegisteredStays, ErrorIsOwn
    <3>7. QED
      BY <3>4, <3>5, <3>6 DEF PushInv
  <2>3. CASE Switch(s, "ready", {}, NoEndpoint, 0, "ok") /\ UNCHANGED <<dead, blamed>>
    <3>0. {} \in SUBSET (Endpoint \X RowIds) /\ 0 \in 0 .. MaxRows /\ "ok" \in Answers
      BY DEF Answers
    <3>f. /\ notify' \in [Notifier -> Sending] /\ notify'[s].pc = "ready"
          /\ \A v \in Notifier \ {s} : notify'[v] = notify[v]
      BY <1>0, <2>3, <3>0, SwitchOK
    <3>1. PushTypeOK'
      BY <1>0, <2>1, <2>3, <3>f DEF PushTypeOK
    <3>2. SendersJustified'
      BY <1>0, <2>1, <2>3, <3>f DEF SendersJustified
    <3>3. QED
      BY <1>0, <2>1, <2>3, <3>1, <3>2 DEF PushInv, RegisteredStays, ErrorIsOwn
  <2>4. QED
    BY <1>4, <2>2, <2>3 DEF SendPush
<1>5. ASSUME NEW s \in Notifier, DropGone(s) PROVE PushInv'
  <2>1. /\ UNCHANGED <<nextRow, wanted, dead, overtaken, blamed>>
        /\ notify[s].pc = "drop" /\ notify[s].ep \in Endpoint /\ notify[s].id \in RowIds
    BY <1>0, <1>5 DEF DropGone, PushTypeOK
  <2>f. /\ notify' \in [Notifier -> Sending] /\ notify'[s].pc = "status"
        /\ notify'[s].ep = notify[s].ep /\ notify'[s].id = notify[s].id
        /\ notify'[s].got = notify[s].got /\ \A v \in Notifier \ {s} : notify'[v] = notify[v]
    <3>1. /\ notify[s].left \in SUBSET (Endpoint \X RowIds) /\ notify[s].got \in Answers
          /\ notify[s].ep \in Endpoint \cup {NoEndpoint} /\ notify[s].id \in 0 .. MaxRows
      BY <1>0 DEF PushTypeOK, Sending
    <3>2. Switch(s, "status", notify[s].left, notify[s].ep, notify[s].id, notify[s].got)
      BY <1>5 DEF DropGone
    <3>3. QED
      BY <1>0, <3>1, <3>2 DEF Switch, PushTypeOK, Sending
  <2>2. notify[s].ep \in dead \cup overtaken /\ notify[s].id \in blamed /\ notify[s].got # "ok"
    BY <1>0, <2>1 DEF SendersJustified
  <2>3. SendersJustified'
    BY <1>0, <2>1, <2>2, <2>f DEF SendersJustified
  <2>4. CASE DeleteRow(notify[s].ep) /\ UNCHANGED silent
    <3>1. PushTypeOK'
      BY <1>0, <2>1, <2>4, <2>f, DeleteRowOK DEF PushTypeOK
    <3>2. RegisteredStays' /\ ErrorIsOwn'
      BY <1>0, <2>1, <2>2, <2>4, DeleteRowOK DEF RegisteredStays, ErrorIsOwn, PushTypeOK
    <3>3. QED
      BY <2>3, <3>1, <3>2 DEF PushInv
  <2>5. CASE Silently /\ UNCHANGED <<device, erred>>
    <3>1. PushTypeOK'
      BY <1>0, <2>1, <2>5, <2>f DEF PushTypeOK, Silently
    <3>2. QED
      BY <1>0, <2>1, <2>3, <2>5, <3>1 DEF PushInv, RegisteredStays, ErrorIsOwn
  <2>6. QED
    BY <1>5, <2>4, <2>5 DEF DropGone
<1>6. ASSUME NEW s \in Notifier, MarkStatus(s) PROVE PushInv'
  <2>1. /\ UNCHANGED <<device, nextRow, wanted, dead, overtaken, blamed>>
        /\ notify[s].pc = "status" /\ notify[s].ep \in Endpoint /\ notify[s].id \in RowIds
        /\ \/ erred' \subseteq erred
           \/ notify[s].got # "ok" /\ erred' = erred \cup RowsToMark(notify[s])
        /\ silent' = silent \/ silent' = silent + 1
    BY <1>0, <1>6 DEF MarkStatus, PushTypeOK, Silently
  <2>f. /\ notify' \in [Notifier -> Sending] /\ notify'[s].pc = "next"
        /\ \A v \in Notifier \ {s} : notify'[v] = notify[v]
    <3>1. /\ notify[s].left \in SUBSET (Endpoint \X RowIds) /\ notify[s].got \in Answers
          /\ notify[s].ep \in Endpoint \cup {NoEndpoint} /\ notify[s].id \in 0 .. MaxRows
      BY <1>0 DEF PushTypeOK, Sending
    <3>2. Switch(s, "next", notify[s].left, notify[s].ep, notify[s].id, notify[s].got)
      BY <1>6 DEF MarkStatus
    <3>3. QED
      BY <1>0, <3>1, <3>2 DEF Switch, PushTypeOK, Sending
  <2>2. \A d \in RowsToMark(notify[s]) : d \in Endpoint /\ device[d] # 0 /\ device[d] = notify[s].id
    BY <2>1 DEF RowsToMark, RowIds
  <2>3. PushTypeOK'
    BY <1>0, <2>1, <2>2, <2>f DEF PushTypeOK
  <2>4. ErrorIsOwn'
    BY <1>0, <2>1, <2>2 DEF ErrorIsOwn, SendersJustified
  <2>5. SendersJustified'
    BY <1>0, <2>1, <2>f DEF SendersJustified
  <2>6. QED
    BY <1>0, <2>1, <2>3, <2>4, <2>5 DEF PushInv, RegisteredStays
<1>7. CASE UNCHANGED pushVars
  BY <1>0, <1>7 DEF pushVars, PushInv, PushTypeOK, RegisteredStays, ErrorIsOwn, SendersJustified
<1>8. QED
  BY <1>1, <1>2, <1>3, <1>4, <1>5, <1>6, <1>7 DEF PushNext, Notifies

\* For any number of devices and senders (RegisterPush, SendToEntity): a registered
\* device stays subscribed until it unregisters or is reported gone, but for the
\* registration that a delete overtakes, and an error shown is of that subscription.
THEOREM PushSubscriptions == PushSpec => [](PushTypeOK /\ SubscriptionKept)
<1>1. PushInv => PushTypeOK /\ SubscriptionKept
  BY DEF PushInv, SubscriptionKept
<1>2. QED
  BY <1>1, PushInitInv, PushStepInv, PTL DEF PushSpec

-----------------------------------------------------------------------------
(* Webhooks *)

\* The list of a delivery: what came up, in turn[m], and what is left have no row in
\* common and no row twice; a row that did not come up was not called.
Listed(m) ==
  /\ delivery[m].pc \in {"idle", "list"} =>
       /\ delivery[m].left = {} /\ turn[m] = <<>> /\ delivery[m].clock = 0
       /\ \A h \in Hook : refused[m][h] = 0
  /\ delivery[m].pc = "done" => delivery[m].left = {}
  /\ \A i, j \in 1 .. Len(turn[m]) : turn[m][i] = turn[m][j] => i = j
  /\ \A i \in 1 .. Len(turn[m]) : turn[m][i] \notin delivery[m].left
  /\ \A h \in delivery[m].left : refused[m][h] = 0

\* the time a webhook that failed at most once may have taken so far
Spent(r) ==
  IF r.attempt = 1 THEN 0
  ELSE IF r.attempt > 2 THEN Patience
  ELSE IF r.pc = "wait" THEN Timeout ELSE Timeout + Delays[2]

\* The webhook that is called: its failures are the attempts before this one, unless
\* the time is over, and so bound the time.
Calling(m) ==
  LET r == delivery[m]  n == Len(turn[m]) IN
  r.pc \in {"wait", "call"} =>
    /\ n > 0 /\ r.cur = turn[m][n] /\ HookOwner[r.cur] # r.sender
    /\ r.pc = "wait" => r.attempt > 1
    /\ r.clock < Deadline => refused[m][r.cur] = r.attempt - 1
    /\ \/ Starved(m, n)
       \/ /\ refused[m][r.cur] = 0 => r.clock <= Share(n - 1)
          /\ refused[m][r.cur] <= 1 => r.clock <= Share(n - 1) + Spent(r)

\* Between two webhooks: each that failed at most once took its share at most.
Between(m) ==
  delivery[m].pc = "next" =>
    Starved(m, Len(turn[m]) + 1) \/ delivery[m].clock <= Share(Len(turn[m]))

DeliveryOK(m) ==
  /\ Listed(m) /\ Calling(m) /\ Between(m)
  /\ \A i \in 1 .. Len(turn[m]) : Accounted(m, i)

HookInv == HookTypeOK /\ \A m \in Sent : DeliveryOK(m)

LEMMA ShareOK ==
  /\ Patience \in Nat /\ Delays[2] \in Nat /\ Patience = 2 * Timeout + Delays[2]
  /\ \A n \in Nat : Share(n) \in Nat /\ Share(n + 1) = Share(n) + Patience
  /\ \A a \in Attempt : Delays[a] \in Nat
<1>1. Delays \in Seq(Nat) /\ Len(Delays) > 1 /\ Timeout \in Nat
  BY WebhooksAssumption
<1>2. \A a \in Attempt : Delays[a] \in Nat
  BY <1>1 DEF Attempt
<1>3. Delays[2] \in Nat
  BY <1>1
<1>4. Patience \in Nat /\ Patience = 2 * Timeout + Delays[2]
  BY <1>1, <1>3 DEF Patience
<1>5. \A n \in Nat : Share(n) \in Nat /\ Share(n + 1) = Share(n) + Patience
  BY <1>4 DEF Share
<1>6. QED
  BY <1>2, <1>3, <1>4, <1>5

LEMMA ShareGrows ==
  ASSUME NEW n \in Nat, NEW k \in Nat, n <= k
  PROVE  Share(n) <= Share(k)
<1>1. Patience \in Nat
  BY ShareOK
<1>2. k = n + (k - n) /\ k - n \in Nat
  OBVIOUS
<1>3. k * Patience = n * Patience + (k - n) * Patience
  BY <1>1, <1>2
<1>4. (k - n) * Patience \in Nat /\ n * Patience \in Nat
  BY <1>1, <1>2
<1>5. QED
  BY <1>3, <1>4 DEF Share

\* The rows of a list only gain failures, so a starved row stays starved, and so are
\* those after it.
LEMMA StarvedStays ==
  ASSUME HookTypeOK, HookTypeOK', NEW m \in Sent, NEW i \in Nat \ {0}, NEW k \in Nat,
         i <= k, i <= Len(turn[m]) + 1,
         \A j \in 1 .. i - 1 : turn'[m][j] = turn[m][j],
         \A h \in Hook : refused[m][h] <= refused'[m][h], Starved(m, i)
  PROVE  Starved(m, k)'
<1>1. CASE Deadline <= Share(i - 1)
  <2>1. Share(i - 1) <= Share(k - 1) /\ Share(i - 1) \in Nat /\ Share(k - 1) \in Nat
    <3>1. i - 1 \in Nat /\ k - 1 \in Nat /\ i - 1 <= k - 1
      OBVIOUS
    <3>2. QED
      BY <3>1, ShareGrows, ShareOK
  <2>2. Deadline <= Share(k - 1)
    BY <1>1, <2>1, WebhooksAssumption
  <2>3. QED
    BY <2>2 DEF Starved, Share, Patience
<1>2. ASSUME NEW j \in 1 .. i - 1, refused[m][turn[m][j]] > 1 PROVE Starved(m, k)'
  <2>1. turn[m][j] \in Hook /\ turn'[m][j] = turn[m][j] /\ j \in 1 .. k - 1
    BY DEF HookTypeOK
  <2>2. refused'[m][turn[m][j]] > 1
    BY <1>2, <2>1 DEF HookTypeOK
  <2>3. QED
    BY <2>1, <2>2 DEF Starved
<1>3. QED
  BY <1>1, <1>2 DEF Starved

\* A row the goroutine has passed on from stays accounted for.
LEMMA AccountedStays ==
  ASSUME HookTypeOK, HookTypeOK', NEW m \in Sent, NEW i \in 1 .. Len(turn[m]),
         Accounted(m, i), ~Engaged(m, turn[m][i]),
         \A j \in 1 .. i : turn'[m][j] = turn[m][j],
         \A h \in Hook : refused[m][h] <= refused'[m][h],
         refused'[m][turn[m][i]] = refused[m][turn[m][i]],
         accepted \subseteq accepted', delivery'[m].sender = delivery[m].sender,
         delivery[m].clock = Deadline => delivery'[m].clock = Deadline
  PROVE  Accounted(m, i)'
<1>1. Starved(m, i) => Starved(m, i)'
  BY StarvedStays, i \in Nat \ {0}, i <= Len(turn[m]) + 1
<1>2. turn'[m][i] = turn[m][i]
  OBVIOUS
<1>3. QED
  BY <1>1, <1>2 DEF Accounted

LEMMA HookFrame ==
  ASSUME NEW m \in Sent, DeliveryOK(m), delivery'[m] = delivery[m], turn'[m] = turn[m],
         refused'[m] = refused[m], accepted \subseteq accepted'
  PROVE  DeliveryOK(m)'
<1>1. \A i : Starved(m, i)' <=> Starved(m, i)
  BY DEF Starved, Share, Patience
<1>2. Listed(m)' /\ Between(m)'
  BY <1>1 DEF DeliveryOK, Listed, Between, Share, Patience
<1>3. Calling(m)'
  BY <1>1 DEF DeliveryOK, Calling, Spent, Share, Patience
<1>4. \A i \in 1 .. Len(turn[m]) : Accounted(m, i)'
  BY <1>1 DEF DeliveryOK, Accounted, Engaged
<1>5. QED
  BY <1>2, <1>3, <1>4 DEF DeliveryOK

LEMMA HookInitInv == HookInit => HookInv
<1> SUFFICES ASSUME HookInit PROVE HookInv
  OBVIOUS
<1>1. 1 \in Attempt /\ 0 \in 0 .. Deadline /\ {} \in SUBSET Hook
  BY WebhooksAssumption DEF Attempt
<1>2. HookTypeOK
  BY <1>1 DEF HookInit, HookTypeOK, Delivery, Idle
<1>3. ASSUME NEW m \in Sent PROVE DeliveryOK(m)
  <2>1. delivery[m] = Idle /\ turn[m] = <<>> /\ \A h \in Hook : refused[m][h] = 0
    BY DEF HookInit
  <2>2. Listed(m) /\ Calling(m) /\ Between(m)
    BY <2>1 DEF Listed, Calling, Between, Idle
  <2>3. QED
    BY <2>1, <2>2 DEF DeliveryOK
<1>4. QED
  BY <1>2, <1>3 DEF HookInv

LEMMA RecordOK ==
  ASSUME HookTypeOK, NEW m \in Sent
  PROVE  /\ delivery[m] \in Delivery
         /\ delivery[m].sender \in Subscriber \cup {NoOne} /\ delivery[m].left \in SUBSET Hook
         /\ delivery[m].cur \in Hook \cup {NoOne} /\ delivery[m].attempt \in Attempt
         /\ delivery[m].clock \in 0 .. Deadline /\ delivery[m].attempt \in Nat \ {0}
         /\ delivery[m].clock \in Nat /\ Deadline \in Nat \ {0}
         /\ turn[m] \in Seq(Hook) /\ \A h \in Hook : refused[m][h] \in Nat
<1>1. delivery[m] \in Delivery /\ turn[m] \in Seq(Hook) /\ \A h \in Hook : refused[m][h] \in Nat
  BY DEF HookTypeOK
<1>2. /\ delivery[m].sender \in Subscriber \cup {NoOne} /\ delivery[m].left \in SUBSET Hook
      /\ delivery[m].cur \in Hook \cup {NoOne} /\ delivery[m].attempt \in Attempt
      /\ delivery[m].clock \in 0 .. Deadline
  BY <1>1 DEF Delivery
<1>3. delivery[m].attempt \in Nat \ {0} /\ Deadline \in Nat \ {0}
  BY <1>2, WebhooksAssumption DEF Attempt
<1>4. QED
  BY <1>1, <1>2, <1>3

LEMMA BecomeOK ==
  ASSUME HookTypeOK, NEW m \in Sent, NEW r, Become(m, r)
  PROVE  /\ delivery'[m] = r /\ \A n \in Sent \ {m} : delivery'[n] = delivery[n]
         /\ r \in Delivery => delivery' \in [Sent -> Delivery]
BY DEF HookTypeOK, Become

\* Coming to the next row, or to the end of the list.
LEMMA NextWebhookInv ==
  ASSUME HookInv, NEW m \in Sent, NextWebhook(m)
  PROVE  HookTypeOK' /\ DeliveryOK(m)'
<1>d. PICK r : r = delivery[m]
  OBVIOUS
<1>l. PICK n : n = Len(turn[m])
  OBVIOUS
<1>0. HookTypeOK /\ Listed(m) /\ Between(m) /\ \A i \in 1 .. n : Accounted(m, i)
  BY <1>l DEF HookInv, DeliveryOK
<1>r. /\ r.pc = "next" /\ r.left \in SUBSET Hook /\ n \in Nat /\ turn[m] \in Seq(Hook)
      /\ r.clock \in Nat /\ r \in Delivery /\ UNCHANGED <<hook, takesPart, refused, accepted>>
  <2>1. r.pc = "next" /\ UNCHANGED <<hook, takesPart, refused, accepted>>
    BY <1>d DEF NextWebhook
  <2>2. r.left \in SUBSET Hook /\ turn[m] \in Seq(Hook) /\ r.clock \in Nat /\ r \in Delivery
    BY <1>0, <1>d, RecordOK
  <2>3. QED
    BY <1>l, <2>1, <2>2
<1>n. \A h : ~Engaged(m, h)
  BY <1>d, <1>r DEF Engaged
<1>1. ASSUME NEW h \in r.left,
             Become(m, IF HookOwner[h] = r.sender THEN [r EXCEPT !.left = r.left \ {h}]
                       ELSE [r EXCEPT !.pc = "call", !.left = r.left \ {h}, !.cur = h,
                                      !.attempt = 1]),
             turn' = [turn EXCEPT ![m] = Append(turn[m], h)]
      PROVE  HookTypeOK' /\ DeliveryOK(m)'
  <2>1. /\ h \in Hook /\ turn' \in [Sent -> Seq(Hook)] /\ turn'[m] = Append(turn[m], h)
        /\ Len(turn'[m]) = n + 1 /\ turn'[m][n + 1] = h
        /\ \A i \in 1 .. n : turn'[m][i] = turn[m][i]
    BY <1>0, <1>d, <1>l, <1>1, <1>r DEF HookTypeOK
  <2>2. PICK q : q = IF HookOwner[h] = r.sender THEN [r EXCEPT !.left = r.left \ {h}]
                     ELSE [r EXCEPT !.pc = "call", !.left = r.left \ {h}, !.cur = h,
                                    !.attempt = 1]
    OBVIOUS
  <2>q. /\ q \in Delivery
        /\ q.left = r.left \ {h} /\ q.sender = r.sender /\ q.clock = r.clock
        /\ \/ HookOwner[h] = r.sender /\ q.pc = "next"
           \/ HookOwner[h] # r.sender /\ q.pc = "call" /\ q.cur = h /\ q.attempt = 1
    <3>1. 1 \in Attempt /\ r.left \ {h} \in SUBSET Hook /\ h \in Hook \cup {NoOne}
      BY <1>r, <2>1, WebhooksAssumption DEF Attempt
    <3>2. CASE HookOwner[h] = r.sender
      <4>1. q = [r EXCEPT !.left = r.left \ {h}]
        BY <2>2, <3>2
      <4>2. QED
        BY <1>r, <3>1, <3>2, <4>1 DEF Delivery
    <3>3. CASE HookOwner[h] # r.sender
      <4>1. q = [r EXCEPT !.pc = "call", !.left = r.left \ {h}, !.cur = h, !.attempt = 1]
        BY <2>2, <3>3
      <4>2. QED
        BY <1>r, <3>1, <3>3, <4>1 DEF Delivery
    <3>4. QED
      BY <3>2, <3>3
  <2>b. /\ delivery' \in [Sent -> Delivery] /\ delivery'[m] = q
        /\ \A v \in Sent \ {m} : delivery'[v] = delivery[v]
    <3>1. Become(m, q)
      BY <1>1, <2>2
    <3>2. QED
      BY <1>0, <2>q, <3>1, BecomeOK
  <2>3. HookTypeOK'
    <3>1. \A v \in Sent : delivery'[v].pc \in {"wait", "call"} => delivery'[v].cur \in Hook
      BY <1>0, <2>1, <2>b, <2>q DEF HookTypeOK
    <3>2. QED
      BY <1>0, <1>r, <2>1, <2>b, <3>1 DEF HookTypeOK
  <2>4. /\ delivery'[m].left = r.left \ {h} /\ delivery'[m].sender = r.sender
        /\ delivery'[m].clock = r.clock
        /\ \/ HookOwner[h] = r.sender /\ delivery'[m].pc = "next"
           \/ /\ HookOwner[h] # r.sender /\ delivery'[m].pc = "call"
              /\ delivery'[m].cur = h /\ delivery'[m].attempt = 1
    BY <2>b, <2>q
  <2>5. Listed(m)'
    <3>1. \A i \in 1 .. n : turn[m][i] # h /\ turn[m][i] \notin r.left
      BY <1>0, <1>d, <1>l DEF Listed
    <3>2. \A i, j \in 1 .. n + 1 : turn'[m][i] = turn'[m][j] => i = j
      <4>1. \A i, j \in 1 .. n : turn[m][i] = turn[m][j] => i = j
        BY <1>0, <1>l DEF Listed
      <4>2. \A i \in 1 .. n + 1 : i \in 1 .. n \/ i = n + 1
        BY <1>r
      <4>3. QED
        BY <2>1, <3>1, <4>1, <4>2
    <3>3. \A i \in 1 .. n + 1 : turn'[m][i] \notin r.left \ {h}
      <4>1. \A i \in 1 .. n + 1 : i \in 1 .. n \/ i = n + 1
        BY <1>r
      <4>2. QED
        BY <2>1, <3>1, <4>1
    <3>4. \A g \in r.left \ {h} : refused'[m][g] = 0
      BY <1>0, <1>d, <1>r DEF Listed
    <3>5. QED
      BY <2>1, <2>4, <3>2, <3>3, <3>4 DEF Listed
  <2>6. Starved(m, n + 1) => Starved(m, n + 1)' /\ Starved(m, n + 2)'
    <3>1. \A g \in Hook : refused[m][g] <= refused'[m][g]
      BY <1>0, <1>r, RecordOK
    <3>2. /\ n + 1 \in Nat \ {0} /\ n + 1 \in Nat /\ n + 2 \in Nat /\ n + 1 <= n + 2
          /\ n + 1 <= n + 1 /\ n + 1 <= Len(turn[m]) + 1
      BY <1>l, <1>r
    <3>3. \A j \in 1 .. (n + 1) - 1 : turn'[m][j] = turn[m][j]
      BY <1>r, <2>1
    <3>4. ASSUME Starved(m, n + 1) PROVE Starved(m, n + 1)'
      BY <1>0, <2>3, <3>1, <3>2, <3>3, <3>4, StarvedStays
    <3>5. ASSUME Starved(m, n + 1) PROVE Starved(m, n + 2)'
      BY <1>0, <2>3, <3>1, <3>2, <3>3, <3>5, StarvedStays
    <3>6. QED
      BY <3>4, <3>5
  <2>7. Starved(m, n + 1) \/ r.clock <= Share(n)
    BY <1>0, <1>d, <1>l, <1>r DEF Between
  <2>8. Calling(m)'
    <3>1. refused[m][h] = 0 /\ Share(n) \in Nat /\ refused' = refused
      BY <1>0, <1>d, <1>l, <1>r, ShareOK DEF Listed
    <3>2. CASE delivery'[m].pc = "call"
      <4>1. /\ delivery'[m].cur = turn'[m][n + 1] /\ HookOwner[h] # delivery'[m].sender
            /\ delivery'[m].attempt = 1
        BY <2>1, <2>4, <3>2
      <4>2. Spent(delivery'[m]) = 0
        BY <4>1 DEF Spent
      <4>3. Starved(m, n + 1)' \/ delivery'[m].clock <= Share(n)
        BY <2>4, <2>6, <2>7
      <4>4. (n + 1) - 1 = n /\ n + 1 > 0
        BY <1>r
      <4>5. Spent(delivery[m])' = 0 /\ Share(n)' = Share(n)
        BY <4>2 DEF Spent, Share, Patience
      <4>6. delivery'[m].clock <= Share(n) => delivery'[m].clock <= Share(n) + 0
        BY <1>r, <2>4, <3>1
      <4>7. delivery'[m].cur = h /\ refused'[m][h] = 0
        BY <2>4, <3>1, <3>2
      <4>8. QED
        BY <2>1, <3>1, <3>2, <4>1, <4>3, <4>4, <4>5, <4>6, <4>7
        DEF Calling, Share, Patience
    <3>3. CASE delivery'[m].pc = "next"
      BY <3>3 DEF Calling
    <3>4. QED
      BY <2>4, <3>2, <3>3
  <2>9. Between(m)'
    <3>1. Share(n) \in Nat /\ Share(n + 1) = Share(n) + Patience /\ Patience \in Nat
      BY <1>r, ShareOK
    <3>2. r.clock <= Share(n) => r.clock <= Share(n + 1)
      BY <1>r, <3>1
    <3>3. (n + 1) + 1 = n + 2 /\ Share(n + 1)' = Share(n + 1)
      BY <1>r DEF Share, Patience
    <3>4. QED
      BY <2>1, <2>4, <2>6, <2>7, <3>2, <3>3 DEF Between, Share, Patience
  <2>10. ASSUME NEW i \in 1 .. n PROVE Accounted(m, i)'
    <3>1. \A g \in Hook : refused[m][g] <= refused'[m][g]
      BY <1>0, <1>d, <1>l, <1>r, RecordOK
    <3>2. /\ i \in 1 .. Len(turn[m]) /\ \A j \in 1 .. i : turn'[m][j] = turn[m][j]
          /\ delivery'[m].sender = delivery[m].sender
          /\ delivery'[m].clock = delivery[m].clock
          /\ ~Engaged(m, turn[m][i]) /\ accepted \subseteq accepted' /\ refused' = refused
      BY <1>d, <1>l, <1>n, <1>r, <2>1, <2>4
    <3>3. refused'[m][turn[m][i]] = refused[m][turn[m][i]] /\ Accounted(m, i)
      BY <1>0, <3>2
    <3>4. QED
      BY <1>0, <2>3, <3>1, <3>2, <3>3, AccountedStays
  <2>11. Accounted(m, n + 1)'
    BY <2>1, <2>4 DEF Accounted, Engaged
  <2>12. QED
    BY <1>l, <1>r, <2>1, <2>3, <2>5, <2>8, <2>9, <2>10, <2>11 DEF DeliveryOK
<1>2. CASE r.left = {} /\ Become(m, [r EXCEPT !.pc = "done"]) /\ UNCHANGED turn
  <2>1. /\ delivery'[m].pc = "done" /\ delivery'[m].left = {}
        /\ delivery'[m].sender = r.sender /\ delivery'[m].clock = r.clock
    BY <1>0, <1>2, <1>r, BecomeOK DEF Delivery
  <2>2. HookTypeOK'
    <3>1. [r EXCEPT !.pc = "done"] \in Delivery
      BY <1>r DEF Delivery
    <3>2. delivery' \in [Sent -> Delivery] /\ \A v \in Sent \ {m} : delivery'[v] = delivery[v]
      BY <1>0, <1>2, <3>1, BecomeOK
    <3>3. QED
      BY <1>0, <1>r, <1>2, <2>1, <3>2 DEF HookTypeOK
  <2>3. Listed(m)' /\ Calling(m)' /\ Between(m)'
    BY <1>0, <1>d, <1>l, <1>r, <1>2, <2>1 DEF Listed, Calling, Between
  <2>4. ASSUME NEW i \in 1 .. n PROVE Accounted(m, i)'
    <3>1. \A g \in Hook : refused[m][g] <= refused'[m][g]
      BY <1>0, <1>d, <1>l, <1>r, RecordOK
    <3>2. QED
      BY <1>0, <1>d, <1>l, <1>2, <1>r, <1>n, <2>1, <2>2, <3>1, AccountedStays
  <2>5. QED
    BY <1>l, <1>2, <2>2, <2>3, <2>4 DEF DeliveryOK
<1>3. QED
  BY <1>d, <1>1, <1>2 DEF NextWebhook

\* A step of the call of one webhook changes nothing of the others.
LEMMA CalledStep ==
  ASSUME HookInv, HookTypeOK', NEW m \in Sent, delivery[m].pc \in {"wait", "call"},
         turn' = turn, accepted \subseteq accepted',
         \A g \in Hook : refused[m][g] <= refused'[m][g],
         \A g \in Hook \ {delivery[m].cur} : refused'[m][g] = refused[m][g],
         delivery'[m].left = delivery[m].left, delivery'[m].sender = delivery[m].sender,
         delivery[m].clock <= delivery'[m].clock,
         delivery'[m].pc \in {"next", "wait", "call"}
  PROVE  /\ Listed(m)'
         /\ \A i \in 1 .. Len(turn[m]) - 1 : Accounted(m, i)'
         /\ Starved(m, Len(turn[m])) =>
              Starved(m, Len(turn[m]))' /\ Starved(m, Len(turn[m]) + 1)'
<1>l. PICK n : n = Len(turn[m])
  OBVIOUS
<1>0. /\ HookTypeOK /\ Listed(m) /\ Calling(m) /\ \A i \in 1 .. n : Accounted(m, i)
      /\ n \in Nat /\ turn[m] \in Seq(Hook) /\ turn'[m] = turn[m]
  BY <1>l DEF HookInv, DeliveryOK, HookTypeOK
<1>1. /\ n > 0 /\ delivery[m].cur = turn[m][n] /\ n \in 1 .. n
  BY <1>0, <1>l DEF Calling
<1>2. Listed(m)'
  <2>1. delivery[m].cur \notin delivery[m].left /\ delivery[m].left \in SUBSET Hook
    BY <1>0, <1>1, <1>l, RecordOK DEF Listed
  <2>2. \A g \in delivery[m].left : refused'[m][g] = 0
    BY <1>0, <2>1 DEF Listed
  <2>3. QED
    BY <1>0, <1>l, <2>2 DEF Listed
<1>3. ASSUME NEW i \in 1 .. n - 1 PROVE Accounted(m, i)'
  <2>1. i \in 1 .. n /\ i # n /\ turn[m][i] # delivery[m].cur /\ turn[m][i] \in Hook
    BY <1>0, <1>1, <1>l DEF Listed
  <2>2. ~Engaged(m, turn[m][i]) /\ refused'[m][turn[m][i]] = refused[m][turn[m][i]]
    BY <2>1 DEF Engaged
  <2>3. delivery[m].clock = Deadline => delivery'[m].clock = Deadline
    <3>1. delivery'[m].clock \in 0 .. Deadline
      BY DEF HookTypeOK, Delivery
    <3>2. QED
      BY <3>1, WebhooksAssumption
  <2>4. i \in 1 .. Len(turn[m]) /\ \A j \in 1 .. i : turn'[m][j] = turn[m][j]
    BY <1>0, <1>l, <2>1
  <2>5. Accounted(m, i)
    BY <1>0, <2>1
  <2>6. QED
    BY <1>0, <2>2, <2>3, <2>4, <2>5, AccountedStays
<1>4. /\ n \in Nat \ {0} /\ n + 1 \in Nat /\ n <= n /\ n <= n + 1 /\ n <= Len(turn[m]) + 1
      /\ \A j \in 1 .. n - 1 : turn'[m][j] = turn[m][j]
  BY <1>0, <1>1, <1>l
<1>5. ASSUME Starved(m, n) PROVE Starved(m, n)'
  BY <1>0, <1>4, <1>5, StarvedStays
<1>6. ASSUME Starved(m, n) PROVE Starved(m, n + 1)'
  BY <1>0, <1>4, <1>6, StarvedStays
<1>7. QED
  BY <1>2, <1>3, <1>5, <1>6, <1>l

\* What the invariant says of the webhook that is called.
Called(m, r, n) ==
  /\ r \in Delivery /\ r.cur \in Hook /\ r.attempt \in Attempt /\ r.attempt \in Nat \ {0}
  /\ r.clock \in Nat /\ r.clock <= Deadline /\ Deadline \in Nat \ {0}
  /\ n \in Nat \ {0} /\ r.cur = turn[m][n] /\ HookOwner[r.cur] # r.sender
  /\ refused[m][r.cur] \in Nat
  /\ r.pc = "wait" => r.attempt > 1
  /\ r.clock < Deadline => refused[m][r.cur] = r.attempt - 1
  /\ \/ Starved(m, n)
     \/ /\ refused[m][r.cur] = 0 => r.clock <= Share(n - 1)
        /\ refused[m][r.cur] <= 1 => r.clock <= Share(n - 1) + Spent(r)
  /\ Share(n - 1) \in Nat /\ Share(n) = Share(n - 1) + Patience

LEMMA CallFacts ==
  ASSUME HookInv, NEW m \in Sent, delivery[m].pc \in {"wait", "call"},
         NEW r, r = delivery[m], NEW n, n = Len(turn[m])
  PROVE  Called(m, r, n)
<1>0. HookTypeOK /\ Calling(m)
  BY DEF HookInv, DeliveryOK
<1>1. /\ r \in Delivery /\ r.attempt \in Attempt /\ r.attempt \in Nat \ {0} /\ r.clock \in Nat
      /\ r.clock <= Deadline /\ Deadline \in Nat \ {0} /\ turn[m] \in Seq(Hook)
      /\ \A h \in Hook : refused[m][h] \in Nat
  BY <1>0, RecordOK
<1>2. r.cur \in Hook
  BY <1>0 DEF HookTypeOK
<1>3. n \in Nat \ {0}
  BY <1>0, <1>1 DEF Calling
<1>4. Share(n - 1) \in Nat /\ Share(n) = Share(n - 1) + Patience
  <2>1. n - 1 \in Nat /\ (n - 1) + 1 = n
    BY <1>3
  <2>2. QED
    BY <2>1, ShareOK
<1>5. QED
  BY <1>0, <1>1, <1>2, <1>3, <1>4 DEF Calling, Called

LEMMA CallingNext ==
  ASSUME NEW m \in Sent, NEW q, NEW n \in Nat \ {0}, delivery'[m] = q, Len(turn'[m]) = n,
         q.cur = turn'[m][n], HookOwner[q.cur] # q.sender,
         q.pc = "wait" => q.attempt > 1,
         q.clock < Deadline => refused'[m][q.cur] = q.attempt - 1,
         \/ Starved(m, n)'
         \/ /\ refused'[m][q.cur] = 0 => q.clock <= Share(n - 1)
            /\ refused'[m][q.cur] <= 1 => q.clock <= Share(n - 1) + Spent(q)
  PROVE  Calling(m)'
<1>1. Spent(delivery[m])' = Spent(q)
  BY DEF Spent, Patience
<1>2. Share(Len(turn[m]) - 1)' = Share(n - 1)
  BY DEF Share, Patience
<1>3. n > 0
  OBVIOUS
<1>4. Starved(m, Len(turn[m]))' <=> Starved(m, n)'
  BY DEF Starved, Share, Patience
<1>5. QED
  BY <1>1, <1>2, <1>3, <1>4 DEF Calling

LEMMA BetweenNext ==
  ASSUME NEW m \in Sent, NEW q, NEW n \in Nat, delivery'[m] = q, Len(turn'[m]) = n,
         Starved(m, n + 1)' \/ q.clock <= Share(n)
  PROVE  Between(m)'
<1>1. Share(Len(turn[m]))' = Share(n)
  BY DEF Share, Patience
<1>2. Starved(m, Len(turn[m]) + 1)' <=> Starved(m, n + 1)'
  BY DEF Starved, Share, Patience
<1>3. QED
  BY <1>1, <1>2 DEF Between

\* The wait before a retry.
LEMMA WaitForRetryInv ==
  ASSUME HookInv, NEW m \in Sent, WaitForRetry(m)
  PROVE  HookTypeOK' /\ DeliveryOK(m)'
<1>d. PICK r : r = delivery[m]
  OBVIOUS
<1>l. PICK n : n = Len(turn[m])
  OBVIOUS
<1>p. r.pc = "wait" /\ UNCHANGED <<hook, takesPart, refused, accepted, turn>>
  BY <1>d DEF WaitForRetry
<1>0. HookTypeOK
  BY DEF HookInv
<1>f. Called(m, r, n) /\ r.attempt > 1
  <2>1. delivery[m].pc \in {"wait", "call"}
    BY <1>d, <1>p
  <2>2. Called(m, r, n)
    BY <1>d, <1>l, <2>1, CallFacts
  <2>3. QED
    BY <1>p, <2>2 DEF Called
<1> USE DEF Called
<1>D. PICK over : over = r.clock + Delays[r.attempt] /\ over \in Nat /\ over >= r.clock
  <2>1. Delays[r.attempt] \in Nat
    BY <1>f, ShareOK
  <2>2. QED
    BY <1>f, <2>1
<1>s. /\ Patience \in Nat /\ Timeout \in Nat /\ Delays[2] \in Nat
      /\ Patience = 2 * Timeout + Delays[2]
  BY ShareOK, WebhooksAssumption
<1>1. ASSUME over <= Deadline, Become(m, [r EXCEPT !.pc = "call", !.clock = over])
      PROVE  HookTypeOK' /\ DeliveryOK(m)'
  <2>1. PICK q : q = [r EXCEPT !.pc = "call", !.clock = over]
    OBVIOUS
  <2>2. /\ q \in Delivery /\ q.pc = "call" /\ q.clock = over /\ q.cur = r.cur
        /\ q.sender = r.sender /\ q.left = r.left /\ q.attempt = r.attempt
    <3>1. over \in 0 .. Deadline
      BY <1>1, <1>D, <1>f
    <3>2. QED
      BY <1>f, <2>1, <3>1 DEF Delivery
  <2>3. /\ delivery' \in [Sent -> Delivery] /\ delivery'[m] = q
        /\ \A v \in Sent \ {m} : delivery'[v] = delivery[v]
    <3>1. Become(m, q)
      BY <1>1, <2>1
    <3>2. QED
      BY <1>0, <2>2, <3>1, BecomeOK
  <2>4. HookTypeOK'
    BY <1>0, <1>f, <1>p, <2>2, <2>3 DEF HookTypeOK
  <2>5. /\ Listed(m)' /\ \A i \in 1 .. n - 1 : Accounted(m, i)'
        /\ Starved(m, n) => Starved(m, n)' /\ Starved(m, n + 1)'
    <3>1. \A g \in Hook : refused[m][g] <= refused'[m][g]
      BY <1>0, <1>p, RecordOK
    <3>2. /\ delivery[m].pc \in {"wait", "call"} /\ delivery'[m].pc \in {"next", "wait", "call"}
          /\ delivery[m].clock <= delivery'[m].clock
          /\ delivery'[m].left = delivery[m].left /\ delivery'[m].sender = delivery[m].sender
      BY <1>D, <1>d, <1>p, <2>2, <2>3
    <3>3. QED
      BY <1>l, <1>p, <2>4, <3>1, <3>2, CalledStep
  <2>6. r.clock < Deadline \/ over = r.clock
    BY <1>1, <1>D, <1>f
  <2>7. refused[m][r.cur] <= 1 /\ r.clock <= Share(n - 1) + Spent(r)
        => over <= Share(n - 1) + Spent(q)
    <3>1. CASE over = r.clock
      <4>1. CASE r.attempt = 2
        <5>1. Spent(r) = Timeout /\ Spent(q) = Timeout + Delays[2]
          BY <1>p, <2>2, <4>1 DEF Spent
        <5>2. QED
          BY <1>f, <1>s, <3>1, <5>1
      <4>2. CASE r.attempt > 2
        <5>1. Spent(r) = Patience /\ Spent(q) = Patience
          BY <2>2, <4>2 DEF Spent
        <5>2. QED
          BY <3>1, <5>1
      <4>3. QED
        BY <1>f, <4>1, <4>2
    <3>2. CASE r.clock < Deadline /\ r.attempt = 2
      <4>1. Spent(r) = Timeout /\ Spent(q) = Timeout + Delays[2]
        BY <1>p, <2>2, <3>2 DEF Spent
      <4>2. QED
        BY <1>D, <1>f, <1>s, <3>2, <4>1
    <3>3. CASE r.clock < Deadline /\ r.attempt # 2
      BY <1>f, <3>3
    <3>4. QED
      BY <2>6, <3>1, <3>2, <3>3
  <2>8. refused[m][r.cur] = 0 => over = r.clock
    BY <1>f, <2>6
  <2>9. Calling(m)'
    <3>1. \/ Starved(m, n)'
          \/ /\ refused'[m][q.cur] = 0 => q.clock <= Share(n - 1)
             /\ refused'[m][q.cur] <= 1 => q.clock <= Share(n - 1) + Spent(q)
      BY <1>f, <1>p, <2>2, <2>5, <2>7, <2>8
    <3>2. q.clock < Deadline => refused'[m][q.cur] = q.attempt - 1
      BY <1>D, <1>f, <1>p, <2>2
    <3>3. /\ q.cur = turn'[m][n] /\ HookOwner[q.cur] # q.sender /\ Len(turn'[m]) = n
          /\ q.pc = "wait" => q.attempt > 1
      BY <1>f, <1>l, <1>p, <2>2
    <3>4. QED
      BY <1>f, <2>3, <3>1, <3>2, <3>3, CallingNext
  <2>10. Between(m)'
    BY <2>2, <2>3 DEF Between
  <2>11. Accounted(m, n)'
    BY <1>f, <1>p, <2>2, <2>3 DEF Accounted, Engaged
  <2>12. \A i \in 1 .. Len(turn'[m]) : Accounted(m, i)'
    BY <1>f, <1>l, <1>p, <2>5, <2>11
  <2>13. QED
    BY <2>4, <2>5, <2>9, <2>10, <2>12 DEF DeliveryOK
<1>2. ASSUME over >= Deadline, Become(m, [r EXCEPT !.pc = "next", !.clock = Deadline])
      PROVE  HookTypeOK' /\ DeliveryOK(m)'
  <2>1. PICK q : q = [r EXCEPT !.pc = "next", !.clock = Deadline]
    OBVIOUS
  <2>2. /\ q \in Delivery /\ q.pc = "next" /\ q.clock = Deadline /\ q.cur = r.cur
        /\ q.sender = r.sender /\ q.left = r.left
    <3>1. Deadline \in 0 .. Deadline
      BY <1>f
    <3>2. QED
      BY <1>f, <2>1, <3>1 DEF Delivery
  <2>3. /\ delivery' \in [Sent -> Delivery] /\ delivery'[m] = q
        /\ \A v \in Sent \ {m} : delivery'[v] = delivery[v]
    <3>1. Become(m, q)
      BY <1>2, <2>1
    <3>2. QED
      BY <1>0, <2>2, <3>1, BecomeOK
  <2>4. HookTypeOK'
    BY <1>0, <1>f, <1>p, <2>2, <2>3 DEF HookTypeOK
  <2>5. /\ Listed(m)' /\ \A i \in 1 .. n - 1 : Accounted(m, i)'
        /\ Starved(m, n) => Starved(m, n)' /\ Starved(m, n + 1)'
    <3>1. \A g \in Hook : refused[m][g] <= refused'[m][g]
      BY <1>0, <1>p, RecordOK
    <3>2. /\ delivery[m].pc \in {"wait", "call"} /\ delivery'[m].pc \in {"next", "wait", "call"}
          /\ delivery[m].clock <= delivery'[m].clock
          /\ delivery'[m].left = delivery[m].left /\ delivery'[m].sender = delivery[m].sender
      BY <1>d, <1>f, <1>p, <2>2, <2>3
    <3>3. QED
      BY <1>l, <1>p, <2>4, <3>1, <3>2, CalledStep
  <2>6. ASSUME refused[m][r.cur] <= 1, r.clock <= Share(n - 1) + Spent(r)
        PROVE  Deadline <= Share(n)
    <3>1. CASE r.attempt = 2
      <4>1. Spent(r) = Timeout /\ over = r.clock + Delays[2]
        BY <1>D, <1>p, <3>1 DEF Spent
      <4>2. QED
        BY <1>2, <1>f, <1>s, <2>6, <4>1
    <3>2. CASE r.attempt > 2
      <4>1. Spent(r) = Patience /\ r.clock = Deadline
        BY <1>f, <2>6, <3>2 DEF Spent
      <4>2. QED
        BY <1>f, <1>s, <2>6, <4>1
    <3>3. QED
      BY <1>f, <3>1, <3>2
  <2>7. refused[m][r.cur] > 1 => Starved(m, n + 1)'
    BY <1>f, <1>p DEF Starved
  <2>8. Between(m)'
    <3>1. Starved(m, n + 1)' \/ q.clock <= Share(n)
      BY <1>f, <2>2, <2>5, <2>6, <2>7
    <3>2. QED
      BY <1>f, <1>l, <1>p, <2>3, <3>1, BetweenNext
  <2>9. Accounted(m, n)'
    <3>1. CASE refused[m][r.cur] > 0
      BY <1>f, <1>p, <2>2, <2>3, <3>1 DEF Accounted
    <3>2. CASE refused[m][r.cur] = 0
      <4>1. r.clock = Deadline
        BY <1>f, <3>2
      <4>2. Starved(m, n)'
        BY <1>f, <2>5, <3>2, <4>1 DEF Starved, Share, Patience
      <4>3. QED
        BY <2>2, <2>3, <4>2 DEF Accounted
    <3>3. QED
      BY <1>f, <3>1, <3>2
  <2>10. \A i \in 1 .. Len(turn'[m]) : Accounted(m, i)'
    BY <1>f, <1>l, <1>p, <2>5, <2>9
  <2>11. Calling(m)'
    BY <2>2, <2>3 DEF Calling
  <2>12. QED
    BY <2>4, <2>5, <2>8, <2>10, <2>11 DEF DeliveryOK
<1>3. QED
  BY <1>d, <1>D, <1>1, <1>2 DEF WaitForRetry

\* An attempt: an answer in time, or a failure.
LEMMA CallWebhookInv ==
  ASSUME HookInv, NEW m \in Sent, CallWebhook(m)
  PROVE  HookTypeOK' /\ DeliveryOK(m)'
<1>d. PICK r : r = delivery[m]
  OBVIOUS
<1>l. PICK n : n = Len(turn[m])
  OBVIOUS
<1>p. r.pc = "call" /\ UNCHANGED <<hook, takesPart, turn>>
  BY <1>d DEF CallWebhook
<1>0. HookTypeOK
  BY DEF HookInv
<1>f. Called(m, r, n)
  <2>1. delivery[m].pc \in {"wait", "call"}
    BY <1>d, <1>p
  <2>2. QED
    BY <1>d, <1>l, <2>1, CallFacts
<1> USE DEF Called
<1>s. /\ Patience \in Nat /\ Timeout \in Nat /\ Delays[2] \in Nat
      /\ Patience = 2 * Timeout + Delays[2]
  BY ShareOK, WebhooksAssumption
<1>t. /\ r.attempt = 1 => Spent(r) = 0
      /\ r.attempt = 2 => Spent(r) = Timeout + Delays[2]
      /\ r.attempt > 2 => Spent(r) = Patience
  BY <1>p DEF Spent
<1>1. ASSUME NEW d \in 0 .. Timeout, r.clock < Deadline, r.clock + d <= Deadline,
             Become(m, [r EXCEPT !.pc = "next", !.clock = r.clock + d]),
             accepted' = accepted \cup {<<m, r.cur>>}, UNCHANGED refused
      PROVE  HookTypeOK' /\ DeliveryOK(m)'
  <2>1. PICK q : q = [r EXCEPT !.pc = "next", !.clock = r.clock + d]
    OBVIOUS
  <2>2. /\ q \in Delivery /\ q.pc = "next" /\ q.clock = r.clock + d /\ q.cur = r.cur
        /\ q.sender = r.sender /\ q.left = r.left
    <3>1. r.clock + d \in 0 .. Deadline
      BY <1>1, <1>f, <1>s
    <3>2. QED
      BY <1>f, <2>1, <3>1 DEF Delivery
  <2>3. /\ delivery' \in [Sent -> Delivery] /\ delivery'[m] = q
        /\ \A v \in Sent \ {m} : delivery'[v] = delivery[v]
    <3>1. Become(m, q)
      BY <1>1, <2>1
    <3>2. QED
      BY <1>0, <2>2, <3>1, BecomeOK
  <2>4. HookTypeOK'
    <3>1. accepted' \subseteq Sent \X Hook
      BY <1>0, <1>1, <1>f DEF HookTypeOK
    <3>2. \A v \in Sent : delivery'[v].pc \in {"wait", "call"} => delivery'[v].cur \in Hook
      BY <1>0, <2>2, <2>3 DEF HookTypeOK
    <3>3. QED
      BY <1>0, <1>1, <1>p, <2>3, <3>1, <3>2 DEF HookTypeOK
  <2>5. /\ Listed(m)' /\ \A i \in 1 .. n - 1 : Accounted(m, i)'
        /\ Starved(m, n) => Starved(m, n)' /\ Starved(m, n + 1)'
    <3>1. \A g \in Hook : refused[m][g] <= refused'[m][g]
      BY <1>0, <1>1, RecordOK
    <3>2. /\ delivery[m].pc \in {"wait", "call"} /\ delivery'[m].pc \in {"next", "wait", "call"}
          /\ delivery[m].clock <= delivery'[m].clock
          /\ delivery'[m].left = delivery[m].left /\ delivery'[m].sender = delivery[m].sender
      BY <1>d, <1>f, <1>p, <1>s, <2>2, <2>3
    <3>3. QED
      BY <1>1, <1>l, <1>p, <2>4, <3>1, <3>2, CalledStep
  <2>6. ASSUME refused[m][r.cur] <= 1, r.clock <= Share(n - 1) + Spent(r)
        PROVE  r.clock + d <= Share(n)
    <3>1. r.attempt = 1 \/ r.attempt = 2
      BY <1>1, <1>f, <2>6
    <3>2. QED
      BY <1>f, <1>s, <1>t, <2>6, <3>1
  <2>7. refused[m][r.cur] > 1 => Starved(m, n + 1)'
    BY <1>1, <1>f, <1>p DEF Starved
  <2>8. Between(m)'
    <3>1. Starved(m, n + 1)' \/ q.clock <= Share(n)
      BY <1>f, <2>2, <2>5, <2>6, <2>7
    <3>2. QED
      BY <1>f, <1>l, <1>p, <2>3, <3>1, BetweenNext
  <2>9. Accounted(m, n)'
    BY <1>1, <1>f, <1>p DEF Accounted
  <2>10. \A i \in 1 .. Len(turn'[m]) : Accounted(m, i)'
    BY <1>f, <1>l, <1>p, <2>5, <2>9
  <2>11. Calling(m)'
    BY <2>2, <2>3 DEF Calling
  <2>12. QED
    BY <2>4, <2>5, <2>8, <2>10, <2>11 DEF DeliveryOK
<1>2. ASSUME NEW d \in 0 .. Timeout,
             Become(m, AfterFailure([r EXCEPT !.clock = Earliest(r.clock + d, Deadline)])),
             refused' = [refused EXCEPT ![m][r.cur] = IF r.clock < Deadline THEN @ + 1 ELSE @],
             UNCHANGED accepted
      PROVE  HookTypeOK' /\ DeliveryOK(m)'
  <2>e. PICK c : c = Earliest(r.clock + d, Deadline)
    OBVIOUS
  <2>c. /\ c \in Nat /\ c <= Deadline /\ r.clock <= c /\ c <= r.clock + d
        /\ c = r.clock + d \/ c = Deadline
    BY <1>2, <1>f, <1>s, <2>e DEF Earliest
  <2>k. d \in Nat /\ d <= Timeout
    BY <1>2, <1>s
  <2>1. PICK q : q = AfterFailure([r EXCEPT !.clock = c])
    OBVIOUS
  <2>2. /\ q \in Delivery /\ q.clock = c /\ q.cur = r.cur
        /\ q.sender = r.sender /\ q.left = r.left
        /\ \/ q.pc = "wait" /\ q.attempt = r.attempt + 1
           \/ q.pc = "next" /\ r.attempt = Len(Delays) /\ r.attempt > 1
    <3>1. PICK x : x = [r EXCEPT !.clock = c]
      OBVIOUS
    <3>2. /\ x \in Delivery /\ x.clock = c /\ x.cur = r.cur /\ x.sender = r.sender
          /\ x.left = r.left /\ x.attempt = r.attempt
      <4>1. c \in 0 .. Deadline
        BY <2>c, <1>f
      <4>2. QED
        BY <1>f, <3>1, <4>1 DEF Delivery
    <3>3. CASE r.attempt < Len(Delays)
      <4>1. q = [x EXCEPT !.pc = "wait", !.attempt = x.attempt + 1]
        BY <2>1, <3>1, <3>2, <3>3 DEF AfterFailure
      <4>2. x.attempt + 1 \in Attempt
        BY <1>f, <3>2, <3>3, WebhooksAssumption DEF Attempt
      <4>3. QED
        BY <3>2, <4>1, <4>2 DEF Delivery
    <3>4. CASE ~(r.attempt < Len(Delays))
      <4>1. q = [x EXCEPT !.pc = "next"]
        BY <2>1, <3>1, <3>2, <3>4 DEF AfterFailure
      <4>2. r.attempt = Len(Delays) /\ r.attempt > 1
        BY <1>f, <3>4, WebhooksAssumption DEF Attempt
      <4>3. QED
        BY <3>2, <4>1, <4>2 DEF Delivery
    <3>5. QED
      BY <3>3, <3>4
  <2>3. /\ delivery' \in [Sent -> Delivery] /\ delivery'[m] = q
        /\ \A v \in Sent \ {m} : delivery'[v] = delivery[v]
    <3>1. Become(m, q)
      BY <1>2, <2>1, <2>e
    <3>2. QED
      BY <1>0, <2>2, <3>1, BecomeOK
  <2>r. /\ refused' \in [Sent -> [Hook -> Nat]]
        /\ refused'[m][r.cur] = IF r.clock < Deadline THEN refused[m][r.cur] + 1
                                ELSE refused[m][r.cur]
        /\ \A g \in Hook \ {r.cur} : refused'[m][g] = refused[m][g]
        /\ \A v \in Sent \ {m} : refused'[v] = refused[v]
    BY <1>0, <1>2, <1>f, SMTT(30) DEF HookTypeOK
  <2>4. HookTypeOK'
    <3>1. \A v \in Sent : delivery'[v].pc \in {"wait", "call"} => delivery'[v].cur \in Hook
      BY <1>0, <1>f, <2>2, <2>3 DEF HookTypeOK
    <3>2. QED
      BY <1>0, <1>2, <1>p, <2>3, <2>r, <3>1 DEF HookTypeOK
  <2>5. /\ Listed(m)' /\ \A i \in 1 .. n - 1 : Accounted(m, i)'
        /\ Starved(m, n) => Starved(m, n)' /\ Starved(m, n + 1)'
    <3>1. \A g \in Hook : refused[m][g] \in Nat
      BY <1>0, RecordOK
    <3>2. \A g \in Hook : refused[m][g] <= refused'[m][g]
      BY <2>r, <3>1
    <3>3. /\ delivery[m].pc \in {"wait", "call"} /\ delivery'[m].pc \in {"next", "wait", "call"}
          /\ delivery[m].clock <= delivery'[m].clock
          /\ delivery'[m].left = delivery[m].left /\ delivery'[m].sender = delivery[m].sender
          /\ \A g \in Hook \ {delivery[m].cur} : refused'[m][g] = refused[m][g]
      BY <1>d, <1>p, <2>2, <2>3, <2>c, <2>r
    <3>4. QED
      BY <1>2, <1>l, <1>p, <2>4, <3>2, <3>3, CalledStep
  <2>6. refused'[m][r.cur] = 0 => r.clock = Deadline /\ c = Deadline /\ refused[m][r.cur] = 0
    BY <1>f, <2>c, <2>r
  <2>7. refused'[m][r.cur] > 1 => Starved(m, n + 1)'
    BY <1>f, <1>p DEF Starved
  <2>8. CASE q.pc = "wait" /\ q.attempt = r.attempt + 1
    <3>1. refused'[m][r.cur] <= 1 /\ ~Starved(m, n) => c <= Share(n - 1) + Spent(q)
      <4>1. /\ q.attempt = 2 => Spent(q) = Timeout
            /\ q.attempt > 2 => Spent(q) = Patience
        BY <2>8 DEF Spent
      <4>2. CASE r.clock < Deadline
        <5>1. refused'[m][r.cur] = r.attempt
          BY <1>f, <2>r, <4>2
        <5>2. CASE r.attempt = 1
          <6>1. Spent(q) = Timeout /\ Spent(r) = 0 /\ refused[m][r.cur] = 0
            BY <1>f, <1>t, <2>8, <4>1, <4>2, <5>2
          <6>2. QED
            BY <1>f, <1>s, <2>c, <2>k, <6>1
        <5>3. QED
          BY <1>f, <5>1, <5>2
      <4>3. CASE r.clock = Deadline
        <5>1. c = r.clock /\ refused'[m][r.cur] = refused[m][r.cur]
          BY <1>f, <2>c, <2>r, <4>3
        <5>2. Spent(r) <= Spent(q) /\ Spent(r) \in Nat /\ Spent(q) \in Nat
          BY <1>f, <1>s, <1>t, <2>8, <4>1
        <5>3. QED
          BY <1>f, <2>c, <5>1, <5>2
      <4>4. QED
        BY <1>f, <4>2, <4>3
    <3>2. q.clock < Deadline => refused'[m][q.cur] = q.attempt - 1
      BY <1>f, <2>2, <2>8, <2>c, <2>r
    <3>3. \/ Starved(m, n)'
          \/ /\ refused'[m][q.cur] = 0 => q.clock <= Share(n - 1)
             /\ refused'[m][q.cur] <= 1 => q.clock <= Share(n - 1) + Spent(q)
      BY <1>f, <2>2, <2>5, <2>6, <3>1
    <3>4. /\ q.cur = turn'[m][n] /\ HookOwner[q.cur] # q.sender /\ Len(turn'[m]) = n
          /\ q.attempt > 1
      BY <1>f, <1>l, <1>p, <2>2, <2>8
    <3>5. Calling(m)'
      BY <1>f, <2>3, <3>2, <3>3, <3>4, CallingNext
    <3>6. Between(m)'
      BY <2>3, <2>8 DEF Between
    <3>7. Accounted(m, n)'
      BY <1>f, <1>p, <2>2, <2>3, <2>8 DEF Accounted, Engaged
    <3>8. \A i \in 1 .. Len(turn'[m]) : Accounted(m, i)'
      BY <1>f, <1>l, <1>p, <2>5, <3>7
    <3>9. QED
      BY <2>4, <2>5, <3>5, <3>6, <3>8 DEF DeliveryOK
  <2>9. CASE q.pc = "next" /\ r.attempt = Len(Delays) /\ r.attempt > 1
    <3>1. refused'[m][r.cur] <= 1 /\ ~Starved(m, n) => c <= Share(n)
      <4>1. CASE r.clock < Deadline
        BY <1>f, <2>9, <2>r, <4>1
      <4>2. CASE r.clock = Deadline
        <5>1. c = r.clock /\ refused'[m][r.cur] = refused[m][r.cur]
          BY <1>f, <2>c, <2>r, <4>2
        <5>2. Spent(r) <= Patience /\ Spent(r) \in Nat
          BY <1>f, <1>s, <1>t
        <5>3. QED
          BY <1>f, <1>s, <2>c, <5>1, <5>2
      <4>3. QED
        BY <1>f, <4>1, <4>2
    <3>2. Between(m)'
      <4>1. refused'[m][r.cur] \in Nat
        BY <1>f, <2>r
      <4>2. Starved(m, n + 1)' \/ q.clock <= Share(n)
        BY <2>2, <2>5, <2>7, <3>1, <4>1
      <4>3. QED
        BY <1>f, <1>l, <1>p, <2>3, <4>2, BetweenNext
    <3>3. Accounted(m, n)'
      <4>1. CASE r.clock < Deadline
        <5>1. refused'[m][r.cur] = Len(Delays)
          BY <1>f, <2>9, <2>r, <4>1
        <5>2. QED
          BY <1>f, <1>p, <5>1 DEF Accounted
      <4>2. CASE r.clock = Deadline /\ refused'[m][r.cur] > 0
        <5>1. c = Deadline
          BY <1>f, <2>c, <4>2
        <5>2. QED
          BY <1>f, <1>p, <2>2, <2>3, <4>2, <5>1 DEF Accounted
      <4>3. CASE r.clock = Deadline /\ refused'[m][r.cur] = 0
        <5>1. c = Deadline /\ refused[m][r.cur] = 0
          BY <2>6, <4>3
        <5>2. Starved(m, n)'
          BY <1>f, <2>5, <4>3, <5>1 DEF Starved, Share, Patience
        <5>3. QED
          BY <2>2, <2>3, <5>1, <5>2 DEF Accounted
      <4>4. refused'[m][r.cur] \in Nat
        BY <1>f, <2>r
      <4>5. QED
        BY <1>f, <4>1, <4>2, <4>3, <4>4
    <3>4. \A i \in 1 .. Len(turn'[m]) : Accounted(m, i)'
      BY <1>f, <1>l, <1>p, <2>5, <3>3
    <3>5. Calling(m)'
      BY <2>3, <2>9 DEF Calling
    <3>6. QED
      BY <2>4, <2>5, <3>2, <3>4, <3>5 DEF DeliveryOK
  <2>10. QED
    BY <2>2, <2>8, <2>9
<1>3. QED
  BY <1>d, <1>1, <1>2 DEF CallWebhook

\* The goroutine starts, and lists the webhooks, or fails to.
LEMMA StartInv ==
  ASSUME HookInv, NEW m \in Sent, (\E e \in Subscriber : DeliverAsync(m, e)) \/ ListWebhooks(m)
  PROVE  HookTypeOK' /\ DeliveryOK(m)'
<1>0. HookTypeOK /\ Listed(m)
  BY DEF HookInv, DeliveryOK
<1>1. delivery[m].pc \in {"idle", "list"} /\ UNCHANGED <<hook, refused, accepted, turn>>
  BY DEF DeliverAsync, ListWebhooks
<1>2. turn[m] = <<>> /\ delivery[m].clock = 0 /\ \A h \in Hook : refused[m][h] = 0
  BY <1>0, <1>1 DEF Listed
<1>3. ASSUME NEW q \in Delivery, Become(m, q), takesPart' \subseteq Subscriber,
             q.pc \in {"list", "next", "done"}, q.clock = 0,
             q.pc # "next" => q.left = {}
      PROVE  HookTypeOK' /\ DeliveryOK(m)'
  <2>1. /\ delivery' \in [Sent -> Delivery] /\ delivery'[m] = q
        /\ \A v \in Sent \ {m} : delivery'[v] = delivery[v]
    BY <1>0, <1>3, BecomeOK
  <2>2. HookTypeOK'
    <3>1. \A v \in Sent : delivery'[v].pc \in {"wait", "call"} => delivery'[v].cur \in Hook
      BY <1>0, <1>3, <2>1 DEF HookTypeOK
    <3>2. QED
      BY <1>0, <1>1, <1>3, <2>1, <3>1 DEF HookTypeOK
  <2>3. Listed(m)'
    <3>1. q.left \in SUBSET Hook
      BY <1>3 DEF Delivery
    <3>2. QED
      BY <1>1, <1>2, <1>3, <2>1, <3>1 DEF Listed
  <2>4. Calling(m)'
    BY <1>3, <2>1 DEF Calling
  <2>5. Between(m)'
    <3>1. 0 \in Nat /\ Len(turn'[m]) = 0
      BY <1>1, <1>2
    <3>2. q.clock <= Share(0)
      BY <1>3, ShareOK
    <3>3. QED
      BY <2>1, <3>1, <3>2, BetweenNext
  <2>6. QED
    BY <1>1, <1>2, <2>2, <2>3, <2>4, <2>5 DEF DeliveryOK
<1>4. ASSUME NEW e \in Subscriber, DeliverAsync(m, e) PROVE HookTypeOK' /\ DeliveryOK(m)'
  <2>1. PICK q : q = [Idle EXCEPT !.pc = "list", !.sender = e]
    OBVIOUS
  <2>2. q \in Delivery /\ q.pc = "list" /\ q.clock = 0 /\ q.left = {}
    <3>1. 1 \in Attempt /\ 0 \in 0 .. Deadline /\ {} \in SUBSET Hook
      BY WebhooksAssumption DEF Attempt
    <3>2. QED
      BY <2>1, <3>1 DEF Delivery, Idle
  <2>3. Become(m, q) /\ takesPart' = takesPart
    BY <1>4, <2>1 DEF DeliverAsync
  <2>4. QED
    BY <1>0, <1>3, <2>2, <2>3 DEF HookTypeOK
<1>5. ASSUME ListWebhooks(m) PROVE HookTypeOK' /\ DeliveryOK(m)'
  <2>d. PICK r : r = delivery[m]
    OBVIOUS
  <2>r. r \in Delivery /\ r.pc = "list" /\ r.clock = 0 /\ r.left = {}
    BY <1>0, <1>5, <2>d, RecordOK DEF ListWebhooks, Listed
  <2>t. takesPart' \subseteq Subscriber
    BY <1>0, <1>5 DEF ListWebhooks, HookTypeOK
  <2> DEFINE all == {h \in Hook : hook[h] = "active" /\ HookOwner[h] \in takesPart}
  <2>1. CASE Become(m, [r EXCEPT !.pc = "next", !.left = all])
    <3>1. PICK q : q = [r EXCEPT !.pc = "next", !.left = all]
      OBVIOUS
    <3>2. all \in SUBSET Hook
      OBVIOUS
    <3> HIDE DEF all
    <3>3. q \in Delivery /\ q.pc = "next" /\ q.clock = 0 /\ q.left = all
      BY <2>r, <3>1, <3>2 DEF Delivery
    <3>4. Become(m, q)
      BY <2>1, <3>1
    <3>5. QED
      BY <1>3, <2>t, <3>3, <3>4
  <2>2. CASE Become(m, [r EXCEPT !.pc = "done"])
    <3>1. PICK q : q = [r EXCEPT !.pc = "done"]
      OBVIOUS
    <3>2. q \in Delivery /\ q.pc = "done" /\ q.clock = 0 /\ q.left = {}
      BY <2>r, <3>1 DEF Delivery
    <3>3. Become(m, q)
      BY <2>2, <3>1
    <3>4. QED
      BY <1>3, <2>t, <3>2, <3>3
  <2>3. QED
    BY <1>5, <2>d, <2>1, <2>2 DEF ListWebhooks
<1>6. QED
  BY <1>4, <1>5

LEMMA HookStepInv == HookInv /\ [HookNext]_hookVars => HookInv'
<1> SUFFICES ASSUME HookInv, [HookNext]_hookVars PROVE HookInv'
  OBVIOUS
<1>0. HookTypeOK /\ \A m \in Sent : DeliveryOK(m)
  BY DEF HookInv
<1>1. ASSUME UNCHANGED <<delivery, refused, accepted, turn>>, HookTypeOK' PROVE HookInv'
  BY <1>0, <1>1, HookFrame DEF HookInv
<1>2. ASSUME NEW h \in Hook, CreateWebhook(h) \/ DeleteWebhook(h) PROVE HookInv'
  <2>1. /\ UNCHANGED <<delivery, refused, accepted, turn, takesPart>>
        /\ hook' \in [Hook -> {"none", "active", "disabled"}]
    BY <1>0, <1>2 DEF CreateWebhook, DeleteWebhook, HookTypeOK
  <2>2. HookTypeOK'
    BY <1>0, <2>1 DEF HookTypeOK
  <2>3. QED
    BY <1>1, <2>1, <2>2
<1>3. ASSUME NEW e \in Subscriber, Depart(e) PROVE HookInv'
  <2>1. HookTypeOK'
    BY <1>0, <1>3 DEF Depart, HookTypeOK
  <2>2. QED
    BY <1>1, <1>3, <2>1 DEF Depart
<1>4. ASSUME NEW m \in Sent, Delivers(m) \/ \E e \in Subscriber : DeliverAsync(m, e) PROVE HookInv'
  <2>1. HookTypeOK' /\ DeliveryOK(m)'
    BY <1>4, StartInv, NextWebhookInv, WaitForRetryInv, CallWebhookInv DEF Delivers
  <2>2. ASSUME NEW v \in Sent, v # m PROVE DeliveryOK(v)'
    <3>1. \E q : Become(m, q)
      BY <1>4 DEF Delivers, DeliverAsync, ListWebhooks, NextWebhook, WaitForRetry, CallWebhook
    <3>2. delivery'[v] = delivery[v]
      BY <1>0, <2>2, <3>1, BecomeOK
    <3>3. turn'[v] = turn[v]
      BY <1>0, <1>4, <2>2
      DEF Delivers, DeliverAsync, ListWebhooks, NextWebhook, WaitForRetry, CallWebhook, HookTypeOK
    <3>4. refused'[v] = refused[v]
      BY <1>0, <1>4, <2>2
      DEF Delivers, DeliverAsync, ListWebhooks, NextWebhook, WaitForRetry, CallWebhook, HookTypeOK
    <3>5. accepted \subseteq accepted'
      BY <1>4 DEF Delivers, DeliverAsync, ListWebhooks, NextWebhook, WaitForRetry, CallWebhook
    <3>6. QED
      BY <1>0, <3>2, <3>3, <3>4, <3>5, HookFrame
  <2>3. QED
    BY <2>1, <2>2 DEF HookInv
<1>5. CASE UNCHANGED hookVars
  <2>1. HookTypeOK'
    BY <1>0, <1>5 DEF hookVars, HookTypeOK
  <2>2. QED
    BY <1>1, <1>5, <2>1 DEF hookVars
<1>6. QED
  BY <1>2, <1>3, <1>4, <1>5 DEF HookNext

\* For any webhooks, schedule of retries, timeout and deadline, and any number of
\* messages delivered at once (deliver.go): every row of a list comes up and is
\* accounted for; a slow or failing webhook starves the later ones only when it failed
\* twice, or when those before took all the time with one failure each.
THEOREM WebhooksAccounted == HookSpec => [](HookTypeOK /\ EveryWebhookAccounted)
<1>1. HookInv => HookTypeOK /\ EveryWebhookAccounted
  BY DEF HookInv, DeliveryOK, Listed, EveryWebhookAccounted
<1>2. QED
  BY <1>1, HookInitInv, HookStepInv, PTL DEF HookSpec
=============================================================================
