----------------------------- MODULE OutboxProofs -----------------------------
(***************************************************************************)
(* What the outbox guarantees for any number of processes, items, rows,    *)
(* offers and faults and every batch limit.                                *)
(***************************************************************************)
EXTENDS Outbox, FiniteSetTheorems, TLAPS

Result == {"sent", "failed", "delivered"}

\* A process only works on rows that are stored: their external id is settled.
RowsStored ==
  /\ \A p \in Process :
       /\ todo[p] \subseteq Stored
       /\ cur[p] \in Stored \cup {0}
       /\ \A x \in payload[p] : status[x[1]] \in Result
  /\ \A r \in Row : accepted[r] > 0 => r \in Stored

\* The places at which a process is sending a row.
InFlight == {"awaiting", "succeeded", "errored"}
Holding == {"awaiting", "succeeded", "errored", "raised"}

\* What a process carries in its locals is true of the carrier: the successful
\* SendResult, and the statuses it read for a report.
LocalsTruthful ==
  \A p \in Process :
    /\ pc[p] \in Holding => cur[p] # 0
    /\ pc[p] = "succeeded" => accepted[cur[p]] > 0
    /\ \A x \in payload[p] : x[2] \in {"sent", "delivered"} => accepted[x[1]] > 0

IInv == TypeOK /\ RowsStored /\ LocalsTruthful /\ StatusTruthful /\ RemoteTruthful

\* The initial state satisfies the inductive invariant.
LEMMA InitIInv == Init => IInv
BY OutboxAssumption
   DEF Init, IInv, TypeOK, RowsStored, LocalsTruthful, Holding, StatusTruthful, RemoteTruthful,
       Stored, Row, Control

\* An INSERT takes a new row and leaves every stored one as it is.
LEMMA InsertIsFresh ==
  ASSUME IInv, NEW r \in Row, NEW e \in Item \cup {NoItem}, Insert(r, e)
  PROVE  /\ r \notin Stored /\ Stored' = Stored \cup {r} /\ accepted[r] = 0
         /\ status'[r] = "pending"
         /\ \A q \in Row \ {r} : status'[q] = status[q] /\ extId'[q] = extId[q]
         /\ status' \in [Row -> {"none", "pending", "sent", "failed", "delivered"}]
         /\ extId' \in [Row -> Item \cup {NoItem}]
BY DEF IInv, TypeOK, RowsStored, Insert, IsNextId, Stored

\* Hence it keeps the invariant, for a step that inserts and does no more than
\* take the new row for sending.
LEMMA InsertKeepsIInv ==
  ASSUME IInv, NEW r \in Row, NEW e \in Item \cup {NoItem}, Insert(r, e),
         UNCHANGED <<remote, offers, items, todo, payload, accepted, faults>>,
         locals' \in Nat, incoming' \in [Process -> Item \cup {NoItem}],
         pc' \in [Process -> Control], cur' \in [Process -> Row \cup {0}],
         \A p \in Process : \/ pc'[p] = pc[p] /\ cur'[p] = cur[p]
                            \/ pc'[p] = "enqueueing" /\ cur'[p] = cur[p]
                            \/ pc'[p] = "awaiting" /\ cur'[p] = r
  PROVE  IInv'
<1>1. TypeOK'
  BY InsertIsFresh DEF IInv, TypeOK, Insert
<1>2. RowsStored'
  <2>1. /\ r \notin Stored /\ Stored' = Stored \cup {r} /\ accepted[r] = 0
        /\ \A q \in Row \ {r} : status'[q] = status[q]
    BY InsertIsFresh
  <2>2. ASSUME NEW p \in Process
        PROVE  /\ todo'[p] \subseteq Stored' /\ cur'[p] \in Stored' \cup {0}
               /\ \A x \in payload'[p] : status'[x[1]] \in Result
    <3>1. \A x \in payload[p] : x[1] \in Row /\ x[1] # r
      BY <2>1 DEF IInv, TypeOK, RowsStored, Stored, Result
    <3>2. todo[p] \subseteq Stored /\ cur[p] \in Stored \cup {0}
          /\ \A x \in payload[p] : status[x[1]] \in Result
      BY DEF IInv, RowsStored
    <3> QED BY <2>1, <3>1, <3>2
  <2>3. \A q \in Row : accepted'[q] > 0 => q \in Stored'
    BY <2>1 DEF IInv, RowsStored
  <2> QED BY <2>2, <2>3 DEF RowsStored
<1>3. LocalsTruthful'
  BY DEF IInv, TypeOK, LocalsTruthful, Holding, Row
<1>4. StatusTruthful'
  BY InsertIsFresh DEF IInv, StatusTruthful
<1>5. RemoteTruthful'
  BY InsertIsFresh DEF IInv, TypeOK, RowsStored, RemoteTruthful
<1> QED BY <1>1, <1>2, <1>3, <1>4, <1>5 DEF IInv

\* An exception only empties the locals.
LEMMA AbandonKeepsIInv ==
  ASSUME IInv, NEW p \in Process, NEW l \in {"idle", "off"}, Abandon(p), Goto(p, l),
         UNCHANGED <<remoteVars, tableVars, accepted>>, faults' \in Nat
  PROVE  IInv'
<1> USE DEF Abandon, Goto, remoteVars, tableVars
<1>1. TypeOK'
  BY OutboxAssumption DEF IInv, TypeOK, Row, Control
<1>2. Stored' = Stored
  BY DEF Stored
<1>3. RowsStored'
  BY <1>2 DEF IInv, TypeOK, RowsStored
<1>4. LocalsTruthful'
  BY DEF IInv, TypeOK, LocalsTruthful, Holding
<1>5. StatusTruthful' /\ RemoteTruthful'
  BY DEF IInv, StatusTruthful, RemoteTruthful
<1> QED BY <1>1, <1>3, <1>4, <1>5 DEF IInv

\* So does a step that only moves on, or takes items from or to its list.
LEMMA MovesOnKeepsIInv ==
  ASSUME IInv, NEW p \in Process,
         NEW l \in Control \ Holding, Goto(p, l),
         items' \in [Process -> SUBSET Item], incoming' \in [Process -> Item \cup {NoItem}],
         UNCHANGED <<remoteVars, tableVars, todo, cur, payload, accepted, faults>>
  PROVE  IInv'
<1> USE DEF Goto, remoteVars, tableVars
<1>1. TypeOK'
  BY DEF IInv, TypeOK, Row
<1>2. Stored' = Stored
  BY DEF Stored
<1>3. RowsStored'
  BY <1>2 DEF IInv, RowsStored
<1>4. LocalsTruthful'
  BY DEF IInv, TypeOK, LocalsTruthful, Holding
<1>5. StatusTruthful' /\ RemoteTruthful'
  BY DEF IInv, StatusTruthful, RemoteTruthful
<1> QED BY <1>1, <1>3, <1>4, <1>5 DEF IInv

\* Recording a result is right when `sent' is only recorded of an accepted row.
LEMMA RecordKeepsIInv ==
  ASSUME IInv, NEW p \in Process, pc[p] \in {"succeeded", "errored", "raised"},
         NEW s \in {"sent", "failed"}, s = "sent" => accepted[cur[p]] > 0,
         Record(p, s), faults' \in Nat
  PROVE  IInv'
<1>1. cur[p] \in Row
  BY DEF IInv, RowsStored, LocalsTruthful, Holding, Stored
<1>2. status' = [status EXCEPT ![cur[p]] = s]
  BY DEF Record
<1>3. Stored' = Stored
  BY <1>1, <1>2 DEF IInv, TypeOK, RowsStored, LocalsTruthful, Holding, Stored
<1>4. TypeOK'
  BY <1>1, OutboxAssumption DEF IInv, TypeOK, Row, Control, Record, Goto, remoteVars
<1>5. RowsStored'
  BY <1>1, <1>2, <1>3 DEF IInv, TypeOK, RowsStored, Record, Result
<1>6. LocalsTruthful'
  BY DEF IInv, TypeOK, LocalsTruthful, Holding, Record, Goto
<1>7. StatusTruthful'
  BY <1>1, <1>2 DEF IInv, TypeOK, StatusTruthful, Record
<1>8. RemoteTruthful'
  BY DEF IInv, RemoteTruthful, Record, remoteVars
<1> QED BY <1>4, <1>5, <1>6, <1>7, <1>8 DEF IInv

\* So is the part of it that comes before the read that raises.
LEMMA RaiseKeepsIInv ==
  ASSUME IInv, NEW p \in Process, RecordingRaises(p) \/ ExceptRaises(p) PROVE IInv'
<1>1. cur[p] \in Row /\ status[cur[p]] # "none"
  BY DEF RecordingRaises, ExceptRaises, IInv, RowsStored, LocalsTruthful, Holding, Stored
<1>2. /\ status' \in [Row -> {"none", "pending", "sent", "failed", "delivered"}]
      /\ \A r \in Row : r # cur[p] => status'[r] = status[r]
      /\ status'[cur[p]] = status[cur[p]] \/ status'[cur[p]] = "failed"
         \/ (status'[cur[p]] = "sent" /\ pc[p] = "succeeded")
  BY <1>1 DEF RecordingRaises, ExceptRaises, IInv, TypeOK
<1>3. Stored' = Stored
  BY <1>1, <1>2 DEF Stored
<1>4. /\ faults' \in Nat /\ UNCHANGED <<remote, offers, extId, reported, locals, accepted>>
      /\ pc' \in [Process -> Control] /\ pc' = [pc EXCEPT ![p] = pc'[p]]
      /\ \/ /\ pc'[p] = "raised" /\ UNCHANGED <<items, todo, cur, incoming, payload>>
         \/ pc'[p] = "idle" /\ Abandon(p)
  BY DEF RecordingRaises, ExceptRaises, Fault, Goto, Control, remoteVars, IInv, TypeOK
<1>5. TypeOK'
  BY <1>2, <1>4, OutboxAssumption DEF IInv, TypeOK, Row, Abandon
<1>6. RowsStored'
  BY <1>2, <1>3, <1>4 DEF IInv, TypeOK, RowsStored, Result, Abandon
<1>7. LocalsTruthful'
  <2>1. \A q \in Process : q # p =>
          pc'[q] = pc[q] /\ cur'[q] = cur[q] /\ payload'[q] = payload[q]
    BY <1>4 DEF IInv, TypeOK, Abandon
  <2>2. payload'[p] \subseteq payload[p] /\ (pc'[p] \in Holding => cur'[p] = cur[p])
        /\ pc'[p] # "succeeded"
    BY <1>4 DEF IInv, TypeOK, Abandon, Holding
  <2> QED BY <1>1, <1>4, <2>1, <2>2, OutboxAssumption DEF IInv, LocalsTruthful, Row
<1>8. StatusTruthful'
  BY <1>1, <1>2, <1>4 DEF IInv, StatusTruthful, LocalsTruthful
<1>9. RemoteTruthful'
  BY <1>4 DEF IInv, RemoteTruthful
<1> QED BY <1>5, <1>6, <1>7, <1>8, <1>9 DEF IInv

\* A report leaves Snippen with the truth: what it says was read from rows whose
\* status was true, and an accepted SMS stays accepted.
LEMMA ToldTruthful ==
  ASSUME IInv, NEW p \in Process, remote' \in Told(p),
         UNCHANGED <<extId, accepted>>
  PROVE  RemoteTruthful' /\ remote' \in [Item -> {"absent", "pending", "sent", "failed"}]
<1>1. ASSUME NEW e \in Item, remote'[e] = "sent"
      PROVE  \E r \in Row : extId[r] = e /\ accepted[r] > 0
  <2> DEFINE news == {x[2] : x \in {y \in payload[p] : extId[y[1]] = e}}
  <2>1. CASE news = {}
    <3>1. remote[e] = "sent"
      BY <1>1, <2>1 DEF Told
    <3> QED BY <3>1 DEF IInv, RemoteTruthful
  <2>2. CASE news # {}
    <3>1. remote'[e] \in news
      BY <2>2 DEF Told
    <3>2. PICK x \in payload[p] : extId[x[1]] = e /\ x[2] = "sent"
      BY <1>1, <3>1
    <3> QED BY <3>2 DEF IInv, TypeOK, LocalsTruthful, Holding
  <2> QED BY <2>1, <2>2
<1> QED BY <1>1 DEF Told, RemoteTruthful

\* Synchronising keeps the invariant: what is reported was read from truthful rows.
LEMMA SyncKeepsIInv == ASSUME IInv, NEW p \in Process, Sync(p) PROVE IInv'
<1>1. CASE FetchOutbox(p)
  <2>1. PICK l \in {"enqueueing", "reporting"} : Goto(p, l)
    BY <1>1 DEF FetchOutbox
  <2>2. items' \in [Process -> SUBSET Item]
    BY <1>1 DEF FetchOutbox, IInv, TypeOK
  <2> QED
    BY <1>1, <2>1, <2>2, MovesOnKeepsIInv DEF FetchOutbox, Control, Holding, IInv, TypeOK
<1> USE DEF IInv, TypeOK, Control, Row
<1>2. ASSUME NEW e \in Item, SkipItem(p, e) PROVE IInv'
  BY <1>2 DEF SkipItem, RowsStored, LocalsTruthful, Holding, StatusTruthful,
              RemoteTruthful, Stored, tableVars, remoteVars
<1>3. ASSUME NEW e \in Item, NewItem(p, e) PROVE IInv'
  <2>1. /\ items' \in [Process -> SUBSET Item] /\ incoming' \in [Process -> Item \cup {NoItem}]
        /\ Goto(p, "inserting")
    BY <1>3 DEF NewItem
  <2> QED BY <1>3, <2>1, MovesOnKeepsIInv DEF NewItem, Holding
<1>4. CASE InsertItem(p)
  <2>1. PICK r \in Row : Insert(r, incoming[p])
    BY <1>4 DEF InsertItem
  <2>2. incoming[p] \in Item \cup {NoItem} /\ incoming' \in [Process -> Item \cup {NoItem}]
    BY <1>4 DEF InsertItem
  <2>3. pc' \in [Process -> Control]
    BY <1>4 DEF InsertItem, Goto
  <2>4. \A q \in Process : (pc'[q] = pc[q] \/ pc'[q] = "enqueueing") /\ cur'[q] = cur[q]
    BY <1>4 DEF InsertItem, Goto
  <2> HIDE DEF IInv, TypeOK, Control, Row
  <2>5. /\ UNCHANGED <<remote, offers, items, todo, payload, accepted, faults>>
        /\ locals' \in Nat /\ cur' \in [Process -> Row \cup {0}]
    BY <1>4 DEF InsertItem, remoteVars, IInv, TypeOK
  <2> QED BY <2>1, <2>2, <2>3, <2>4, <2>5, InsertKeepsIInv
<1>5. CASE EndFetch(p)
  <2>1. Goto(p, "reporting")
    BY <1>5 DEF EndFetch
  <2> QED BY <1>5, <2>1, MovesOnKeepsIInv DEF EndFetch, Holding
<1>6. CASE EndReport(p)
  <2>1. Goto(p, "idle")
    BY <1>6 DEF EndReport
  <2> QED BY <1>6, <2>1, MovesOnKeepsIInv DEF EndReport, Holding
<1>7. CASE ReadUnreported(p)
  <2> DEFINE batch == Oldest(ReportLimit, UnreportedOutbox)
  <2>1. batch \subseteq Row /\ \A r \in batch : status[r] \in {"sent", "failed"}
    BY DEF Oldest, UnreportedOutbox
  <2> HIDE DEF batch
  <2>2. payload' = [payload EXCEPT ![p] = {<<r, status[r]>> : r \in batch}]
    BY <1>7 DEF ReadUnreported, batch
  <2>3. {<<r, status[r]>> : r \in batch} \subseteq Row \X Result
    BY <2>1 DEF Result
  <2>4. payload' \in [Process -> SUBSET (Row \X Result)] /\ pc' \in [Process -> Control]
    BY <1>7, <2>2, <2>3 DEF ReadUnreported, Goto, Result
  <2>5. \A x \in payload'[p] : status[x[1]] \in Result /\ x[2] = status[x[1]] /\ x[1] \in Row
    BY <2>1, <2>2 DEF Result
  <2>6. LocalsTruthful'
    BY <1>7, <2>2, <2>5 DEF ReadUnreported, Goto, LocalsTruthful, Holding, StatusTruthful
  <2>7. RowsStored'
    BY <1>7, <2>2, <2>5 DEF ReadUnreported, RowsStored, Stored, tableVars
  <2>8. StatusTruthful' /\ RemoteTruthful'
    BY <1>7 DEF ReadUnreported, StatusTruthful, RemoteTruthful, tableVars, remoteVars
  <2> QED BY <1>7, <2>4, <2>6, <2>7, <2>8 DEF ReadUnreported, Result, tableVars, remoteVars
<1>8. CASE PostStatuses(p)
  <2>1. RemoteTruthful' /\ remote' \in [Item -> {"absent", "pending", "sent", "failed"}]
    BY <1>8, ToldTruthful DEF PostStatuses, tableVars
  <2> QED
    BY <1>8, <2>1 DEF PostStatuses, Goto, RowsStored, LocalsTruthful, Holding, StatusTruthful,
                      Stored, tableVars
<1>9. CASE PostFails(p)
  <2>1. RemoteTruthful' /\ remote' \in [Item -> {"absent", "pending", "sent", "failed"}]
    <3>1. CASE remote' \in Told(p)
      BY <1>9, <3>1, ToldTruthful DEF PostFails, tableVars
    <3>2. CASE UNCHANGED remote
      BY <1>9, <3>2 DEF PostFails, tableVars, RemoteTruthful
    <3> QED BY <1>9, <3>1, <3>2 DEF PostFails
  <2> QED
    BY <1>9, <2>1 DEF PostFails, Goto, RowsStored, LocalsTruthful, Holding, StatusTruthful,
                      Stored, tableVars
<1>10. CASE ReadReported(p)
  BY <1>10 DEF ReadReported, Goto, RowsStored, LocalsTruthful, Holding, StatusTruthful,
              RemoteTruthful, Stored, Result, tableVars, remoteVars
<1>11. CASE WriteReported(p)
  BY <1>11, OutboxAssumption
     DEF WriteReported, Goto, RowsStored, LocalsTruthful, Holding, StatusTruthful,
         RemoteTruthful, Stored, Result, remoteVars
<1> QED
  BY <1>1, <1>2, <1>3, <1>4, <1>5, <1>6, <1>7, <1>8, <1>9, <1>10, <1>11 DEF Sync

\* Dispatching keeps it: a row is recorded as sent only after the carrier took it.
LEMMA SendKeepsIInv == ASSUME IInv, NEW p \in Process, Send(p) PROVE IInv'
<1> USE DEF IInv, TypeOK, Control, Row
<1>1. CASE EnqueueLocal(p)
  <2>1. PICK r \in Row : Insert(r, NoItem)
    BY <1>1 DEF EnqueueLocal
  <2>2. UNCHANGED <<remote, offers, pc, items, todo, cur, incoming, payload, accepted, faults>>
        /\ locals' \in Nat
    BY <1>1 DEF EnqueueLocal, remoteVars, processVars
  <2>3. incoming \in [Process -> Item \cup {NoItem}] /\ pc \in [Process -> Control]
        /\ cur \in [Process -> Row \cup {0}]
    OBVIOUS
  <2> HIDE DEF IInv, TypeOK, Control, Row
  <2> QED BY <2>1, <2>2, <2>3, InsertKeepsIInv
<1>2. CASE SendNow(p)
  <2>1. PICK r \in Row : Insert(r, NoItem) /\ cur' = [cur EXCEPT ![p] = r]
    BY <1>2 DEF SendNow
  <2>2. UNCHANGED <<remote, offers, items, todo, incoming, payload, accepted, faults>>
        /\ locals' \in Nat
    BY <1>2 DEF SendNow, remoteVars
  <2>3. incoming \in [Process -> Item \cup {NoItem}] /\ pc' \in [Process -> Control]
        /\ cur' \in [Process -> Row \cup {0}]
    BY <1>2, <2>1 DEF SendNow, Goto
  <2>4. \A q \in Process : \/ pc'[q] = pc[q] /\ cur'[q] = cur[q]
                           \/ pc'[q] = "awaiting" /\ cur'[q] = r
    BY <1>2, <2>1 DEF SendNow, Goto
  <2> HIDE DEF IInv, TypeOK, Control, Row
  <2> QED BY <2>1, <2>2, <2>3, <2>4, InsertKeepsIInv
<1>3. CASE TakeBatch(p)
  BY <1>3 DEF TakeBatch, Oldest, PendingOutbox, Goto, RowsStored, LocalsTruthful, Holding,
              StatusTruthful, RemoteTruthful, Stored, tableVars, remoteVars
<1>4. CASE Dispatch(p)
  <2>1. PICK r \in todo[p] : /\ cur' = [cur EXCEPT ![p] = r]
                             /\ todo' = [todo EXCEPT ![p] = @ \ {r}]
    BY <1>4 DEF Dispatch
  <2>2. r \in Stored /\ r \in 1..MaxRow /\ r # 0
    BY <2>1, OutboxAssumption DEF RowsStored, Stored
  <2>3. TypeOK' /\ LocalsTruthful'
    BY <1>4, <2>1, <2>2 DEF Dispatch, Goto, LocalsTruthful, Holding, tableVars, remoteVars
  <2>4. RowsStored'
    BY <1>4, <2>1, <2>2 DEF Dispatch, RowsStored, Stored, tableVars
  <2>5. StatusTruthful' /\ RemoteTruthful'
    BY <1>4 DEF Dispatch, StatusTruthful, RemoteTruthful, tableVars, remoteVars
  <2> QED BY <2>3, <2>4, <2>5
<1>5. CASE Suspend(p)
  BY <1>5 DEF Suspend, Goto, RowsStored, LocalsTruthful, Holding, StatusTruthful,
              RemoteTruthful, Stored, tableVars, remoteVars
<1>6. CASE EndBatch(p)
  BY <1>6 DEF EndBatch, Goto, RowsStored, LocalsTruthful, Holding, StatusTruthful,
              RemoteTruthful, Stored, tableVars, remoteVars
<1>7. CASE ProviderAccepts(p)
  BY <1>7 DEF ProviderAccepts, Goto, RowsStored, LocalsTruthful, Holding, StatusTruthful,
              RemoteTruthful, Stored, tableVars, remoteVars
<1>8. CASE AnswerLost(p)
  BY <1>8 DEF AnswerLost, Goto, RowsStored, LocalsTruthful, Holding, StatusTruthful,
              RemoteTruthful, Stored, tableVars, remoteVars
<1>9. CASE ProviderFails(p)
  BY <1>9 DEF ProviderFails, Goto, RowsStored, LocalsTruthful, Holding, StatusTruthful,
              RemoteTruthful, Stored, tableVars, remoteVars
<1>10. CASE RecordSent(p)
  BY <1>10, RecordKeepsIInv DEF RecordSent, LocalsTruthful, Holding
<1>11. CASE RecordFailed(p) \/ RecordRaised(p)
  BY <1>11, RecordKeepsIInv DEF RecordFailed, RecordRaised
<1> QED
  BY <1>1, <1>2, <1>3, <1>4, <1>5, <1>6, <1>7, <1>8, <1>9, <1>10, <1>11 DEF Send

\* Faults keep it: they lose what a process knows, never what it wrote.
LEMMA FailKeepsIInv == ASSUME IInv, NEW p \in Process, Fail(p) PROVE IInv'
<1>1. CASE RecordingRaises(p) \/ ExceptRaises(p)
  BY <1>1, RaiseKeepsIInv
<1>2. CASE StatementFails(p)
  <2>1. Abandon(p) /\ Goto(p, "idle") /\ UNCHANGED <<remoteVars, tableVars, accepted>>
        /\ faults' \in Nat
    BY <1>2 DEF StatementFails, Fault, IInv, TypeOK
  <2> QED BY <2>1, AbandonKeepsIInv
<1>3. CASE Crash(p)
  <2>1. Abandon(p) /\ Goto(p, "off") /\ UNCHANGED <<remoteVars, tableVars, accepted>>
        /\ faults' \in Nat
    BY <1>3 DEF Crash, Fault, IInv, TypeOK
  <2> QED BY <2>1, AbandonKeepsIInv
<1> QED BY <1>1, <1>2, <1>3 DEF Fail

\* Every step preserves the inductive invariant.
LEMMA StepIInv == IInv /\ [Next]_vars => IInv'
<1> SUFFICES ASSUME IInv, [Next]_vars PROVE IInv'
  OBVIOUS
<1>1. ASSUME NEW e \in Item, Offer(e) PROVE IInv'
  BY <1>1 DEF Offer, IInv, TypeOK, RowsStored, LocalsTruthful, Holding, StatusTruthful,
              RemoteTruthful, Stored, Row, processVars, tableVars
<1>2. ASSUME NEW p \in Process, Start(p) PROVE IInv'
  BY <1>2 DEF Start, Goto, IInv, TypeOK, Control, RowsStored, LocalsTruthful, Holding,
              StatusTruthful, RemoteTruthful, Stored, Row, tableVars, remoteVars
<1>3. CASE UNCHANGED vars
  BY <1>3 DEF vars, remoteVars, tableVars, processVars, IInv, TypeOK, RowsStored,
              LocalsTruthful, Holding, StatusTruthful, RemoteTruthful, Stored
<1> QED
  BY <1>1, <1>2, <1>3, SyncKeepsIInv, SendKeepsIInv, FailKeepsIInv DEF Next

\* So the invariant holds in every reachable state.
LEMMA Invariant == Spec => []IInv
BY InitIInv, StepIInv, PTL DEF Spec

-----------------------------------------------------------------------------

\* Every reachable state has the types the code gives it.
THEOREM TypeCorrect == Spec => []TypeOK
<1>1. IInv => TypeOK
  BY DEF IInv
<1> QED BY Invariant, <1>1, PTL

\* No row is SENT or DELIVERED in the table unless the carrier took its SMS.
THEOREM StatusIsTruthful == Spec => []StatusTruthful
<1>1. IInv => StatusTruthful
  BY DEF IInv
<1> QED BY Invariant, <1>1, PTL

\* Snippen never holds an item for sent unless the carrier took an SMS for it.
THEOREM RemoteIsTruthful == Spec => []RemoteTruthful
<1>1. IInv => RemoteTruthful
  BY DEF IInv
<1> QED BY Invariant, <1>1, PTL

-----------------------------------------------------------------------------
(* With one process that synchronises, however many dispatch and send.     *)

OneSyncer == \A p, q \in Syncer : p = q

Syncing == {"enqueueing", "inserting", "reporting", "posting", "marking", "stamping"}

\* Between the SELECT that did not find the item and the INSERT nobody else
\* stores it.
SyncInv ==
  /\ \A p \in Process : pc[p] \in Syncing => p \in Syncer
  /\ \A p \in Process : pc[p] = "inserting" => incoming[p] \in Item /\ ~HasExternalId(incoming[p])
  /\ OneLiveRowPerItem

\* Initially nothing is stored.
LEMMA InitSyncInv == Init => SyncInv
BY DEF Init, SyncInv, Syncing, OneLiveRowPerItem, Stored

\* A step that inserts no item of Snippen keeps SyncInv: rows only leave the
\* unprefixed ids, and a process only starts to insert an item it did not find.
LEMMA StoresNoItem ==
  ASSUME IInv, SyncInv, extId' = extId, Stored' = Stored,
         \A r \in Row : reported[r] => reported'[r],
         \A p \in Process : pc'[p] \in Syncing => p \in Syncer,
         \A p \in Process : pc'[p] = "inserting" =>
           \/ pc[p] = "inserting" /\ incoming'[p] = incoming[p]
           \/ incoming'[p] \in Item /\ ~HasExternalId(incoming'[p])
  PROVE  SyncInv'
<1>1. \A e : HasExternalId(e)' => HasExternalId(e)
  BY DEF HasExternalId, Stored
<1>2. OneLiveRowPerItem'
  BY DEF SyncInv, OneLiveRowPerItem, Stored
<1> QED BY <1>1, <1>2 DEF SyncInv, HasExternalId

\* A message of the gateway's own stands for no item.
LEMMA InsertsLocal ==
  ASSUME IInv, SyncInv, NEW r \in Row, Insert(r, NoItem),
         \A p \in Process : pc'[p] \in Syncing \/ pc'[p] = "inserting" => pc'[p] = pc[p],
         incoming' = incoming
  PROVE  SyncInv'
<1>1. /\ r \notin Stored /\ Stored' = Stored \cup {r} /\ reported' = reported
      /\ extId'[r] = NoItem /\ \A q \in Row \ {r} : extId'[q] = extId[q]
  <2>1. reported' = reported /\ extId'[r] = NoItem
    BY DEF Insert, IInv, TypeOK
  <2> QED BY <2>1, InsertIsFresh
<1>2. \A e \in Item : HasExternalId(e)' => HasExternalId(e)
  BY <1>1, OutboxAssumption DEF HasExternalId, Stored
<1>3. OneLiveRowPerItem'
  BY <1>1 DEF SyncInv, OneLiveRowPerItem, Stored
<1> QED BY <1>2, <1>3 DEF SyncInv, Syncing

\* The only process that synchronises inserts an item it did not find.
LEMMA InsertsItem ==
  ASSUME OneSyncer, IInv, SyncInv, NEW p \in Process, InsertItem(p)
  PROVE  SyncInv'
<1>1. PICK r \in Row : Insert(r, incoming[p])
  BY DEF InsertItem
<1>2. pc[p] = "inserting" /\ incoming[p] \in Item /\ ~HasExternalId(incoming[p])
      /\ p \in Syncer
  BY DEF InsertItem, SyncInv, Syncing
<1>3. /\ r \notin Stored /\ Stored' = Stored \cup {r} /\ reported' = reported
      /\ extId'[r] = incoming[p] /\ \A q \in Row \ {r} : extId'[q] = extId[q]
  BY <1>1, InsertIsFresh DEF Insert, IInv, TypeOK
<1>4. OneLiveRowPerItem'
  BY <1>2, <1>3 DEF SyncInv, OneLiveRowPerItem, HasExternalId, Stored
<1>5. \A q \in Process : pc'[q] # "inserting" /\ (pc'[q] \in Syncing => q \in Syncer)
  BY <1>2 DEF OneSyncer, InsertItem, Goto, IInv, TypeOK, SyncInv, Syncing
<1> QED BY <1>4, <1>5 DEF SyncInv

\* Every step preserves SyncInv when one process synchronises.
LEMMA StepSyncInv ==
  ASSUME OneSyncer PROVE IInv /\ SyncInv /\ [Next]_vars => SyncInv'
<1> SUFFICES ASSUME IInv, SyncInv, [Next]_vars PROVE SyncInv'
  OBVIOUS
<1> USE DEF Syncing
<1>1. ASSUME NEW p \in Process, Sync(p) PROVE SyncInv'
  <2>1. CASE InsertItem(p)
    BY <2>1, InsertsItem
  <2>2. CASE WriteReported(p)
    <3>1. Stored' = Stored
      BY <2>2 DEF WriteReported, Stored, Result, RowsStored, IInv, TypeOK
    <3>2. \A r \in Row : reported[r] => reported'[r]
      BY <2>2 DEF WriteReported, IInv, TypeOK
    <3> QED
      BY <2>2, <3>1, <3>2, StoresNoItem DEF WriteReported, Goto, IInv, TypeOK, SyncInv
  <2>3. ASSUME NEW e \in Item, SkipItem(p, e) PROVE SyncInv'
    BY <2>3, StoresNoItem DEF SkipItem, Goto, IInv, TypeOK, SyncInv, tableVars, Stored
  <2>4. ASSUME NEW e \in Item, NewItem(p, e) PROVE SyncInv'
    BY <2>4, StoresNoItem DEF NewItem, Goto, IInv, TypeOK, SyncInv, tableVars, Stored
  <2>5. CASE FetchOutbox(p)
    BY <2>5, StoresNoItem DEF FetchOutbox, Goto, IInv, TypeOK, SyncInv, tableVars, Stored
  <2>6. CASE EndFetch(p) \/ ReadUnreported(p) \/ PostStatuses(p) \/ PostFails(p)
             \/ ReadReported(p) \/ EndReport(p)
    BY <2>6, StoresNoItem
       DEF EndFetch, ReadUnreported, PostStatuses, PostFails, ReadReported, EndReport,
           Goto, IInv, TypeOK, SyncInv, tableVars, Stored
  <2> QED BY <1>1, <2>1, <2>2, <2>3, <2>4, <2>5, <2>6 DEF Sync
<1>2. ASSUME NEW p \in Process, Send(p) PROVE SyncInv'
  <2>1. CASE EnqueueLocal(p)
    BY <2>1, InsertsLocal DEF EnqueueLocal, processVars
  <2>2. CASE SendNow(p)
    <3>1. PICK r \in Row : Insert(r, NoItem)
      BY <2>2 DEF SendNow
    <3> QED BY <2>2, <3>1, InsertsLocal DEF SendNow, Goto, IInv, TypeOK
  <2>3. CASE RecordSent(p) \/ RecordFailed(p) \/ RecordRaised(p)
    <3>1. Stored' = Stored
      BY <2>3, OutboxAssumption
         DEF RecordSent, RecordFailed, RecordRaised, Record, Stored, IInv, TypeOK,
             RowsStored, LocalsTruthful, Holding
    <3> QED
      BY <2>3, <3>1, StoresNoItem
         DEF RecordSent, RecordFailed, RecordRaised, Record, Goto, IInv, TypeOK, SyncInv
  <2>4. CASE TakeBatch(p) \/ Dispatch(p) \/ Suspend(p) \/ EndBatch(p)
             \/ ProviderAccepts(p) \/ AnswerLost(p) \/ ProviderFails(p)
    BY <2>4, StoresNoItem
       DEF TakeBatch, Dispatch, Suspend, EndBatch, ProviderAccepts, AnswerLost,
           ProviderFails, Goto, IInv, TypeOK, SyncInv, tableVars, Stored
  <2> QED BY <1>2, <2>1, <2>2, <2>3, <2>4 DEF Send
<1>3. ASSUME NEW p \in Process, Fail(p) PROVE SyncInv'
  <2>1. CASE RecordingRaises(p) \/ ExceptRaises(p)
    <3>1. Stored' = Stored
      BY <2>1, OutboxAssumption
         DEF RecordingRaises, ExceptRaises, Stored, IInv, TypeOK, RowsStored,
             LocalsTruthful, Holding
    <3> QED
      BY <2>1, <3>1, StoresNoItem
         DEF RecordingRaises, ExceptRaises, Abandon, Goto, IInv, TypeOK, SyncInv
  <2>2. CASE StatementFails(p) \/ Crash(p)
    BY <2>2, StoresNoItem
       DEF StatementFails, Crash, Abandon, Goto, IInv, TypeOK, SyncInv, tableVars, Stored
  <2> QED BY <1>3, <2>1, <2>2 DEF Fail
<1>4. ASSUME NEW p \in Process, Start(p) PROVE SyncInv'
  BY <1>4, StoresNoItem DEF Start, Goto, IInv, TypeOK, SyncInv, tableVars, Stored
<1>5. CASE (\E e \in Item : Offer(e)) \/ UNCHANGED vars
  BY <1>5, StoresNoItem DEF Offer, vars, processVars, SyncInv, tableVars, Stored
<1> QED BY <1>1, <1>2, <1>3, <1>4, <1>5 DEF Next

\* With one process that synchronises, the SELECT before the INSERT is enough: no
\* item has two rows that both still count.
THEOREM OneRowPerItem == ASSUME OneSyncer PROVE Spec => []OneLiveRowPerItem
<1>1. Init => SyncInv
  BY InitSyncInv
<1>2. IInv /\ SyncInv /\ [Next]_vars => SyncInv'
  BY StepSyncInv
<1>3. SyncInv => OneLiveRowPerItem
  BY DEF SyncInv
<1> QED BY <1>1, <1>2, <1>3, Invariant, PTL DEF Spec
-----------------------------------------------------------------------------
(* With one process that sends, however many synchronise.                  *)

OneSender == \A p, q \in Dispatcher \cup Sender : p = q

\* The rows a process holds for sending are still pending, and it holds the one
\* in flight only once.
BatchPending ==
  \A p \in Process :
    /\ pc[p] \in Holding \cup {"dispatching"} => p \in Dispatcher \cup Sender
    /\ todo[p] # {} => p \in Dispatcher \cup Sender
    /\ \A r \in todo[p] : status[r] = "pending" /\ (pc[p] \in Holding => r # cur[p])
    /\ pc[p] \in InFlight => status[cur[p]] = "pending"

\* A row that is pending and not in flight was only ever transmitted when a
\* fault kept the result out of the table.
RepeatsCounted ==
  \A r \in Row :
    /\ accepted[r] <= 1 + faults
    /\ (status[r] \notin Result /\ ~\E p \in Process : pc[p] \in {"succeeded", "errored"} /\ cur[p] = r)
         => accepted[r] <= faults

SendInv == BatchPending /\ RepeatsCounted

\* Initially nothing is in flight.
LEMMA InitSendInv == Init => SendInv
BY DEF Init, SendInv, BatchPending, RepeatsCounted, InFlight, Holding

\* Only one process has rows of its own to send.
LEMMA OthersIdle ==
  ASSUME OneSender, BatchPending, NEW p \in Dispatcher \cup Sender, NEW q \in Process,
         q # p
  PROVE  todo[q] = {} /\ pc[q] \notin Holding /\ pc[q] # "dispatching"
BY DEF OneSender, BatchPending

\* Recording a result settles the row in flight and no other.
LEMMA RecordKeepsSendInv ==
  ASSUME OneSender, IInv, SendInv, NEW p \in Process,
         pc[p] \in {"succeeded", "errored", "raised"},
         NEW s \in {"sent", "failed"}, Record(p, s), faults' \in Nat, faults <= faults'
  PROVE  SendInv'
<1> DEFINE r == cur[p]
<1>1. p \in Dispatcher \cup Sender /\ r \in Row /\ r \notin todo[p]
  BY DEF SendInv, BatchPending, Holding, IInv, TypeOK, LocalsTruthful
<1>2. \A q \in Process \ {p} : todo[q] = {} /\ pc[q] \notin Holding /\ pc[q] # "dispatching"
  BY <1>1, OthersIdle DEF SendInv
<1>3. /\ status' = [status EXCEPT ![r] = s] /\ pc' = [pc EXCEPT ![p] = "dispatching"]
      /\ UNCHANGED <<todo, accepted>>
  BY DEF Record, Goto
<1> HIDE DEF r
<1>4. BatchPending'
  BY <1>1, <1>2, <1>3 DEF SendInv, BatchPending, InFlight, Holding, IInv, TypeOK
<1>5. RepeatsCounted'
  <2>1. ASSUME NEW q \in Row PROVE accepted'[q] <= 1 + faults'
    BY <1>3 DEF SendInv, RepeatsCounted, IInv, TypeOK
  <2>2. ASSUME NEW q \in Row, status'[q] \notin Result PROVE accepted'[q] <= faults'
    <3>1. q # r /\ status[q] \notin Result
      BY <1>1, <1>3, <2>2 DEF Result, IInv, TypeOK
    <3>2. ~\E u \in Process : pc[u] \in {"succeeded", "errored"} /\ cur[u] = q
      BY <1>2, <3>1 DEF Holding, r
    <3> QED BY <1>3, <3>1, <3>2 DEF SendInv, RepeatsCounted, IInv, TypeOK
  <2> QED BY <2>1, <2>2 DEF RepeatsCounted
<1> QED BY <1>4, <1>5 DEF SendInv

\* A row is still counted right when the table can at most say more of it.
LEMMA FaultKeepsRepeats ==
  ASSUME IInv, SendInv, Fault, UNCHANGED accepted
  PROVE  RepeatsCounted'
<1>1. faults' = faults + 1 /\ faults \in Nat
  BY DEF Fault, IInv, TypeOK
<1>2. ASSUME NEW q \in Row PROVE accepted'[q] <= faults'
  BY <1>1 DEF SendInv, RepeatsCounted, IInv, TypeOK
<1> QED BY <1>1, <1>2 DEF RepeatsCounted, IInv, TypeOK

\* A recording that raises only ever turns the row it holds into a result.
LEMMA RaiseKeepsSendInv ==
  ASSUME OneSender, IInv, SendInv, NEW p \in Process, RecordingRaises(p) \/ ExceptRaises(p)
  PROVE  SendInv'
<1>1. /\ p \in Dispatcher \cup Sender /\ cur[p] \in Row /\ cur[p] \notin todo[p]
      /\ pc[p] \in Holding
  BY DEF RecordingRaises, ExceptRaises, SendInv, BatchPending, Holding, IInv, TypeOK,
         LocalsTruthful
<1>2. \A q \in Process \ {p} : todo[q] = {} /\ pc[q] \notin Holding /\ pc[q] # "dispatching"
  BY <1>1, OthersIdle DEF SendInv
<1>3. /\ \A r \in Row : r # cur[p] => status'[r] = status[r]
      /\ Fault /\ UNCHANGED accepted /\ pc' = [pc EXCEPT ![p] = pc'[p]]
      /\ \/ pc'[p] = "raised" /\ UNCHANGED <<todo, cur>>
         \/ pc'[p] = "idle" /\ todo' = [todo EXCEPT ![p] = {}] /\ cur' = [cur EXCEPT ![p] = 0]
  BY <1>1 DEF RecordingRaises, ExceptRaises, Goto, Abandon, IInv, TypeOK
<1>4. \A q \in Process \ {p} : /\ todo'[q] = {} /\ pc'[q] \notin Holding
                               /\ pc'[q] # "dispatching"
  BY <1>2, <1>3 DEF IInv, TypeOK
<1>5. \A r \in todo'[p] : r \in Row /\ status'[r] = "pending" /\ r # cur[p]
  BY <1>1, <1>3 DEF SendInv, BatchPending, IInv, TypeOK
<1>6. BatchPending'
  BY <1>1, <1>3, <1>4, <1>5 DEF BatchPending, Holding, InFlight
<1> QED BY <1>3, <1>6, FaultKeepsRepeats DEF SendInv

\* The carrier takes the row in flight once more.
LEMMA AcceptKeepsRepeats ==
  ASSUME OneSender, IInv, SendInv, NEW p \in Process, pc[p] = "awaiting",
         accepted' = [accepted EXCEPT ![cur[p]] = @ + 1],
         pc'[p] \in {"succeeded", "errored"}, cur' = cur, status' = status, faults' = faults,
         \A q \in Process \ {p} : pc'[q] = pc[q]
  PROVE  RepeatsCounted'
<1> DEFINE r == cur[p]
<1>1. p \in Dispatcher \cup Sender /\ r \in Row /\ status[r] = "pending"
  BY DEF SendInv, BatchPending, InFlight, Holding, IInv, TypeOK, LocalsTruthful
<1>2. ~\E u \in Process : pc[u] \in {"succeeded", "errored"} /\ cur[u] = r
  BY <1>1, OthersIdle DEF SendInv, Holding
<1>3. accepted[r] <= faults
  BY <1>1, <1>2 DEF SendInv, RepeatsCounted, Result
<1>4. accepted'[r] = accepted[r] + 1 /\ \A q \in Row \ {r} : accepted'[q] = accepted[q]
  BY <1>1 DEF IInv, TypeOK
<1> HIDE DEF r
<1>5. ASSUME NEW q \in Row PROVE accepted'[q] <= 1 + faults'
  BY <1>1, <1>3, <1>4 DEF SendInv, RepeatsCounted, IInv, TypeOK
<1>6. ASSUME NEW q \in Row, status'[q] \notin Result,
             ~\E u \in Process : pc'[u] \in {"succeeded", "errored"} /\ cur'[u] = q
      PROVE  accepted'[q] <= faults'
  <2>1. q # r /\ ~\E u \in Process : pc[u] \in {"succeeded", "errored"} /\ cur[u] = q
    BY <1>6 DEF r
  <2> QED BY <1>4, <1>6, <2>1 DEF SendInv, RepeatsCounted
<1> QED BY <1>5, <1>6 DEF RepeatsCounted

\* A new row is held by nobody.
LEMMA InsertKeepsSendInv ==
  ASSUME IInv, SendInv, NEW r \in Row, NEW e \in Item \cup {NoItem}, Insert(r, e),
         UNCHANGED <<todo, cur, accepted, faults>>,
         NEW p \in Process, pc[p] \in {"idle", "inserting"},
         NEW l \in {"idle", "enqueueing"}, pc' = [pc EXCEPT ![p] = l]
  PROVE  SendInv'
<1>1. /\ r \notin Stored /\ status'[r] = "pending" /\ accepted[r] = 0
      /\ \A q \in Row \ {r} : status'[q] = status[q]
  BY InsertIsFresh
<1>2. \A q \in Process : r \notin todo[q]
  BY <1>1 DEF IInv, TypeOK, RowsStored, Stored
<1>3. \A q \in Process : pc'[q] \in Holding \cup {"dispatching"} => pc'[q] = pc[q]
  BY DEF Holding, IInv, TypeOK
<1>4. \A q \in Process : todo[q] \subseteq Row /\ (pc[q] \in Holding => cur[q] \in Row)
  BY DEF Holding, IInv, TypeOK, LocalsTruthful
<1>5. BatchPending'
  BY <1>1, <1>2, <1>3, <1>4 DEF SendInv, BatchPending, InFlight, Holding
<1>6. RepeatsCounted'
  <2>1. ASSUME NEW q \in Row, status'[q] \notin Result,
               ~\E u \in Process : pc'[u] \in {"succeeded", "errored"} /\ cur'[u] = q
        PROVE  accepted'[q] <= faults'
    <3>1. CASE q = r
      BY <1>1, <3>1 DEF IInv, TypeOK
    <3>2. CASE q # r
      BY <1>1, <2>1, <3>2 DEF SendInv, RepeatsCounted, IInv, TypeOK
    <3> QED BY <3>1, <3>2
  <2> QED BY <2>1 DEF SendInv, RepeatsCounted
<1> QED BY <1>5, <1>6 DEF SendInv

\* Synchronising keeps SendInv: it adds rows and prefixes the ids of failed ones.
LEMMA SyncKeepsSendInv ==
  ASSUME OneSender, IInv, SendInv, NEW p \in Process, Sync(p) PROVE SendInv'
<1> USE DEF SendInv, BatchPending, RepeatsCounted, InFlight, Holding, IInv, TypeOK
<1>1. CASE FetchOutbox(p)
  BY <1>1 DEF FetchOutbox, Goto, tableVars
<1>2. ASSUME NEW e \in Item, SkipItem(p, e) PROVE SendInv'
  BY <1>2 DEF SkipItem, tableVars
<1>3. ASSUME NEW e \in Item, NewItem(p, e) PROVE SendInv'
  BY <1>3 DEF NewItem, Goto, tableVars
<1>4. CASE InsertItem(p)
  <2>1. PICK r \in Row : Insert(r, incoming[p])
    BY <1>4 DEF InsertItem
  <2> HIDE DEF SendInv
  <2>2. pc' = [pc EXCEPT ![p] = "enqueueing"]
    BY <1>4 DEF InsertItem, Goto
  <2>3. pc[p] = "inserting" /\ UNCHANGED <<todo, cur, accepted, faults>>
    BY <1>4 DEF InsertItem
  <2> QED BY <2>1, <2>2, <2>3, InsertKeepsSendInv
<1>5. CASE EndFetch(p)
  BY <1>5 DEF EndFetch, Goto, tableVars
<1>6. CASE ReadUnreported(p)
  BY <1>6 DEF ReadUnreported, Goto, tableVars
<1>7. CASE PostStatuses(p)
  BY <1>7 DEF PostStatuses, Goto, tableVars
<1>8. CASE PostFails(p)
  BY <1>8 DEF PostFails, Goto, tableVars
<1>9. CASE ReadReported(p)
  BY <1>9 DEF ReadReported, Goto, tableVars
<1>10. CASE WriteReported(p)
  <2>1. PICK x \in payload[p] :
          /\ x[1] = cur[p]
          /\ status' = [status EXCEPT ![x[1]] = IF x[2] = "sent" THEN "delivered" ELSE x[2]]
          /\ payload' = [payload EXCEPT ![p] = @ \ {x}]
    BY <1>10 DEF WriteReported
  <2>2. x[1] \in Row /\ x[2] \in Result /\ status[x[1]] \in Result
    BY DEF RowsStored, Result
  <2>3. status'[x[1]] \in Result
    BY <2>1, <2>2 DEF Result
  <2>4. \A q \in Row \ {x[1]} : status'[q] = status[q]
    BY <2>1
  <2>5. UNCHANGED <<todo, accepted, faults>> /\ pc' = [pc EXCEPT ![p] = "marking"]
        /\ cur' = [cur EXCEPT ![p] = 0] /\ pc[p] = "stamping"
    BY <1>10 DEF WriteReported, Goto
  <2>7. BatchPending'
    <3>1. \A q \in Process : \A r \in todo[q] : r \in Row
      OBVIOUS
    <3>2. \A q \in Row : status[q] = "pending" => status'[q] = "pending"
      BY <2>2, <2>4 DEF Result
    <3>3. \A q \in Process : pc'[q] \in Holding =>
            pc[q] \in Holding /\ cur'[q] = cur[q] /\ cur[q] \in Row
      BY <2>5 DEF LocalsTruthful
    <3>4. \A q \in Process : pc'[q] \in Holding \cup {"dispatching"} => pc'[q] = pc[q]
      BY <2>5
    <3> HIDE DEF IInv, TypeOK
    <3> QED BY <2>5, <3>1, <3>2, <3>3, <3>4
  <2>8. RepeatsCounted'
    BY <2>2, <2>3, <2>4, <2>5 DEF Result
  <2> QED BY <2>7, <2>8
<1>11. CASE EndReport(p)
  BY <1>11 DEF EndReport, Goto, tableVars
<1> QED
  BY <1>1, <1>2, <1>3, <1>4, <1>5, <1>6, <1>7, <1>8, <1>9, <1>10, <1>11 DEF Sync

\* Dispatching keeps it: the one sending process holds the row in flight.
LEMMA SendKeepsSendInv ==
  ASSUME OneSender, IInv, SendInv, NEW p \in Process, Send(p) PROVE SendInv'
<1> USE DEF SendInv, BatchPending, RepeatsCounted, InFlight, Holding, IInv, TypeOK
<1>1. CASE EnqueueLocal(p)
  <2>1. PICK r \in Row : Insert(r, NoItem)
    BY <1>1 DEF EnqueueLocal
  <2>2. UNCHANGED <<pc, todo, cur, accepted, faults>>
    BY <1>1 DEF EnqueueLocal, processVars
  <2>3. pc[p] = "idle" /\ pc' = [pc EXCEPT ![p] = "idle"]
    BY <1>1, <2>2 DEF EnqueueLocal
  <2> HIDE DEF SendInv
  <2> QED BY <2>1, <2>2, <2>3, InsertKeepsSendInv
<1>2. CASE SendNow(p)
  <2>1. PICK r \in Row : Insert(r, NoItem) /\ cur' = [cur EXCEPT ![p] = r]
    BY <1>2 DEF SendNow
  <2>2. /\ r \notin Stored /\ status'[r] = "pending" /\ accepted[r] = 0
        /\ \A q \in Row \ {r} : status'[q] = status[q]
    BY <2>1, InsertIsFresh
  <2>3. /\ UNCHANGED <<todo, accepted, faults>> /\ p \in Sender /\ pc[p] = "idle"
        /\ pc' = [pc EXCEPT ![p] = "awaiting"]
    BY <1>2 DEF SendNow, Goto
  <2>4. \A q \in Process : r \notin todo[q]
    BY <2>2 DEF RowsStored, Stored
  <2>5. \A q \in Process \ {p} : pc[q] \notin Holding
    BY <2>3, OthersIdle
  <2>6. BatchPending'
    BY <2>1, <2>2, <2>3, <2>4, <2>5 DEF RowsStored, Stored
  <2>7. RepeatsCounted'
    BY <2>1, <2>2, <2>3 DEF Result, Stored
  <2> QED BY <2>6, <2>7
<1>3. CASE TakeBatch(p)
  <2>1. \A r \in todo'[p] : status[r] = "pending"
    BY <1>3 DEF TakeBatch, Oldest, PendingOutbox
  <2> QED BY <1>3, <2>1 DEF TakeBatch, Goto, tableVars
<1>4. CASE Dispatch(p)
  BY <1>4 DEF Dispatch, Goto, tableVars, LocalsTruthful
<1>5. CASE Suspend(p)
  BY <1>5 DEF Suspend, Goto, tableVars
<1>6. CASE EndBatch(p)
  BY <1>6 DEF EndBatch, Goto, tableVars
<1>7. CASE ProviderAccepts(p)
  <2>1. BatchPending'
    BY <1>7 DEF ProviderAccepts, Goto, tableVars
  <2>2. RepeatsCounted'
    BY <1>7, AcceptKeepsRepeats DEF ProviderAccepts, Goto, tableVars
  <2> QED BY <2>1, <2>2
<1>8. CASE AnswerLost(p)
  <2>1. BatchPending'
    BY <1>8 DEF AnswerLost, Goto, tableVars
  <2>2. RepeatsCounted'
    BY <1>8, AcceptKeepsRepeats DEF AnswerLost, Goto, tableVars
  <2> QED BY <2>1, <2>2
<1>9. CASE ProviderFails(p)
  BY <1>9 DEF ProviderFails, Goto, tableVars
<1>10. CASE RecordSent(p) \/ RecordFailed(p) \/ RecordRaised(p)
  BY <1>10, RecordKeepsSendInv DEF RecordSent, RecordFailed, RecordRaised
<1> QED
  BY <1>1, <1>2, <1>3, <1>4, <1>5, <1>6, <1>7, <1>8, <1>9, <1>10 DEF Send

\* Faults keep it: each accounts for the repetition it makes possible.
LEMMA FailKeepsSendInv ==
  ASSUME OneSender, IInv, SendInv, NEW p \in Process, Fail(p) PROVE SendInv'
<1>1. CASE RecordingRaises(p) \/ ExceptRaises(p)
  BY <1>1, RaiseKeepsSendInv
<1>2. CASE StatementFails(p) \/ Crash(p)
  <2>1. RepeatsCounted'
    BY <1>2, FaultKeepsRepeats DEF StatementFails, Crash, tableVars
  <2>2. BatchPending'
    BY <1>2 DEF StatementFails, Crash, Abandon, Goto, tableVars, SendInv, BatchPending,
                InFlight, Holding, IInv, TypeOK
  <2> QED BY <2>1, <2>2 DEF SendInv
<1> QED BY <1>1, <1>2 DEF Fail

\* Every step preserves SendInv when one process sends.
LEMMA StepSendInv ==
  ASSUME OneSender PROVE IInv /\ SendInv /\ [Next]_vars => SendInv'
<1> SUFFICES ASSUME IInv, SendInv, [Next]_vars PROVE SendInv'
  OBVIOUS
<1>1. CASE \E p \in Process : Start(p)
  BY <1>1 DEF Start, Goto, tableVars, SendInv, BatchPending, RepeatsCounted,
              InFlight, Holding, IInv, TypeOK
<1>2. CASE (\E e \in Item : Offer(e)) \/ UNCHANGED vars
  BY <1>2 DEF Offer, vars, processVars, tableVars, SendInv, BatchPending,
              RepeatsCounted, InFlight, Holding
<1> QED BY <1>1, <1>2, SyncKeepsSendInv, SendKeepsSendInv, FailKeepsSendInv DEF Next

\* So SendInv holds in every reachable state.
LEMMA SenderInvariant == ASSUME OneSender PROVE Spec => []SendInv
<1>1. Init => SendInv
  BY InitSendInv
<1>2. IInv /\ SendInv /\ [Next]_vars => SendInv'
  BY StepSendInv
<1> QED BY <1>1, <1>2, Invariant, PTL DEF Spec

\* With one process that sends, a row is transmitted again only for a fault that
\* kept its result out of the table.
THEOREM RepeatsAreCounted == ASSUME OneSender PROVE Spec => []RepeatsNeedFaults
<1>1. SendInv => RepeatsNeedFaults
  BY DEF SendInv, RepeatsCounted, RepeatsNeedFaults
<1> QED BY <1>1, SenderInvariant, PTL

-----------------------------------------------------------------------------
(* With one process that dispatches and none that sends at once.           *)

OneDispatcher == OneSender /\ Sender = {}

\* Ids grow: below a stored row everything is stored.
IdsGrow == \A q, r \in Row : r \in Stored /\ q < r => q \in Stored

\* A batch leaves out no older pending row, and the row in flight is the oldest.
BatchIsOldest ==
  \A p \in Process : \A q \in Row :
    status[q] = "pending" =>
      /\ \A r \in todo[p] : q < r => q \in todo[p] \/ (pc[p] \in Holding /\ q = cur[p])
      /\ pc[p] \in Holding => ~(q < cur[p])

QueueInv == IdsGrow /\ BatchIsOldest /\ OldestFirst

\* Initially nothing is stored.
LEMMA InitQueueInv == Init => QueueInv
BY DEF Init, QueueInv, IdsGrow, BatchIsOldest, OldestFirst, Stored, Row, Holding

\* The oldest n of a set of rows leave out none that is older than one of them.
LEMMA OldestIsDownward ==
  ASSUME NEW n \in Nat, NEW S \in SUBSET Row, NEW r \in Oldest(n, S), NEW q \in S, q < r
  PROVE  q \in Oldest(n, S)
<1> DEFINE Below(x) == {y \in S : y < x}
<1>1. IsFiniteSet(Row)
  BY FS_Interval, OutboxAssumption DEF Row
<1>2. IsFiniteSet(Below(r))
  BY <1>1, FS_Subset
<1>3. Below(q) \subseteq Below(r)
  <2>1. ASSUME NEW y \in S, y < q PROVE y < r
    <3>1. y \in Int /\ q \in Int /\ r \in Int
      BY OutboxAssumption DEF Oldest, Row
    <3> QED BY <2>1, <3>1
  <2> QED BY <2>1
<1>4. Cardinality(Below(q)) <= Cardinality(Below(r)) /\ Cardinality(Below(q)) \in Nat
      /\ Cardinality(Below(r)) \in Nat
  BY <1>2, <1>3, FS_Subset, FS_CardinalityType
<1>5. Cardinality(Below(r)) < n
  BY DEF Oldest
<1> QED BY <1>4, <1>5 DEF Oldest

\* A step that makes no row pending, accepts nothing and takes no row keeps the order.
LEMMA QueueShrinks ==
  ASSUME IInv, QueueInv, Stored' = Stored, accepted' = accepted,
         \A r \in Row : status'[r] = "pending" => status[r] = "pending",
         \A p \in Process :
           \/ todo'[p] = {}
           \/ /\ todo'[p] = todo[p]
              /\ pc[p] \in Holding =>
                   \/ pc'[p] \in Holding /\ cur'[p] = cur[p]
                   \/ status'[cur[p]] # "pending",
         \A p \in Process : pc'[p] \in Holding => pc[p] \in Holding /\ cur'[p] = cur[p]
  PROVE  QueueInv'
<1>1. IdsGrow' /\ OldestFirst'
  BY DEF QueueInv, IdsGrow, OldestFirst
<1>2. BatchIsOldest'
  BY DEF QueueInv, BatchIsOldest
<1> QED BY <1>1, <1>2 DEF QueueInv

\* A new row is younger than every row that was sent or taken.
LEMMA InsertKeepsQueueInv ==
  ASSUME IInv, QueueInv, NEW r \in Row, NEW e \in Item \cup {NoItem}, Insert(r, e),
         UNCHANGED <<todo, cur, accepted>>,
         \A p \in Process : pc'[p] \in Holding <=> pc[p] \in Holding
  PROVE  QueueInv'
<1>1. /\ r \notin Stored /\ Stored' = Stored \cup {r}
      /\ \A q \in Row \ {r} : status'[q] = status[q]
  BY InsertIsFresh
<1>2. \A q \in Stored : q \in Row /\ ~(r < q)
  BY <1>1 DEF QueueInv, IdsGrow, Stored
<1>3. IdsGrow'
  BY <1>1 DEF QueueInv, IdsGrow, Insert, IsNextId
<1>4. OldestFirst'
  <2>1. ASSUME NEW q \in Row, r < q PROVE accepted[q] = 0
    BY <1>2, <2>1 DEF IInv, TypeOK, RowsStored
  <2> QED BY <1>1, <2>1 DEF QueueInv, OldestFirst
<1>5. BatchIsOldest'
  <2>1. \A p \in Process : \A q \in todo[p] : ~(r < q)
    BY <1>2 DEF IInv, RowsStored
  <2>2. \A p \in Process : pc[p] \in Holding => ~(r < cur[p])
    BY <1>2 DEF IInv, RowsStored, LocalsTruthful, Holding
  <2> QED BY <1>1, <2>1, <2>2 DEF QueueInv, BatchIsOldest
<1> QED BY <1>3, <1>4, <1>5 DEF QueueInv

\* The carrier takes the oldest row.
LEMMA AcceptKeepsQueueInv ==
  ASSUME IInv, QueueInv, NEW p \in Process, pc[p] = "awaiting",
         accepted' = [accepted EXCEPT ![cur[p]] = @ + 1],
         NEW l \in {"succeeded", "errored"}, Goto(p, l), UNCHANGED <<status, todo, cur>>
  PROVE  QueueInv'
<1>1. Stored' = Stored
  BY DEF Stored
<1>2. IdsGrow'
  BY <1>1 DEF QueueInv, IdsGrow
<1>3. BatchIsOldest'
  BY DEF QueueInv, BatchIsOldest, Goto, Holding, IInv, TypeOK
<1>4. OldestFirst'
  <2>1. cur[p] \in Row /\ \A q \in Row : status[q] = "pending" => ~(q < cur[p])
    BY DEF QueueInv, BatchIsOldest, Holding, IInv, TypeOK, LocalsTruthful
  <2> QED BY <2>1 DEF QueueInv, OldestFirst, IInv, TypeOK
<1> QED BY <1>2, <1>3, <1>4 DEF QueueInv

\* Recording a result takes one row out of the queue.
LEMMA RecordKeepsQueueInv ==
  ASSUME IInv, QueueInv, NEW p \in Process, pc[p] \in {"succeeded", "errored", "raised"},
         NEW s \in {"sent", "failed"}, Record(p, s)
  PROVE  QueueInv'
<1>1. cur[p] \in Row /\ status[cur[p]] # "none"
  BY DEF IInv, RowsStored, LocalsTruthful, Holding, Stored
<1>2. /\ status' = [status EXCEPT ![cur[p]] = s] /\ UNCHANGED <<todo, accepted>>
      /\ pc' = [pc EXCEPT ![p] = "dispatching"] /\ cur' = [cur EXCEPT ![p] = 0]
  BY DEF Record, Goto
<1>3. Stored' = Stored /\ \A r \in Row : status'[r] = "pending" => status[r] = "pending"
  BY <1>1, <1>2 DEF Stored, IInv, TypeOK
<1>4. status'[cur[p]] # "pending"
  BY <1>1, <1>2 DEF IInv, TypeOK
<1>5. \A q \in Process : pc'[q] \in Holding => pc[q] \in Holding /\ cur'[q] = cur[q]
  BY <1>2 DEF Holding, IInv, TypeOK
<1>6. \A q \in Process : q # p => pc'[q] = pc[q] /\ cur'[q] = cur[q]
  BY <1>2 DEF IInv, TypeOK
<1> QED BY <1>2, <1>3, <1>4, <1>5, <1>6, QueueShrinks

\* Every step of a single dispatcher keeps the order.
LEMMA StepQueueInv ==
  ASSUME OneDispatcher PROVE IInv /\ SendInv /\ QueueInv /\ [Next]_vars => QueueInv'
<1> SUFFICES ASSUME IInv, SendInv, QueueInv, [Next]_vars PROVE QueueInv'
  OBVIOUS
<1>1. ASSUME NEW p \in Process, Sync(p) PROVE QueueInv'
  <2>1. CASE InsertItem(p)
    <3>1. PICK r \in Row : Insert(r, incoming[p])
      BY <2>1 DEF InsertItem
    <3>2. /\ incoming[p] \in Item \cup {NoItem} /\ UNCHANGED <<todo, cur, accepted>>
          /\ \A q \in Process : pc'[q] \in Holding <=> pc[q] \in Holding
      BY <2>1 DEF InsertItem, Goto, Holding, IInv, TypeOK
    <3> QED BY <3>1, <3>2, InsertKeepsQueueInv
  <2>2. CASE WriteReported(p)
    <3>1. Stored' = Stored /\ \A r \in Row : status'[r] = "pending" => status[r] = "pending"
      BY <2>2 DEF WriteReported, Stored, Result, RowsStored, IInv, TypeOK
    <3>2. /\ UNCHANGED <<todo, accepted>>
          /\ \A q \in Process : pc[q] \in Holding \/ pc'[q] \in Holding =>
               pc'[q] = pc[q] /\ cur'[q] = cur[q]
      BY <2>2 DEF WriteReported, Goto, Holding, IInv, TypeOK
    <3> QED BY <3>1, <3>2, QueueShrinks
  <2>3. CASE ReadReported(p)
    <3>1. /\ UNCHANGED <<status, todo, accepted>>
          /\ \A q \in Process : pc[q] \in Holding \/ pc'[q] \in Holding =>
               pc'[q] = pc[q] /\ cur'[q] = cur[q]
      BY <2>3 DEF ReadReported, tableVars, Goto, Holding, IInv, TypeOK
    <3> QED BY <3>1, QueueShrinks DEF Stored
  <2>4. CASE \E e \in Item : SkipItem(p, e) \/ NewItem(p, e)
    <3>1. /\ UNCHANGED <<status, todo, cur, accepted>>
          /\ \A q \in Process : pc[q] \in Holding \/ pc'[q] \in Holding => pc'[q] = pc[q]
      BY <2>4 DEF SkipItem, NewItem, tableVars, Goto, Holding, IInv, TypeOK
    <3> QED BY <3>1, QueueShrinks DEF Stored
  <2>5. CASE FetchOutbox(p) \/ EndFetch(p) \/ ReadUnreported(p) \/ PostStatuses(p)
             \/ PostFails(p) \/ EndReport(p)
    <3>1. /\ UNCHANGED <<status, todo, cur, accepted>>
          /\ \A q \in Process : pc[q] \in Holding \/ pc'[q] \in Holding => pc'[q] = pc[q]
      BY <2>5 DEF FetchOutbox, EndFetch, ReadUnreported, PostStatuses, PostFails, EndReport,
                  tableVars, Goto, Holding, IInv, TypeOK
    <3> QED BY <3>1, QueueShrinks DEF Stored
  <2> QED BY <1>1, <2>1, <2>2, <2>3, <2>4, <2>5 DEF Sync
<1>2. ASSUME NEW p \in Process, Send(p) PROVE QueueInv'
  <2>1. CASE EnqueueLocal(p)
    <3>1. PICK r \in Row : Insert(r, NoItem)
      BY <2>1 DEF EnqueueLocal
    <3>2. UNCHANGED <<pc, todo, cur, accepted>>
      BY <2>1 DEF EnqueueLocal, processVars
    <3> QED BY <3>1, <3>2, InsertKeepsQueueInv
  <2>2. ~SendNow(p)
    BY DEF SendNow, OneDispatcher
  <2>3. CASE TakeBatch(p)
    <3> DEFINE batch == Oldest(BatchLimit, PendingOutbox)
    <3>1. /\ UNCHANGED <<status, cur, accepted>> /\ Stored' = Stored
          /\ todo' = [todo EXCEPT ![p] = batch] /\ pc' = [pc EXCEPT ![p] = "dispatching"]
          /\ pc[p] = "idle"
      BY <2>3 DEF TakeBatch, tableVars, Goto, Stored
    <3>2. \A r \in batch : \A q \in Row : status[q] = "pending" /\ q < r => q \in batch
      BY OldestIsDownward, OutboxAssumption DEF PendingOutbox
    <3> HIDE DEF batch
    <3>3. BatchIsOldest'
      BY <3>1, <3>2 DEF QueueInv, BatchIsOldest, Holding, IInv, TypeOK
    <3> QED BY <3>1, <3>3 DEF QueueInv, IdsGrow, OldestFirst
  <2>4. CASE Dispatch(p)
    <3>1. PICK r \in todo[p] : /\ \A q \in todo[p] : r <= q
                               /\ cur' = [cur EXCEPT ![p] = r]
                               /\ todo' = [todo EXCEPT ![p] = @ \ {r}]
      BY <2>4 DEF Dispatch
    <3>2. /\ UNCHANGED <<status, accepted>> /\ Stored' = Stored /\ r \in Row
          /\ pc' = [pc EXCEPT ![p] = "awaiting"] /\ pc[p] = "dispatching"
      BY <2>4 DEF Dispatch, tableVars, Goto, Stored, IInv, TypeOK
    <3>3. \A q \in Row : status[q] = "pending" => ~(q < r)
      <4>1. ASSUME NEW q \in Row, status[q] = "pending", q < r PROVE FALSE
        <5>1. q \in todo[p]
          BY <3>2, <4>1 DEF QueueInv, BatchIsOldest, Holding
        <5> QED BY <3>1, <3>2, <4>1, <5>1 DEF Row
      <4> QED BY <4>1
    <3>4. BatchIsOldest'
      BY <3>1, <3>2, <3>3 DEF QueueInv, BatchIsOldest, Holding, IInv, TypeOK
    <3> QED BY <3>2, <3>4 DEF QueueInv, IdsGrow, OldestFirst
  <2>5. CASE Suspend(p) \/ EndBatch(p) \/ ProviderFails(p)
    <3>1. /\ UNCHANGED <<status, cur, accepted>>
          /\ \A q \in Process : todo'[q] = {} \/ todo'[q] = todo[q]
          /\ \A q \in Process : pc[q] \in Holding <=> pc'[q] \in Holding
      BY <2>5 DEF Suspend, EndBatch, ProviderFails, tableVars, Goto, Holding, IInv, TypeOK
    <3> QED BY <3>1, QueueShrinks DEF Stored
  <2>6. CASE ProviderAccepts(p) \/ AnswerLost(p)
    BY <2>6, AcceptKeepsQueueInv DEF ProviderAccepts, AnswerLost, tableVars
  <2>7. CASE RecordSent(p) \/ RecordFailed(p) \/ RecordRaised(p)
    BY <2>7, RecordKeepsQueueInv DEF RecordSent, RecordFailed, RecordRaised
  <2> QED BY <1>2, <2>1, <2>2, <2>3, <2>4, <2>5, <2>6, <2>7 DEF Send
<1>3. ASSUME NEW p \in Process, Fail(p) PROVE QueueInv'
  <2>1. CASE RecordingRaises(p) \/ ExceptRaises(p)
    <3>1. /\ cur[p] \in Row /\ status[cur[p]] # "none" /\ UNCHANGED accepted
          /\ pc[p] \in Holding
      BY <2>1 DEF RecordingRaises, ExceptRaises, IInv, RowsStored, LocalsTruthful, Holding,
                  Stored
    <3>2. \A r \in Row : status'[r] = status[r]
                           \/ (r = cur[p] /\ status'[r] \in {"sent", "failed"})
      BY <2>1, <3>1 DEF RecordingRaises, ExceptRaises, IInv, TypeOK
    <3>3. Stored' = Stored /\ \A r \in Row : status'[r] = "pending" => status[r] = "pending"
      BY <3>1, <3>2 DEF Stored
    <3>4. \A q \in Process :
            \/ todo'[q] = {} /\ pc'[q] \notin Holding
            \/ /\ todo'[q] = todo[q] /\ cur'[q] = cur[q]
               /\ pc'[q] \in Holding <=> pc[q] \in Holding
      BY <2>1, <3>1 DEF RecordingRaises, ExceptRaises, Abandon, Goto, Holding, IInv, TypeOK
    <3> QED BY <3>1, <3>3, <3>4, QueueShrinks
  <2>2. CASE StatementFails(p) \/ Crash(p)
    <3>1. /\ UNCHANGED <<status, accepted>>
          /\ \A q \in Process : todo'[q] = {} \/ (todo'[q] = todo[q] /\ pc'[q] = pc[q] /\ cur'[q] = cur[q])
          /\ \A q \in Process : pc'[q] \in Holding => pc'[q] = pc[q] /\ cur'[q] = cur[q]
      BY <2>2 DEF StatementFails, Crash, Abandon, tableVars, Goto, Holding, IInv, TypeOK
    <3> QED BY <3>1, QueueShrinks DEF Stored
  <2> QED BY <1>3, <2>1, <2>2 DEF Fail
<1>4. ASSUME NEW p \in Process, Start(p) PROVE QueueInv'
  <2>1. /\ UNCHANGED <<status, todo, cur, accepted>>
        /\ \A q \in Process : pc[q] \in Holding <=> pc'[q] \in Holding
    BY <1>4 DEF Start, tableVars, Goto, Holding, IInv, TypeOK
  <2> QED BY <2>1, QueueShrinks DEF Stored
<1>5. CASE (\E e \in Item : Offer(e)) \/ UNCHANGED vars
  <2>1. UNCHANGED <<status, todo, cur, accepted, pc>>
    BY <1>5 DEF Offer, vars, tableVars, processVars
  <2> QED BY <2>1, QueueShrinks DEF Stored
<1> QED BY <1>1, <1>2, <1>3, <1>4, <1>5 DEF Next

\* With one process that dispatches, nothing is sent while an older row waits,
\* wherever limiter, crashes and failed writes cut the batches.
THEOREM OldestGoesFirst == ASSUME OneDispatcher PROVE Spec => []OldestFirst
<1>1. IInv /\ SendInv /\ QueueInv /\ [Next]_vars => QueueInv'
  BY StepQueueInv
<1>2. QueueInv => OldestFirst
  BY DEF QueueInv
<1>3. Spec => []SendInv
  BY SenderInvariant DEF OneDispatcher
<1> QED BY InitQueueInv, <1>1, <1>2, <1>3, Invariant, PTL DEF Spec

-----------------------------------------------------------------------------
(* With one process that both synchronises and sends, as the daemon does.  *)

OneGateway == \A p, q \in Syncer \cup Dispatcher \cup Sender : p = q

\* Then there is one of each.
LEMMA OneOfEach == ASSUME OneGateway PROVE OneSyncer /\ OneSender
BY DEF OneGateway, OneSyncer, OneSender

\* What a report carries is at most one report behind the table.
PayloadFresh ==
  \A p \in Process : \A x \in payload[p] :
    status[x[1]] = x[2] \/ (x[2] = "sent" /\ status[x[1]] = "delivered")

\* A process has a report only while it reports, and a row in hand only while it
\* sends or stamps; a row it fails to record is not reported meanwhile.
Apart ==
  \A p \in Process :
    /\ payload[p] # {} => pc[p] \in {"posting", "marking", "stamping"}
    /\ cur[p] # 0 => pc[p] \in Holding \cup {"stamping"}
    /\ pc[p] = "raised" => status[cur[p]] # "delivered"

FreshInv == PayloadFresh /\ Apart

\* Initially nothing is reported or sent.
LEMMA InitFreshInv == Init => FreshInv
BY DEF Init, FreshInv, PayloadFresh, Apart

\* While a row is being sent there is no report that could speak of it.
LEMMA SendsAlone ==
  ASSUME OneGateway, IInv, SyncInv, SendInv, FreshInv, NEW p \in Process, pc[p] \in Holding
  PROVE  \A q \in Process :
           /\ payload[q] = {} /\ pc[q] \notin Syncing
           /\ q # p => cur[q] = 0 /\ pc[q] \notin Holding
<1>1. p \in Dispatcher \cup Sender
  BY DEF SendInv, BatchPending
<1>2. ASSUME NEW q \in Process PROVE pc[q] \notin Syncing
  <2>1. CASE q = p
    BY <2>1 DEF Syncing, Holding
  <2>2. CASE q # p
    BY <1>1, <2>2 DEF SyncInv, OneGateway
  <2> QED BY <2>1, <2>2
<1>3. \A q \in Process : q # p => pc[q] \notin Holding
  BY <1>1 DEF OneGateway, SendInv, BatchPending
<1> QED BY <1>2, <1>3 DEF FreshInv, Apart, Syncing

\* A step that changes no row keeps it when it makes no report and takes no row.
LEMMA QuietKeepsFresh ==
  ASSUME IInv, FreshInv, NEW p \in Process,
         \A r \in Stored : status'[r] = status[r],
         \A q \in Process : q # p =>
           pc'[q] = pc[q] /\ cur'[q] = cur[q] /\ payload'[q] = payload[q],
         payload'[p] = {} \/ (payload'[p] \subseteq payload[p]
                               /\ pc'[p] \in {"posting", "marking", "stamping"}),
         cur'[p] = 0 \/ pc'[p] \in Holding \cup {"stamping"},
         pc'[p] # "raised"
  PROVE  FreshInv'
<1>1. \A q \in Process : \A x \in payload[q] : x[1] \in Stored
  BY DEF IInv, TypeOK, RowsStored, Stored, Result
<1>2. PayloadFresh'
  BY <1>1 DEF FreshInv, PayloadFresh
<1>3. \A q \in Process : pc[q] = "raised" => cur[q] \in Stored
  BY DEF IInv, RowsStored, LocalsTruthful, Holding
<1>4. Apart'
  BY <1>3 DEF FreshInv, Apart
<1> QED BY <1>2, <1>4 DEF FreshInv

\* Nor does a step that sends or records: no report is under way.
LEMMA RecordsKeepFresh ==
  ASSUME OneGateway, IInv, SyncInv, SendInv, FreshInv, NEW p \in Process, pc[p] \in Holding,
         \A q \in Process : q # p => pc'[q] = pc[q] /\ cur'[q] = cur[q],
         payload' = payload \/ payload' = [payload EXCEPT ![p] = {}],
         \/ cur'[p] = 0 /\ pc'[p] # "raised"
         \/ pc'[p] \in Holding /\ (pc'[p] = "raised" => status'[cur'[p]] # "delivered")
  PROVE  FreshInv'
<1>1. \A q \in Process : payload'[q] = {} /\ (q # p => pc'[q] \notin Holding /\ cur'[q] = 0)
  BY SendsAlone DEF IInv, TypeOK
<1>2. PayloadFresh'
  BY <1>1 DEF PayloadFresh
<1>3. Apart'
  BY <1>1 DEF Apart, Holding
<1> QED BY <1>2, <1>3 DEF FreshInv

\* Every step of a gateway keeps it.
LEMMA StepFreshInv ==
  ASSUME OneGateway
  PROVE  IInv /\ SyncInv /\ SendInv /\ FreshInv /\ [Next]_vars => FreshInv'
<1> SUFFICES ASSUME IInv, SyncInv, SendInv, FreshInv, [Next]_vars PROVE FreshInv'
  OBVIOUS
<1>1. ASSUME NEW p \in Process, Sync(p) PROVE FreshInv'
  <2>1. CASE InsertItem(p)
    <3>1. PICK r \in Row : Insert(r, incoming[p])
      BY <2>1 DEF InsertItem
    <3>2. incoming[p] \in Item \cup {NoItem}
      BY DEF IInv, TypeOK
    <3>3. \A q \in Stored : status'[q] = status[q]
      BY <3>1, <3>2, InsertIsFresh DEF Stored
    <3>4. pc[p] = "inserting" /\ pc' = [pc EXCEPT ![p] = "enqueueing"]
          /\ UNCHANGED <<cur, payload>>
      BY <2>1 DEF InsertItem, Goto
    <3> QED BY <3>3, <3>4, QuietKeepsFresh DEF FreshInv, Apart, Holding, IInv, TypeOK
  <2>2. CASE FetchOutbox(p) \/ EndFetch(p) \/ PostStatuses(p) \/ PostFails(p) \/ EndReport(p)
             \/ \E e \in Item : SkipItem(p, e) \/ NewItem(p, e)
    <3>1. /\ UNCHANGED <<status, cur>> /\ pc[p] \in {"idle", "enqueueing", "posting", "marking"}
          /\ payload' = payload \/ payload' = [payload EXCEPT ![p] = {}]
          /\ pc' = [pc EXCEPT ![p] = pc'[p]] /\ pc'[p] # "raised"
          /\ \/ pc[p] \in {"posting", "marking"} /\ pc'[p] = "marking"
             \/ payload'[p] = {} \/ pc[p] \in {"idle", "enqueueing"}
      BY <2>2 DEF FetchOutbox, EndFetch, PostStatuses, PostFails, EndReport, SkipItem, NewItem,
                  Goto, tableVars, IInv, TypeOK
    <3>2. cur[p] = 0 /\ (pc[p] \in {"idle", "enqueueing"} => payload[p] = {})
      BY <3>1 DEF FreshInv, Apart, Holding
    <3> QED BY <3>1, <3>2, QuietKeepsFresh DEF IInv, TypeOK
  <2>3. CASE ReadUnreported(p)
    <3> DEFINE batch == Oldest(ReportLimit, UnreportedOutbox)
    <3>1. /\ UNCHANGED <<status, cur>> /\ pc[p] = "reporting"
          /\ pc' = [pc EXCEPT ![p] = pc'[p]] /\ pc'[p] \in {"idle", "posting"}
          /\ payload' = [payload EXCEPT ![p] = {<<r, status[r]>> : r \in batch}]
          /\ pc'[p] # "posting" => batch = {}
      BY <2>3 DEF ReadUnreported, Goto, tableVars, Oldest, IInv, TypeOK
    <3> HIDE DEF batch
    <3>2. cur[p] = 0
      BY <3>1 DEF FreshInv, Apart, Holding
    <3>3. /\ \A x \in payload'[p] : status[x[1]] = x[2]
          /\ pc'[p] # "posting" => payload'[p] = {}
          /\ \A q \in Process : q # p => payload'[q] = payload[q] /\ pc'[q] = pc[q]
      BY <3>1 DEF IInv, TypeOK
    <3>4. PayloadFresh'
      BY <3>1, <3>3 DEF FreshInv, PayloadFresh
    <3>5. Apart'
      BY <3>1, <3>2, <3>3 DEF FreshInv, Apart
    <3> QED BY <3>4, <3>5 DEF FreshInv
  <2>4. CASE ReadReported(p)
    <3>1. PICK x \in payload[p] :
            /\ cur' = [cur EXCEPT ![p] = x[1]]
            /\ payload' = [payload EXCEPT ![p] = (@ \ {x}) \cup {<<x[1], status[x[1]]>>}]
      BY <2>4 DEF ReadReported
    <3>2. UNCHANGED status /\ pc' = [pc EXCEPT ![p] = "stamping"]
      BY <2>4 DEF ReadReported, Goto, tableVars
    <3>3. /\ \A y \in payload'[p] : y \in payload[p] \/ status[y[1]] = y[2]
          /\ pc'[p] = "stamping"
          /\ \A q \in Process : q # p =>
               payload'[q] = payload[q] /\ pc'[q] = pc[q] /\ cur'[q] = cur[q]
      BY <3>1, <3>2 DEF IInv, TypeOK
    <3>4. PayloadFresh'
      BY <3>2, <3>3 DEF FreshInv, PayloadFresh
    <3>5. Apart'
      BY <3>2, <3>3 DEF FreshInv, Apart
    <3> QED BY <3>4, <3>5 DEF FreshInv
  <2>5. CASE WriteReported(p)
    <3>1. PICK x \in payload[p] :
            /\ x[1] = cur[p]
            /\ status' = [status EXCEPT ![x[1]] = IF x[2] = "sent" THEN "delivered" ELSE x[2]]
            /\ payload' = [payload EXCEPT ![p] = @ \ {x}]
      BY <2>5 DEF WriteReported
    <3>2. /\ pc' = [pc EXCEPT ![p] = "marking"] /\ cur' = [cur EXCEPT ![p] = 0]
          /\ pc[p] = "stamping"
      BY <2>5 DEF WriteReported, Goto
    <3>3. /\ x[1] \in Row /\ x[2] \in Result
          /\ status[x[1]] = x[2] \/ (x[2] = "sent" /\ status[x[1]] = "delivered")
      BY DEF FreshInv, PayloadFresh, IInv, TypeOK, Result
    <3>4. /\ status'[x[1]] = status[x[1]]
             \/ (status[x[1]] = "sent" /\ status'[x[1]] = "delivered")
          /\ \A r \in Row : r # x[1] => status'[r] = status[r]
      BY <3>1, <3>3 DEF IInv, TypeOK
    <3>5. /\ \A q \in Process : payload'[q] \subseteq payload[q]
          /\ \A q \in Process : \A y \in payload[q] : y[1] \in Row
          /\ \A q \in Process : q # p => pc'[q] = pc[q] /\ cur'[q] = cur[q]
          /\ pc'[p] = "marking" /\ cur'[p] = 0
      BY <3>1, <3>2 DEF IInv, TypeOK
    <3>6. PayloadFresh'
      BY <3>4, <3>5 DEF FreshInv, PayloadFresh
    <3>7. \A q \in Process : pc[q] # "raised"
      BY <3>2, SendsAlone DEF Holding, Syncing
    <3>8. Apart'
      BY <3>5, <3>7 DEF FreshInv, Apart
    <3> QED BY <3>6, <3>8 DEF FreshInv
  <2> QED BY <1>1, <2>1, <2>2, <2>3, <2>4, <2>5 DEF Sync
<1>2. ASSUME NEW p \in Process, Send(p) \/ Start(p) PROVE FreshInv'
  <2>1. CASE EnqueueLocal(p) \/ SendNow(p)
    <3>1. PICK r \in Row : Insert(r, NoItem)
      BY <2>1 DEF EnqueueLocal, SendNow
    <3>2. \A q \in Stored : status'[q] = status[q]
      BY <3>1, InsertIsFresh DEF Stored
    <3>3. /\ pc[p] = "idle" /\ payload' = payload
          /\ \A q \in Process : q # p => pc'[q] = pc[q] /\ cur'[q] = cur[q]
          /\ pc'[p] = "awaiting" \/ (pc'[p] = "idle" /\ cur'[p] = cur[p])
      BY <2>1 DEF EnqueueLocal, SendNow, processVars, Goto, IInv, TypeOK
    <3>4. cur[p] = 0 /\ payload[p] = {}
      BY <3>3 DEF FreshInv, Apart, Holding
    <3> QED BY <3>2, <3>3, <3>4, QuietKeepsFresh DEF Holding
  <2>2. CASE TakeBatch(p) \/ Dispatch(p) \/ Suspend(p) \/ EndBatch(p) \/ Start(p)
             \/ ProviderAccepts(p) \/ AnswerLost(p) \/ ProviderFails(p)
    <3>1. /\ UNCHANGED <<status, payload>> /\ pc[p] \in {"idle", "dispatching", "awaiting", "off"}
          /\ pc' = [pc EXCEPT ![p] = pc'[p]] /\ pc'[p] # "raised"
          /\ pc[p] = "awaiting" => pc'[p] \in Holding
          /\ \/ pc[p] # "dispatching" /\ cur' = cur
             \/ pc[p] = "dispatching" /\ pc'[p] \in {"awaiting", "idle"}
                /\ cur' = [cur EXCEPT ![p] = cur'[p]] /\ (pc'[p] = "idle" => cur' = cur)
      BY <2>2 DEF TakeBatch, Dispatch, Suspend, EndBatch, Start, ProviderAccepts, AnswerLost,
                  ProviderFails, Goto, Holding, tableVars, IInv, TypeOK
    <3>2. payload[p] = {} /\ (pc[p] # "awaiting" => cur[p] = 0)
      BY <3>1 DEF FreshInv, Apart, Holding
    <3>3. cur'[p] = 0 \/ pc'[p] \in Holding
      BY <3>1, <3>2 DEF Holding
    <3>4. \A q \in Process : q # p =>
            pc'[q] = pc[q] /\ cur'[q] = cur[q] /\ payload'[q] = payload[q]
      BY <3>1 DEF IInv, TypeOK
    <3> QED BY <3>1, <3>2, <3>3, <3>4, QuietKeepsFresh
  <2>3. CASE RecordSent(p) \/ RecordFailed(p) \/ RecordRaised(p)
    <3>1. /\ pc[p] \in Holding /\ payload' = payload
          /\ pc' = [pc EXCEPT ![p] = "dispatching"] /\ cur' = [cur EXCEPT ![p] = 0]
      BY <2>3 DEF RecordSent, RecordFailed, RecordRaised, Record, Goto, Holding
    <3> QED BY <3>1, RecordsKeepFresh DEF IInv, TypeOK
  <2> QED BY <1>2, <2>1, <2>2, <2>3 DEF Send
<1>3. ASSUME NEW p \in Process, Fail(p) PROVE FreshInv'
  <2>1. CASE RecordingRaises(p)
    <3>1. /\ pc[p] \in {"succeeded", "errored"} /\ UNCHANGED <<payload, cur>>
          /\ pc' = [pc EXCEPT ![p] = "raised"]
          /\ status' = status
             \/ \E s \in {"sent", "failed"} : status' = [status EXCEPT ![cur[p]] = s]
      BY <2>1 DEF RecordingRaises, Goto
    <3>2. cur[p] \in Row /\ status[cur[p]] = "pending"
      BY <3>1 DEF SendInv, BatchPending, InFlight, IInv, TypeOK, LocalsTruthful, Holding
    <3>3. status'[cur[p]] # "delivered"
      BY <3>1, <3>2 DEF IInv, TypeOK
    <3> QED BY <3>1, <3>3, RecordsKeepFresh DEF IInv, TypeOK, Holding
  <2>2. CASE ExceptRaises(p)
    <3>1. /\ pc[p] = "raised" /\ payload' = [payload EXCEPT ![p] = {}]
          /\ pc' = [pc EXCEPT ![p] = "idle"] /\ cur' = [cur EXCEPT ![p] = 0]
      BY <2>2 DEF ExceptRaises, Abandon, Goto
    <3> QED BY <3>1, RecordsKeepFresh DEF IInv, TypeOK, Holding
  <2>3. CASE StatementFails(p) \/ Crash(p)
    <3>1. /\ UNCHANGED status /\ payload' = [payload EXCEPT ![p] = {}]
          /\ cur' = [cur EXCEPT ![p] = 0]
          /\ pc' = [pc EXCEPT ![p] = pc'[p]] /\ pc'[p] \in {"idle", "off"}
      BY <2>3 DEF StatementFails, Crash, Abandon, Goto, tableVars, IInv, TypeOK
    <3> QED BY <3>1, QuietKeepsFresh DEF IInv, TypeOK
  <2> QED BY <1>3, <2>1, <2>2, <2>3 DEF Fail
<1>4. CASE (\E e \in Item : Offer(e)) \/ UNCHANGED vars
  BY <1>4 DEF Offer, vars, tableVars, processVars, FreshInv, PayloadFresh, Apart
<1> QED BY <1>1, <1>2, <1>3, <1>4 DEF Next

\* So it holds in every reachable state.
LEMMA GatewayInvariant ==
  ASSUME OneGateway PROVE Spec => [](IInv /\ SyncInv /\ SendInv /\ FreshInv)
<1>1. OneSyncer /\ OneSender
  BY OneOfEach
<1>2. IInv /\ SyncInv /\ [Next]_vars => SyncInv'
  BY <1>1, StepSyncInv
<1>3. Spec => []SendInv
  BY <1>1, SenderInvariant
<1>4. IInv /\ SyncInv /\ SendInv /\ FreshInv /\ [Next]_vars => FreshInv'
  BY StepFreshInv
<1> QED BY <1>2, <1>3, <1>4, InitSyncInv, InitFreshInv, Invariant, PTL DEF Spec

\* A step that changes a result is its report, or the FAILED of the except branch.
LEMMA StepIsFinal ==
  ASSUME OneGateway, IInv, SyncInv, SendInv, FreshInv, [Next]_vars,
         NEW r \in Row, status[r] \in Result, status'[r] # status[r]
  PROVE  /\ status[r] = "sent"
         /\ \/ status'[r] = "delivered" /\ \A p \in Process : cur[p] = r => pc[p] = "stamping"
            \/ status'[r] = "failed" /\ \E p \in Process : cur[p] = r /\ pc[p] = "raised"
<1>1. ASSUME NEW q \in Row, NEW e \in Item \cup {NoItem}, Insert(q, e) PROVE FALSE
  BY <1>1, InsertIsFresh DEF Stored, Result
<1>2. CASE \E p \in Process : WriteReported(p)
  <2>1. PICK p \in Process : WriteReported(p)
    BY <1>2
  <2>2. PICK x \in payload[p] :
          status' = [status EXCEPT ![x[1]] = IF x[2] = "sent" THEN "delivered" ELSE x[2]]
    BY <2>1 DEF WriteReported
  <2>3. status[r] = "sent" /\ status'[r] = "delivered"
    BY <2>2 DEF FreshInv, PayloadFresh, IInv, TypeOK
  <2>4. \A q \in Process : pc[q] \notin Holding
    BY <2>1, SendsAlone DEF WriteReported, Syncing
  <2>5. 0 \notin Row
    BY OutboxAssumption DEF Row
  <2> QED BY <2>3, <2>4, <2>5 DEF FreshInv, Apart
<1>3. ASSUME NEW p \in Process, pc[p] = "raised",
             status' = status \/ status' = [status EXCEPT ![cur[p]] = "failed"]
      PROVE  /\ status[r] = "sent" /\ status'[r] = "failed"
             /\ cur[p] = r /\ pc[p] = "raised"
  <2>1. cur[p] = r /\ status'[r] = "failed"
    BY <1>3 DEF IInv, TypeOK
  <2> QED BY <1>3, <2>1 DEF FreshInv, Apart, Result
<1>4. CASE \E p \in Process : RecordRaised(p) \/ ExceptRaises(p)
  BY <1>3, <1>4 DEF RecordRaised, Record, ExceptRaises
<1>5. ASSUME NEW p \in Process, RecordSent(p) \/ RecordFailed(p) \/ RecordingRaises(p)
      PROVE  FALSE
  <2>1. cur[p] # r
    BY <1>5 DEF RecordSent, RecordFailed, RecordingRaises, SendInv, BatchPending, InFlight,
                Result
  <2> QED BY <1>5, <2>1 DEF RecordSent, RecordFailed, RecordingRaises, Record, IInv, TypeOK
<1>6. ASSUME NEW p \in Process, InsertItem(p) \/ EnqueueLocal(p) \/ SendNow(p) PROVE FALSE
  BY <1>1, <1>6 DEF InsertItem, EnqueueLocal, SendNow, IInv, TypeOK
<1>7. ASSUME NEW p \in Process, Sync(p) PROVE InsertItem(p) \/ WriteReported(p)
  BY <1>7 DEF Sync, FetchOutbox, EndFetch, SkipItem, NewItem, ReadUnreported, PostStatuses,
              PostFails, ReadReported, EndReport, tableVars
<1>8. ASSUME NEW p \in Process, Send(p) \/ Fail(p) \/ Start(p)
      PROVE  \/ EnqueueLocal(p) \/ SendNow(p)
             \/ RecordSent(p) \/ RecordFailed(p) \/ RecordRaised(p)
             \/ RecordingRaises(p) \/ ExceptRaises(p)
  BY <1>8 DEF Send, TakeBatch, Dispatch, Suspend, EndBatch, ProviderAccepts, AnswerLost,
              ProviderFails, Fail, StatementFails, Crash, Start, tableVars
<1>9. ~(\E e \in Item : Offer(e)) /\ ~UNCHANGED vars
  BY DEF Offer, vars, tableVars
<1> QED BY <1>2, <1>4, <1>5, <1>6, <1>7, <1>8, <1>9 DEF Next

\* In a process alone with its database a result is final once its row is let go:
\* afterwards only SENT turns into DELIVERED, by its report.  Before, a read that
\* raises behind the commit of SENT makes FAILED of it.
THEOREM ResultsAreFinal == ASSUME OneGateway PROVE Spec => ResultIsFinal
<1>1. IInv /\ SyncInv /\ SendInv /\ FreshInv /\ [Next]_vars =>
        [\A r \in Row :
           (status[r] \in {"sent", "failed", "delivered"} /\ status'[r] # status[r]) =>
             /\ status[r] = "sent"
             /\ \/ status'[r] = "delivered"
                   /\ \A p \in Process : cur[p] = r => pc[p] = "stamping"
                \/ status'[r] = "failed"
                   /\ \E p \in Process : cur[p] = r /\ pc[p] = "raised"]_status
  BY StepIsFinal DEF Result
<1> QED BY <1>1, GatewayInvariant, PTL DEF Spec, ResultIsFinal

-----------------------------------------------------------------------------
(* Such a gateway implements OutboxPromise.                                *)

\* What an unreported row of status s says of its item, whether the report got
\* through, was lost, or was answered but not noted down.
MayBeTold(s) ==
  {t \in {"pending", "sent", "failed"} :
     /\ t = "pending" => s # "delivered"
     /\ t = "sent" => s \in {"sent", "delivered"}
     /\ t = "failed" => s = "failed"}

Live(r) == r \in Stored /\ ~reported[r] /\ extId[r] \in Item

\* Table and Snippen agree row by row; what is about to be stored is asked for.
RowsAgree ==
  /\ \A r \in Row : Live(r) => remote[extId[r]] \in MayBeTold(status[r])
  /\ \A r \in Row : reported[r] => status[r] = "failed"
  /\ \A p \in Process : \A e \in items[p] : remote[e] = "pending"
  /\ \A p \in Process : incoming[p] \in Item => remote[incoming[p]] = "pending"
  /\ \A p \in Process : items[p] # {} => pc[p] \in {"enqueueing", "inserting"}
  /\ \A p \in Process : incoming[p] \in Item => pc[p] = "inserting"

\* A report speaks of rows that count, and a row is only stamped as delivered
\* after Snippen knows that its item was sent.
ReportsAgree ==
  \A p \in Process : \A x \in payload[p] :
    /\ extId[x[1]] \in Item
    /\ pc[p] = "posting" => ~reported[x[1]] /\ x[2] \in {"sent", "failed"}
    /\ pc[p] \in {"marking", "stamping"} /\ x[2] = "sent" => remote[extId[x[1]]] = "sent"

\* While the except branch has a row, nothing was said of it, whatever was
\* committed before.
RaisedAgree ==
  \A p \in Process :
    pc[p] = "raised" /\ Live(cur[p]) => remote[extId[cur[p]]] = "pending"

FaultsBounded == faults <= MaxFault

AgreeInv == RowsAgree /\ ReportsAgree /\ RaisedAgree /\ FaultsBounded

\* Initially there is nothing to agree about.
LEMMA InitAgreeInv == Init => AgreeInv
BY OutboxAssumption
   DEF Init, AgreeInv, RowsAgree, ReportsAgree, RaisedAgree, FaultsBounded, Live, Stored

\* A step that leaves table and Snippen alone keeps the agreement.
LEMMA QuietKeepsAgree ==
  ASSUME IInv, AgreeInv, UNCHANGED <<remote, status, extId, reported>>,
         faults' = faults \/ Fault,
         \A p \in Process : payload'[p] \subseteq payload[p],
         \A p \in Process : pc'[p] = "posting" => pc[p] = "posting" \/ payload'[p] = {},
         \A p \in Process : pc'[p] \in {"marking", "stamping"} => pc[p] \in {"marking", "stamping"},
         \A p \in Process : \A e \in items'[p] : remote[e] = "pending",
         \A p \in Process : incoming'[p] \in Item => remote[incoming'[p]] = "pending",
         \A p \in Process : items'[p] # {} => pc'[p] \in {"enqueueing", "inserting"},
         \A p \in Process : incoming'[p] \in Item => pc'[p] = "inserting",
         \A p \in Process : pc'[p] = "raised" => pc[p] = "raised" /\ cur'[p] = cur[p]
  PROVE  AgreeInv'
<1>1. RowsAgree'
  BY DEF AgreeInv, RowsAgree, Live, Stored
<1>2. ReportsAgree' /\ RaisedAgree'
  BY DEF AgreeInv, ReportsAgree, RaisedAgree, Live, Stored
<1>3. FaultsBounded'
  BY OutboxAssumption DEF AgreeInv, FaultsBounded, Fault, IInv, TypeOK
<1> QED BY <1>1, <1>2, <1>3 DEF AgreeInv

\* A new row stands for an item that Snippen waits for, or for none.
LEMMA InsertKeepsAgree ==
  ASSUME IInv, AgreeInv, NEW r \in Row, NEW e \in Item \cup {NoItem}, Insert(r, e),
         e \in Item => remote[e] = "pending",
         UNCHANGED <<remote, items, payload, faults>>,
         NEW p \in Process, pc[p] \in {"idle", "inserting"},
         NEW l \in {"idle", "awaiting", "enqueueing"}, pc' = [pc EXCEPT ![p] = l],
         items[p] # {} => l = "enqueueing",
         \A q \in Process : q # p => cur'[q] = cur[q],
         \/ incoming' = incoming /\ pc[p] = "idle"
         \/ incoming' = [incoming EXCEPT ![p] = NoItem]
  PROVE  AgreeInv'
<1>1. /\ r \notin Stored /\ Stored' = Stored \cup {r} /\ status'[r] = "pending"
      /\ \A q \in Row \ {r} : status'[q] = status[q] /\ extId'[q] = extId[q]
      /\ reported' = reported /\ extId'[r] = e
  <2>1. reported' = reported /\ extId'[r] = e
    BY DEF Insert, IInv, TypeOK
  <2> QED BY <2>1, InsertIsFresh
<1>2. ~reported[r]
  BY <1>1 DEF AgreeInv, RowsAgree, Stored
<1>3. \A q \in Row : Live(q)' => remote'[extId'[q]] \in MayBeTold(status'[q])
  <2>1. ASSUME NEW q \in Row, Live(q)', q # r
        PROVE  remote'[extId'[q]] \in MayBeTold(status'[q])
    <3>1. Live(q) /\ extId'[q] = extId[q] /\ status'[q] = status[q]
      BY <1>1, <2>1 DEF Live
    <3> QED BY <3>1 DEF AgreeInv, RowsAgree
  <2>2. ASSUME Live(r)' PROVE remote'[extId'[r]] \in MayBeTold(status'[r])
    BY <1>1, <2>2 DEF MayBeTold, Live
  <2> QED BY <2>1, <2>2
<1>4. \A q \in Row : reported'[q] => status'[q] = "failed"
  BY <1>1, <1>2 DEF AgreeInv, RowsAgree
<1>5. \A q \in Process : items'[q] # {} => pc'[q] \in {"enqueueing", "inserting"}
  BY DEF AgreeInv, RowsAgree, IInv, TypeOK
<1>6. \A q \in Process : incoming'[q] \in Item =>
        incoming'[q] = incoming[q] /\ pc'[q] = "inserting"
  <2>1. ASSUME NEW q \in Process, incoming'[q] \in Item, q = p
        PROVE  incoming'[q] = incoming[q] /\ pc'[q] = "inserting"
    BY <2>1, OutboxAssumption DEF AgreeInv, RowsAgree, IInv, TypeOK
  <2>2. ASSUME NEW q \in Process, incoming'[q] \in Item, q # p
        PROVE  incoming'[q] = incoming[q] /\ pc'[q] = "inserting"
    BY <2>2 DEF AgreeInv, RowsAgree, IInv, TypeOK
  <2> QED BY <2>1, <2>2
<1>7. RowsAgree'
  BY <1>3, <1>4, <1>5, <1>6 DEF AgreeInv, RowsAgree
<1>8. ReportsAgree'
  <2>1. \A q \in Process : \A x \in payload[q] : x[1] \in Row /\ x[1] # r
    BY <1>1 DEF IInv, TypeOK, RowsStored, Stored, Result
  <2>2. \A q \in Process : pc'[q] \in {"posting", "marking", "stamping"} => pc'[q] = pc[q]
    BY DEF IInv, TypeOK
  <2> QED BY <1>1, <2>1, <2>2 DEF AgreeInv, ReportsAgree
<1>9. RaisedAgree'
  <2>1. \A q \in Process : pc'[q] = "raised" =>
          pc[q] = "raised" /\ cur'[q] = cur[q] /\ cur[q] \in Stored
    BY DEF IInv, TypeOK, RowsStored, LocalsTruthful, Holding
  <2> QED BY <1>1, <2>1 DEF AgreeInv, RaisedAgree, Live, Stored
<1>10. FaultsBounded'
  BY DEF AgreeInv, FaultsBounded
<1> QED BY <1>7, <1>8, <1>9, <1>10 DEF AgreeInv

\* Snippen waits for the item of a row that is being sent.
LEMMA HeldIsAsked ==
  ASSUME IInv, SendInv, AgreeInv, NEW p \in Process,
         pc[p] \in {"succeeded", "errored", "raised"}
  PROVE  /\ cur[p] \in Row /\ status[cur[p]] # "none"
         /\ Live(cur[p]) => remote[extId[cur[p]]] = "pending"
<1>1. cur[p] \in Row /\ status[cur[p]] # "none"
  BY DEF IInv, TypeOK, RowsStored, LocalsTruthful, Holding, Stored
<1>2. CASE pc[p] = "raised"
  BY <1>1, <1>2 DEF AgreeInv, RaisedAgree
<1>3. CASE pc[p] # "raised"
  <2>1. status[cur[p]] = "pending"
    BY <1>3 DEF SendInv, BatchPending, InFlight
  <2> QED BY <1>1, <2>1 DEF AgreeInv, RowsAgree, MayBeTold
<1> QED BY <1>1, <1>2, <1>3

\* A result is recorded of a row whose item is still asked for, whether or not the
\* process learns of it.
LEMMA RecordKeepsAgree ==
  ASSUME OneGateway, IInv, SyncInv, SendInv, FreshInv, AgreeInv, NEW p \in Process,
         pc[p] \in {"succeeded", "errored", "raised"},
         NEW s \in {"sent", "failed"}, pc[p] = "raised" => s = "failed",
         NEW r \in Row, r = cur[p], status' = [status EXCEPT ![r] = s],
         NEW l \in {"dispatching", "raised", "idle"}, pc' = [pc EXCEPT ![p] = l],
         l = "raised" => cur' = cur,
         UNCHANGED <<remote, extId, reported>>, \A q \in Process : items'[q] \subseteq items[q],
         \A q \in Process : incoming'[q] \in Item => incoming'[q] = incoming[q],
         \A q \in Process : payload'[q] \subseteq payload[q],
         faults' = faults \/ Fault
  PROVE  AgreeInv'
<1>1. /\ status[r] # "none" /\ (Live(r) => remote[extId[r]] = "pending")
      /\ pc[p] # "raised" => status[r] = "pending"
  BY HeldIsAsked DEF SendInv, BatchPending, InFlight
<1>2. \A q \in Process : q # p => pc'[q] # "raised"
  BY SendsAlone DEF Holding, IInv, TypeOK
<1>3. \A q \in Row : Live(q)' => remote'[extId'[q]] \in MayBeTold(status'[q])
  <2>1. ASSUME NEW q \in Row, Live(q)', q # r
        PROVE  remote'[extId'[q]] \in MayBeTold(status'[q])
    BY <2>1 DEF AgreeInv, RowsAgree, Live, Stored, IInv, TypeOK
  <2>2. ASSUME Live(r)' PROVE remote'[extId'[r]] \in MayBeTold(status'[r])
    <3>1. remote[extId[r]] = "pending" /\ status'[r] = s
      BY <1>1, <2>2 DEF Live, Stored, IInv, TypeOK
    <3> QED BY <3>1 DEF MayBeTold
  <2> QED BY <2>1, <2>2
<1>4. \A q \in Row : reported'[q] => status'[q] = "failed"
  BY <1>1 DEF AgreeInv, RowsAgree, IInv, TypeOK
<1>5. \A q \in Process : q # p => pc'[q] = pc[q]
  BY DEF IInv, TypeOK
<1>6. items[p] = {} /\ incoming[p] \notin Item
  BY DEF AgreeInv, RowsAgree
<1>7. RowsAgree'
  BY <1>3, <1>4, <1>5, <1>6 DEF AgreeInv, RowsAgree, IInv, TypeOK
<1>8. ReportsAgree'
  BY SendsAlone DEF ReportsAgree, Holding
<1>9. RaisedAgree'
  BY <1>1, <1>2 DEF RaisedAgree, Live, Stored, IInv, TypeOK
<1>10. FaultsBounded'
  BY OutboxAssumption DEF AgreeInv, FaultsBounded, Fault, IInv, TypeOK
<1> QED BY <1>7, <1>8, <1>9, <1>10 DEF AgreeInv

\* Of the item of a live row, a report says what the table says of that row.
LEMMA ReportIsAboutRow ==
  ASSUME IInv, SyncInv, FreshInv, AgreeInv, NEW p \in Process, pc[p] = "posting",
         NEW r \in Row, Live(r), NEW x \in payload[p], extId[x[1]] = extId[r]
  PROVE  x[1] = r /\ (\/ x[2] = "sent" /\ status[r] \in {"sent", "delivered"}
                      \/ x[2] = "failed" /\ status[r] = "failed")
<1>1. x[1] \in Stored /\ ~reported[x[1]] /\ x[2] \in {"sent", "failed"}
  BY DEF AgreeInv, ReportsAgree, IInv, TypeOK, RowsStored, Result, Stored
<1>2. x[1] = r
  BY <1>1, OutboxAssumption DEF SyncInv, OneLiveRowPerItem, Live
<1> QED BY <1>1, <1>2 DEF FreshInv, PayloadFresh

\* What Snippen holds after a report agrees with the table.
LEMMA ToldAgrees ==
  ASSUME IInv, SyncInv, FreshInv, AgreeInv, NEW p \in Process, pc[p] = "posting",
         remote' \in Told(p), UNCHANGED <<status, extId, reported>>,
         NEW r \in Row, Live(r)
  PROVE  remote'[extId[r]] \in MayBeTold(status[r])
<1> DEFINE e == extId[r]
           news == {x[2] : x \in {y \in payload[p] : extId[y[1]] = e}}
<1>1. e \in Item
  BY DEF Live
<1>2. CASE news = {}
  <2>1. remote'[e] = remote[e]
    BY <1>1, <1>2 DEF Told
  <2> QED BY <2>1 DEF AgreeInv, RowsAgree
<1>3. CASE news # {}
  <2>1. remote'[e] \in news
    BY <1>1, <1>3 DEF Told
  <2>2. PICK x \in payload[p] : extId[x[1]] = e /\ remote'[e] = x[2]
    BY <2>1
  <2> QED BY <2>2, ReportIsAboutRow DEF MayBeTold
<1> QED BY <1>2, <1>3

\* A report that reached Snippen keeps the agreement, answered or not.
LEMMA TellKeepsAgree ==
  ASSUME OneGateway, IInv, SyncInv, SendInv, FreshInv, AgreeInv,
         NEW p \in Process, pc[p] = "posting",
         remote' \in Told(p), UNCHANGED <<status, extId, reported, items, incoming, faults>>,
         \/ pc' = [pc EXCEPT ![p] = "marking"] /\ payload' = payload
         \/ pc' = [pc EXCEPT ![p] = "idle"] /\ payload' = [payload EXCEPT ![p] = {}]
  PROVE  AgreeInv'
<1>1. \A q \in Process : q # p => pc[q] \notin Syncing /\ pc'[q] = pc[q]
  BY DEF OneGateway, SyncInv, Syncing, IInv, TypeOK
<1>2. \A q \in Process : items[q] = {} /\ incoming[q] \notin Item
  BY <1>1 DEF AgreeInv, RowsAgree, Syncing
<1>3. \A r \in Row : Live(r)' => remote'[extId'[r]] \in MayBeTold(status'[r])
  BY ToldAgrees DEF Live, Stored
<1>4. RowsAgree'
  BY <1>2, <1>3 DEF AgreeInv, RowsAgree
<1>5. ReportsAgree'
  <2>1. ASSUME NEW x \in payload[p], x[2] = "sent"
        PROVE  remote'[extId[x[1]]] = "sent"
    <3> DEFINE e == extId[x[1]]
               news == {y[2] : y \in {z \in payload[p] : extId[z[1]] = e}}
    <3>1. e \in Item /\ x[1] \in Row /\ Live(x[1])
      BY DEF AgreeInv, ReportsAgree, IInv, TypeOK, RowsStored, Result, Live, Stored
    <3>2. x[2] \in news
      OBVIOUS
    <3>3. remote'[e] \in news
      BY <3>1, <3>2 DEF Told
    <3>4. PICK y \in payload[p] : extId[y[1]] = e /\ remote'[e] = y[2]
      BY <3>3
    <3> QED BY <2>1, <3>1, <3>4, ReportIsAboutRow
  <2>2. \A q \in Process : q # p => pc'[q] \notin {"posting", "marking", "stamping"}
    BY <1>1 DEF Syncing
  <2>3. pc'[p] \in {"marking", "idle"} /\ \A q \in Process : payload'[q] \subseteq payload[q]
    BY DEF IInv, TypeOK
  <2> QED BY <2>1, <2>2, <2>3 DEF AgreeInv, ReportsAgree
<1>6. RaisedAgree'
  <2>1. \A q \in Process : pc[q] \notin Holding
    BY SendsAlone DEF Syncing
  <2> QED BY <2>1 DEF RaisedAgree, Holding, IInv, TypeOK
<1>7. FaultsBounded'
  BY DEF AgreeInv, FaultsBounded
<1> QED BY <1>4, <1>5, <1>6, <1>7 DEF AgreeInv

\* Noting the report down keeps the agreement.
LEMMA StampKeepsAgree ==
  ASSUME OneGateway, IInv, SyncInv, SendInv, FreshInv, AgreeInv, NEW p \in Process,
         WriteReported(p)
  PROVE  AgreeInv'
<1>1. PICK x \in payload[p] :
        /\ status' = [status EXCEPT ![x[1]] = IF x[2] = "sent" THEN "delivered" ELSE x[2]]
        /\ reported' = [reported EXCEPT ![x[1]] = @ \/ x[2] = "failed"]
        /\ payload' = [payload EXCEPT ![p] = @ \ {x}]
  BY DEF WriteReported
<1>2. /\ pc[p] = "stamping" /\ pc' = [pc EXCEPT ![p] = "marking"]
      /\ UNCHANGED <<remote, extId, items, incoming, faults>>
  BY DEF WriteReported, Goto, remoteVars
<1>3. PICK r \in Row : r = x[1] /\ status[r] \in Result
  BY DEF IInv, TypeOK, RowsStored
<1>4. /\ x[2] = "sent" => remote[extId[r]] = "sent"
      /\ status[r] = x[2] \/ (x[2] = "sent" /\ status[r] = "delivered")
      /\ x[2] \in Result
  BY <1>2, <1>3 DEF AgreeInv, ReportsAgree, FreshInv, PayloadFresh, IInv, TypeOK, Result
<1>5. /\ status'[r] = (IF x[2] = "sent" THEN "delivered" ELSE x[2])
      /\ reported'[r] = (reported[r] \/ x[2] = "failed")
      /\ \A q \in Row \ {r} : status'[q] = status[q] /\ reported'[q] = reported[q]
  BY <1>1, <1>3 DEF IInv, TypeOK
<1>6. \A q \in Row : Live(q)' => remote'[extId'[q]] \in MayBeTold(status'[q])
  <2>1. ASSUME NEW q \in Row, Live(q)', q # r
        PROVE  remote'[extId'[q]] \in MayBeTold(status'[q])
    BY <1>2, <1>5, <2>1 DEF AgreeInv, RowsAgree, Live, Stored
  <2>2. ASSUME Live(r)' PROVE remote'[extId'[r]] \in MayBeTold(status'[r])
    <3>1. ~reported[r] /\ x[2] # "failed" /\ Live(r)
      BY <1>2, <1>3, <1>5, <2>2 DEF Live, Stored, Result
    <3>2. remote[extId[r]] \in MayBeTold(status[r])
      BY <3>1 DEF AgreeInv, RowsAgree
    <3>3. CASE x[2] = "sent"
      BY <1>2, <1>4, <1>5, <3>3 DEF MayBeTold
    <3>4. CASE x[2] = "delivered"
      BY <1>2, <1>4, <1>5, <3>2, <3>4
    <3> QED BY <1>4, <3>1, <3>3, <3>4 DEF Result
  <2> QED BY <2>1, <2>2
<1>7. \A q \in Row : reported'[q] => status'[q] = "failed"
  <2>1. ASSUME NEW q \in Row, reported'[q], q # r PROVE status'[q] = "failed"
    BY <1>5, <2>1 DEF AgreeInv, RowsAgree
  <2>2. ASSUME reported'[r] PROVE status'[r] = "failed"
    <3>1. CASE x[2] = "failed"
      BY <1>5, <3>1
    <3>2. CASE reported[r]
      <4>1. status[r] = "failed"
        BY <3>2 DEF AgreeInv, RowsAgree
      <4> QED BY <1>4, <1>5, <4>1
    <3> QED BY <1>5, <2>2, <3>1, <3>2
  <2> QED BY <2>1, <2>2
<1>8. RowsAgree'
  BY <1>2, <1>6, <1>7 DEF AgreeInv, RowsAgree, IInv, TypeOK
<1>9. ReportsAgree'
  <2>1. \A q \in Process : q # p => pc[q] \notin Syncing /\ pc'[q] = pc[q]
    BY <1>2 DEF OneGateway, SyncInv, Syncing, IInv, TypeOK
  <2>2. pc'[p] = "marking" /\ \A q \in Process : payload'[q] \subseteq payload[q]
    BY <1>1, <1>2 DEF IInv, TypeOK
  <2> QED BY <1>2, <2>1, <2>2 DEF AgreeInv, ReportsAgree, Syncing
<1>10. RaisedAgree'
  <2>1. \A q \in Process : pc[q] \notin Holding
    BY <1>2, SendsAlone DEF Syncing
  <2> QED BY <1>2, <2>1 DEF RaisedAgree, Holding, IInv, TypeOK
<1>11. FaultsBounded'
  BY <1>2 DEF AgreeInv, FaultsBounded
<1> QED BY <1>8, <1>9, <1>10, <1>11 DEF AgreeInv

\* Synchronising keeps the agreement.
LEMMA SyncKeepsAgree ==
  ASSUME OneGateway, IInv, SyncInv, SendInv, FreshInv, AgreeInv, NEW p \in Process, Sync(p)
  PROVE  AgreeInv'
<1> USE DEF tableVars, remoteVars, Goto
<1>0. ~(\E q \in Process : pc[q] = "raised")
  <2>1. p \in Syncer
    BY DEF Sync, FetchOutbox, SkipItem, NewItem, InsertItem, EndFetch, ReadUnreported,
           PostStatuses, PostFails, ReadReported, WriteReported, EndReport, SyncInv, Syncing
  <2>2. \A q \in Process : pc[q] = "raised" => q = p
    BY <2>1 DEF OneGateway, SendInv, BatchPending, Holding
  <2>3. pc[p] # "raised"
    BY DEF Sync, FetchOutbox, SkipItem, NewItem, InsertItem, EndFetch, ReadUnreported,
           PostStatuses, PostFails, ReadReported, WriteReported, EndReport
  <2> QED BY <2>2, <2>3
<1>1. CASE FetchOutbox(p) \/ EndFetch(p) \/ EndReport(p)
           \/ \E e \in Item : SkipItem(p, e) \/ NewItem(p, e)
  <2>1. /\ UNCHANGED <<remote, status, extId, reported, payload, faults>>
        /\ \A q \in Process : pc'[q] \in {"posting", "marking", "stamping"} => pc'[q] = pc[q]
    BY <1>1 DEF FetchOutbox, EndFetch, EndReport, SkipItem, NewItem, IInv, TypeOK
  <2>2. /\ \A q \in Process : \A e \in items'[q] : remote[e] = "pending"
        /\ \A q \in Process : items'[q] # {} => pc'[q] \in {"enqueueing", "inserting"}
    BY <1>1 DEF FetchOutbox, EndFetch, EndReport, SkipItem, NewItem, IInv, TypeOK,
                AgreeInv, RowsAgree
  <2>3. /\ \A q \in Process : incoming'[q] \in Item => remote[incoming'[q]] = "pending"
        /\ \A q \in Process : incoming'[q] \in Item => pc'[q] = "inserting"
    BY <1>1 DEF FetchOutbox, EndFetch, EndReport, SkipItem, NewItem, IInv, TypeOK,
                AgreeInv, RowsAgree
  <2>4. \A q \in Process : pc'[q] # "raised"
    BY <1>0, <1>1 DEF FetchOutbox, EndFetch, EndReport, SkipItem, NewItem, IInv, TypeOK
  <2> QED BY <2>1, <2>2, <2>3, <2>4, QuietKeepsAgree
<1>2. CASE InsertItem(p)
  <2>1. PICK r \in Row : Insert(r, incoming[p])
    BY <1>2 DEF InsertItem
  <2>2. /\ incoming[p] \in Item \cup {NoItem}
        /\ incoming[p] \in Item => remote[incoming[p]] = "pending"
    BY DEF IInv, TypeOK, AgreeInv, RowsAgree
  <2>3. /\ UNCHANGED <<remote, items, payload, faults>> /\ pc[p] = "inserting"
        /\ pc' = [pc EXCEPT ![p] = "enqueueing"]
        /\ incoming' = [incoming EXCEPT ![p] = NoItem] /\ cur' = cur
    BY <1>2 DEF InsertItem
  <2> QED BY <2>1, <2>2, <2>3, InsertKeepsAgree
<1>3. CASE ReadUnreported(p)
  <2> DEFINE batch == Oldest(ReportLimit, UnreportedOutbox)
  <2>1. \A r \in batch : r \in Row /\ status[r] \in {"sent", "failed"}
                         /\ extId[r] \in Item /\ ~reported[r]
    BY DEF Oldest, UnreportedOutbox, IInv, TypeOK
  <2> HIDE DEF batch
  <2>2. payload' = [payload EXCEPT ![p] = {<<r, status[r]>> : r \in batch}]
    BY <1>3 DEF ReadUnreported, batch
  <2>3. /\ UNCHANGED <<remote, status, extId, reported, items, incoming, faults>>
        /\ pc'[p] \in {"idle", "posting"} /\ \A q \in Process : q # p => pc'[q] = pc[q]
        /\ pc[p] = "reporting"
    BY <1>3 DEF ReadUnreported, IInv, TypeOK
  <2>4. RowsAgree'
    BY <2>3 DEF AgreeInv, RowsAgree, Live, Stored
  <2>5. ReportsAgree'
    <3>1. \A x \in payload'[p] : extId[x[1]] \in Item /\ ~reported[x[1]]
                                 /\ x[2] \in {"sent", "failed"}
      BY <2>1, <2>2 DEF IInv, TypeOK
    <3>2. \A q \in Process : q # p => payload'[q] = payload[q]
      BY <2>2 DEF IInv, TypeOK
    <3> QED BY <2>3, <3>1, <3>2 DEF AgreeInv, ReportsAgree
  <2> QED BY <1>0, <2>3, <2>4, <2>5 DEF AgreeInv, FaultsBounded, RaisedAgree
<1>4. CASE PostStatuses(p)
  BY <1>4, TellKeepsAgree DEF PostStatuses
<1>5. CASE PostFails(p)
  <2>1. CASE remote' \in Told(p)
    BY <1>5, <2>1, TellKeepsAgree DEF PostFails
  <2>2. CASE UNCHANGED remote
    <3>1. /\ UNCHANGED <<remote, status, extId, reported, items, incoming, faults>>
          /\ \A q \in Process : payload'[q] \subseteq payload[q]
          /\ pc[p] = "posting" /\ pc' = [pc EXCEPT ![p] = "idle"]
      BY <1>5, <2>2 DEF PostFails, IInv, TypeOK
    <3>2. items[p] = {} /\ incoming[p] \notin Item
      BY <3>1 DEF AgreeInv, RowsAgree
    <3>3. /\ \A q \in Process : items[q] # {} => pc'[q] \in {"enqueueing", "inserting"}
          /\ \A q \in Process : incoming[q] \in Item => pc'[q] = "inserting"
          /\ \A q \in Process : pc'[q] \in {"posting", "marking", "stamping"} => pc'[q] = pc[q]
          /\ \A q \in Process : pc'[q] # "raised"
      BY <1>0, <3>1, <3>2 DEF AgreeInv, RowsAgree, IInv, TypeOK
    <3> QED BY <3>1, <3>3, QuietKeepsAgree DEF AgreeInv, RowsAgree
  <2> QED BY <1>5, <2>1, <2>2 DEF PostFails
<1>6. CASE ReadReported(p)
  <2>1. PICK x \in payload[p] :
          payload' = [payload EXCEPT ![p] = (@ \ {x}) \cup {<<x[1], status[x[1]]>>}]
    BY <1>6 DEF ReadReported
  <2>2. /\ UNCHANGED <<remote, status, extId, reported, items, incoming, faults>>
        /\ pc[p] = "marking" /\ pc' = [pc EXCEPT ![p] = "stamping"]
    BY <1>6 DEF ReadReported
  <2>3. RowsAgree'
    BY <2>2 DEF AgreeInv, RowsAgree, Live, Stored, IInv, TypeOK
  <2>4. ReportsAgree'
    <3>1. extId[x[1]] \in Item /\ (status[x[1]] = "sent" => remote[extId[x[1]]] = "sent")
      BY <2>2 DEF AgreeInv, ReportsAgree, FreshInv, PayloadFresh
    <3>2. \A y \in payload'[p] : extId[y[1]] \in Item /\
            (y[2] = "sent" => remote[extId[y[1]]] = "sent")
      BY <2>1, <2>2, <3>1 DEF AgreeInv, ReportsAgree, IInv, TypeOK
    <3>3. \A q \in Process : q # p => payload'[q] = payload[q] /\ pc'[q] = pc[q]
      BY <2>1, <2>2 DEF IInv, TypeOK
    <3>4. pc'[p] = "stamping"
      BY <2>2 DEF IInv, TypeOK
    <3> QED BY <2>2, <3>2, <3>3, <3>4 DEF AgreeInv, ReportsAgree
  <2>5. RaisedAgree'
    BY <1>0, <2>2 DEF RaisedAgree, IInv, TypeOK
  <2> QED BY <2>2, <2>3, <2>4, <2>5 DEF AgreeInv, FaultsBounded
<1>7. CASE WriteReported(p)
  BY <1>7, StampKeepsAgree
<1> QED BY <1>1, <1>2, <1>3, <1>4, <1>5, <1>6, <1>7 DEF Sync

\* A process that dispatches, fails or starts disturbs no report.
LEMMA SendKeepsAgree ==
  ASSUME OneGateway, IInv, SyncInv, SendInv, FreshInv, AgreeInv,
         NEW p \in Process, Send(p) \/ Fail(p) \/ Start(p)
  PROVE  AgreeInv'
<1> USE DEF tableVars, remoteVars, Goto
<1>1. CASE EnqueueLocal(p) \/ SendNow(p)
  <2>1. PICK r \in Row : Insert(r, NoItem)
    BY <1>1 DEF EnqueueLocal, SendNow
  <2>2. /\ UNCHANGED <<remote, items, incoming, payload, faults>> /\ pc[p] = "idle"
        /\ \E l \in {"idle", "awaiting"} : pc' = [pc EXCEPT ![p] = l]
        /\ \A q \in Process : q # p => cur'[q] = cur[q]
    BY <1>1 DEF EnqueueLocal, SendNow, processVars, IInv, TypeOK
  <2>3. items[p] = {}
    BY <2>2 DEF AgreeInv, RowsAgree
  <2> QED BY <2>1, <2>2, <2>3, InsertKeepsAgree, OutboxAssumption
<1>2. CASE RecordSent(p) \/ RecordFailed(p) \/ RecordRaised(p)
  <2>1. pc[p] \in {"succeeded", "errored", "raised"}
    BY <1>2 DEF RecordSent, RecordFailed, RecordRaised
  <2>2. PICK r \in Row : r = cur[p]
    BY <2>1, HeldIsAsked
  <2>3. PICK s \in {"sent", "failed"} :
          (pc[p] = "raised" => s = "failed") /\ status' = [status EXCEPT ![r] = s]
    BY <1>2, <2>2 DEF RecordSent, RecordFailed, RecordRaised, Record
  <2>4. /\ pc' = [pc EXCEPT ![p] = "dispatching"] /\ faults' = faults
        /\ UNCHANGED <<remote, extId, reported, items, incoming, payload>>
    BY <1>2 DEF RecordSent, RecordFailed, RecordRaised, Record
  <2> QED BY <2>1, <2>2, <2>3, <2>4, RecordKeepsAgree
<1>5. CASE (RecordingRaises(p) \/ ExceptRaises(p)) /\ status' # status
  <2>1. pc[p] \in {"succeeded", "errored", "raised"}
    BY <1>5 DEF RecordingRaises, ExceptRaises
  <2>2. PICK r \in Row : r = cur[p]
    BY <2>1, HeldIsAsked
  <2>3. PICK s \in {"sent", "failed"} :
          (pc[p] = "raised" => s = "failed") /\ status' = [status EXCEPT ![r] = s]
    BY <1>5, <2>2 DEF RecordingRaises, ExceptRaises
  <2>4. PICK l \in {"idle", "raised"} :
          pc' = [pc EXCEPT ![p] = l] /\ (l = "raised" => cur' = cur)
    BY <1>5 DEF RecordingRaises, ExceptRaises
  <2>5. /\ UNCHANGED <<remote, extId, reported>> /\ Fault
        /\ \A q \in Process : items'[q] \subseteq items[q] /\ payload'[q] \subseteq payload[q]
        /\ \A q \in Process : incoming'[q] \in Item => incoming'[q] = incoming[q]
    BY <1>5, OutboxAssumption DEF RecordingRaises, ExceptRaises, Abandon, IInv, TypeOK
  <2> QED BY <2>1, <2>2, <2>3, <2>4, <2>5, RecordKeepsAgree
<1>6. CASE RecordingRaises(p) /\ status' = status
  <2>1. /\ UNCHANGED <<remote, extId, reported, items, incoming, payload, cur>> /\ Fault
        /\ pc[p] \in {"succeeded", "errored"} /\ pc' = [pc EXCEPT ![p] = "raised"]
    BY <1>6 DEF RecordingRaises
  <2>2. RowsAgree'
    BY <1>6, <2>1 DEF AgreeInv, RowsAgree, Live, Stored, IInv, TypeOK
  <2>3. ReportsAgree'
    BY <2>1 DEF AgreeInv, ReportsAgree, IInv, TypeOK
  <2>4. RaisedAgree'
    BY <1>6, <2>1, HeldIsAsked DEF AgreeInv, RaisedAgree, Live, Stored, IInv, TypeOK
  <2>5. FaultsBounded'
    BY <2>1, OutboxAssumption DEF AgreeInv, FaultsBounded, Fault, IInv, TypeOK
  <2> QED BY <2>2, <2>3, <2>4, <2>5 DEF AgreeInv
<1>3. CASE TakeBatch(p) \/ Dispatch(p) \/ Suspend(p) \/ EndBatch(p) \/ ProviderAccepts(p)
           \/ AnswerLost(p) \/ ProviderFails(p) \/ Start(p)
  <2>1. /\ UNCHANGED <<remote, status, extId, reported, items, incoming, payload, faults>>
        /\ pc[p] \in {"idle", "dispatching", "awaiting", "off"}
        /\ \E l \in {"idle", "dispatching", "awaiting", "succeeded", "errored"} :
             pc' = [pc EXCEPT ![p] = l]
    BY <1>3 DEF TakeBatch, Dispatch, Suspend, EndBatch, ProviderAccepts, AnswerLost,
                ProviderFails, Start
  <2>2. /\ \A q \in Process : items[q] # {} => pc'[q] \in {"enqueueing", "inserting"}
        /\ \A q \in Process : incoming[q] \in Item => pc'[q] = "inserting"
        /\ \A q \in Process : pc'[q] \in {"posting", "marking", "stamping"} => pc'[q] = pc[q]
    BY <2>1 DEF AgreeInv, RowsAgree, IInv, TypeOK
  <2>3. \A q \in Process : pc'[q] = "raised" => pc[q] = "raised" /\ cur'[q] = cur[q]
    BY <1>3, <2>1 DEF TakeBatch, Dispatch, Suspend, EndBatch, ProviderAccepts, AnswerLost,
                      ProviderFails, Start, IInv, TypeOK
  <2> QED BY <2>1, <2>2, <2>3, QuietKeepsAgree DEF AgreeInv, RowsAgree
<1>4. CASE StatementFails(p) \/ Crash(p) \/ (ExceptRaises(p) /\ status' = status)
  <2>1. /\ UNCHANGED <<remote, status, extId, reported>> /\ Fault
        /\ items' = [items EXCEPT ![p] = {}] /\ incoming' = [incoming EXCEPT ![p] = NoItem]
        /\ payload' = [payload EXCEPT ![p] = {}]
        /\ cur' = [cur EXCEPT ![p] = 0]
        /\ \E l \in {"idle", "off"} : pc' = [pc EXCEPT ![p] = l]
    BY <1>4 DEF StatementFails, Crash, ExceptRaises, Abandon
  <2>2. /\ \A q \in Process : payload'[q] \subseteq payload[q] /\ items'[q] \subseteq items[q]
        /\ \A q \in Process : incoming'[q] \in Item => incoming'[q] = incoming[q] /\ q # p
        /\ \A q \in Process : items'[q] # {} => q # p
        /\ \A q \in Process : q # p => pc'[q] = pc[q] /\ cur'[q] = cur[q]
        /\ pc'[p] \in {"idle", "off"}
    BY <2>1, OutboxAssumption DEF IInv, TypeOK
  <2>3. /\ \A q \in Process : items'[q] # {} => pc'[q] \in {"enqueueing", "inserting"}
        /\ \A q \in Process : incoming'[q] \in Item => pc'[q] = "inserting"
        /\ \A q \in Process : pc'[q] \in {"posting", "marking", "stamping"} => pc'[q] = pc[q]
        /\ \A q \in Process : pc'[q] = "raised" => pc[q] = "raised" /\ cur'[q] = cur[q]
    BY <2>2 DEF AgreeInv, RowsAgree
  <2> QED BY <2>1, <2>2, <2>3, QuietKeepsAgree DEF AgreeInv, RowsAgree
<1> QED BY <1>1, <1>2, <1>3, <1>4, <1>5, <1>6 DEF Send, Fail

\* Snippen asks again only for what it was told has failed.
LEMMA OfferKeepsAgree ==
  ASSUME IInv, AgreeInv, NEW e \in Item, Offer(e) PROVE AgreeInv'
<1>1. /\ remote[e] \in {"absent", "failed"} /\ remote' = [remote EXCEPT ![e] = "pending"]
      /\ UNCHANGED <<status, extId, reported, items, incoming, payload, pc, faults>>
  BY DEF Offer, tableVars, processVars
<1>2. \A r \in Row : Live(r) => remote'[extId[r]] \in MayBeTold(status[r])
  <2>1. ASSUME NEW r \in Row, Live(r), extId[r] = e
        PROVE  remote'[extId[r]] \in MayBeTold(status[r])
    BY <1>1, <2>1 DEF AgreeInv, RowsAgree, MayBeTold, IInv, TypeOK
  <2>2. ASSUME NEW r \in Row, Live(r), extId[r] # e
        PROVE  remote'[extId[r]] \in MayBeTold(status[r])
    BY <1>1, <2>2 DEF AgreeInv, RowsAgree, IInv, TypeOK
  <2> QED BY <2>1, <2>2
<1>3. RowsAgree'
  BY <1>1, <1>2 DEF AgreeInv, RowsAgree, Live, Stored, IInv, TypeOK
<1>4. ReportsAgree'
  BY <1>1 DEF AgreeInv, ReportsAgree, IInv, TypeOK
<1>5. RaisedAgree'
  <2>1. cur' = cur
    BY DEF Offer, processVars
  <2> QED BY <1>1, <2>1 DEF AgreeInv, RaisedAgree, Live, Stored, IInv, TypeOK
<1> QED BY <1>1, <1>3, <1>4, <1>5 DEF AgreeInv, FaultsBounded

\* Every step keeps table and Snippen in agreement.
LEMMA StepAgreeInv ==
  ASSUME OneGateway
  PROVE  IInv /\ SyncInv /\ SendInv /\ FreshInv /\ AgreeInv /\ [Next]_vars => AgreeInv'
<1> SUFFICES ASSUME IInv, SyncInv, SendInv, FreshInv, AgreeInv, [Next]_vars PROVE AgreeInv'
  OBVIOUS
<1>1. ASSUME UNCHANGED vars PROVE AgreeInv'
  BY <1>1 DEF vars, remoteVars, tableVars, processVars, AgreeInv, RowsAgree, ReportsAgree,
              RaisedAgree, FaultsBounded, Live, Stored
<1> QED BY <1>1, SyncKeepsAgree, SendKeepsAgree, OfferKeepsAgree DEF Next

-----------------------------------------------------------------------------
(* The refinement.                                                         *)

Taken == Row \X (1..(1 + MaxFault))
SentOf(e) == {x \in Taken : extId[x[1]] = e /\ x[2] <= accepted[x[1]]}

\* A step that the promise does not see.
LEMMA PromiseStutters ==
  ASSUME remote' = remote, \A e \in Item : SentOf(e)' = SentOf(e)
  PROVE  [Promise!Next]_(Promise!vars)
BY DEF Promise!vars, SentOf, Taken

\* A new row has not been transmitted, so it adds nothing to what was sent.
LEMMA InsertIsQuiet ==
  ASSUME IInv, NEW r \in Row, NEW e \in Item \cup {NoItem}, Insert(r, e),
         accepted' = accepted
  PROVE  \A i \in Item : SentOf(i)' = SentOf(i)
<1>1. accepted[r] = 0 /\ \A q \in Row \ {r} : extId'[q] = extId[q]
  BY InsertIsFresh
<1>2. ASSUME NEW x \in Taken, x[1] = r PROVE ~(x[2] <= accepted[r])
  BY <1>1, OutboxAssumption DEF Taken
<1>3. \A x \in Taken : x[1] \in Row
  BY DEF Taken
<1> QED BY <1>1, <1>2, <1>3 DEF SentOf, Taken

\* A transmission is of an item Snippen waits for, or of a message of our own.
LEMMA AcceptIsPromised ==
  ASSUME IInv, SendInv, AgreeInv, NEW p \in Process, pc[p] = "awaiting",
         accepted' = [accepted EXCEPT ![cur[p]] = @ + 1], RepeatsNeedFaults',
         UNCHANGED <<remote, status, extId, faults>>
  PROVE  [Promise!Next]_(Promise!vars)
<1>1. PICK r \in Row : r = cur[p] /\ status[r] = "pending"
  BY DEF SendInv, BatchPending, InFlight, Holding, IInv, TypeOK, LocalsTruthful
<1>2. PICK n \in Nat : n = accepted[r] + 1
  BY DEF IInv, TypeOK
<1>3. accepted'[r] = n /\ accepted[r] \in Nat /\ \A q \in Row \ {r} : accepted'[q] = accepted[q]
  BY <1>1, <1>2 DEF IInv, TypeOK
<1>4. n \in 1..(1 + MaxFault) /\ <<r, n>> \in Taken
  BY <1>2, <1>3, OutboxAssumption
     DEF RepeatsNeedFaults, AgreeInv, FaultsBounded, Taken, IInv, TypeOK
<1>5. \A x \in Taken : x[1] \in Row /\ x[2] \in Nat /\ x = <<x[1], x[2]>>
  BY DEF Taken
<1>6. \A e \in Item : e # extId[r] => SentOf(e)' = SentOf(e)
  BY <1>3, <1>5 DEF SentOf, Taken
<1>7. CASE extId[r] \notin Item
  BY <1>6, <1>7, PromiseStutters
<1>8. CASE extId[r] \in Item
  <2>1. PICK i \in Item : i = extId[r]
    BY <1>8
  <2>2. remote[i] = "pending"
    BY <1>1, <2>1 DEF AgreeInv, RowsAgree, Live, Stored, MayBeTold
  <2>3. SentOf(i)' = SentOf(i) \cup {<<r, n>>}
    <3>1. ASSUME NEW x \in Taken
          PROVE  (extId[x[1]] = i /\ x[2] <= accepted'[x[1]])
                   <=> (extId[x[1]] = i /\ x[2] <= accepted[x[1]]) \/ x = <<r, n>>
      <4>1. CASE x[1] = r
        BY <1>2, <1>3, <1>5, <2>1, <4>1
      <4>2. CASE x[1] # r
        BY <1>3, <1>5, <4>2
      <4> QED BY <4>1, <4>2
    <3>2. SentOf(i)' = {x \in Taken : extId[x[1]] = i /\ x[2] <= accepted'[x[1]]}
      BY <2>1 DEF SentOf, Taken
    <3> QED BY <1>4, <3>1, <3>2 DEF SentOf
  <2>4. <<r, n>> \notin SentOf(i)
    BY <1>2, <1>3 DEF SentOf
  <2>5. [e \in Item |-> SentOf(e)]' = [[e \in Item |-> SentOf(e)] EXCEPT ![i] = @ \cup {<<r, n>>}]
    BY <1>6, <2>1, <2>3
  <2>6. <<r, n>> \in [e \in Item |-> SentOf(e)]'[i] \ [e \in Item |-> SentOf(e)][i]
    BY <2>3, <2>4
  <2>7. Promise!Transmit(i)
    BY <1>4, <2>2, <2>5, <2>6 DEF Promise!Transmit, SentOf, Taken
  <2> QED BY <2>7 DEF Promise!Next
<1> QED BY <1>7, <1>8

\* A report settles items that Snippen waits for, and says the truth of them.
LEMMA TellIsPromised ==
  ASSUME IInv, SyncInv, FreshInv, AgreeInv, NEW p \in Process, pc[p] = "posting",
         remote' \in Told(p), UNCHANGED <<extId, accepted>>
  PROVE  [Promise!Next]_(Promise!vars)
<1>1. \A e \in Item : SentOf(e)' = SentOf(e)
  BY DEF SentOf, Taken
<1>2. ASSUME NEW e \in Item, remote'[e] # remote[e]
      PROVE  /\ remote[e] = "pending"
             /\ \/ remote'[e] = "sent" /\ SentOf(e) # {}
                \/ remote'[e] = "failed"
  <2> DEFINE news == {y[2] : y \in {z \in payload[p] : extId[z[1]] = e}}
  <2>1. remote'[e] \in news
    BY <1>2 DEF Told
  <2>2. PICK x \in payload[p] : extId[x[1]] = e /\ remote'[e] = x[2]
    BY <2>1
  <2>3. x[1] \in Row /\ Live(x[1])
    BY DEF AgreeInv, ReportsAgree, IInv, TypeOK, RowsStored, Result, Live, Stored
  <2>4. \/ x[2] = "sent" /\ status[x[1]] \in {"sent", "delivered"}
        \/ x[2] = "failed" /\ status[x[1]] = "failed"
    BY <2>3, ReportIsAboutRow
  <2>5. remote[e] = "pending"
    BY <1>2, <2>2, <2>3, <2>4 DEF AgreeInv, RowsAgree, MayBeTold
  <2>6. ASSUME x[2] = "sent" PROVE SentOf(e) # {}
    <3>1. accepted[x[1]] > 0 /\ accepted[x[1]] \in Nat
      BY <2>3, <2>6 DEF IInv, LocalsTruthful, TypeOK
    <3>2. <<x[1], 1>> \in Taken
      BY <2>3, OutboxAssumption DEF Taken
    <3>3. <<x[1], 1>> \in SentOf(e)
      BY <2>2, <3>1, <3>2 DEF SentOf
    <3> QED BY <3>3
  <2> QED BY <2>2, <2>4, <2>5, <2>6
<1>3. remote' \in [Item -> {"absent", "pending", "sent", "failed"}]
  BY DEF Told
<1>4. Promise!Report
  BY <1>1, <1>2, <1>3 DEF Promise!Report, SentOf, Taken
<1> QED BY <1>4 DEF Promise!Next

\* Every step of a gateway is a step of the promise.
LEMMA NextIsPromised ==
  IInv /\ SyncInv /\ SendInv /\ FreshInv /\ AgreeInv /\ SendInv' /\ [Next]_vars
    => [Promise!Next]_(Promise!vars)
<1> SUFFICES ASSUME IInv, SyncInv, SendInv, FreshInv, AgreeInv, SendInv', [Next]_vars
             PROVE  [Promise!Next]_(Promise!vars)
  OBVIOUS
<1> USE DEF tableVars, remoteVars, processVars
<1>1. ASSUME UNCHANGED <<remote, extId, accepted>> PROVE [Promise!Next]_(Promise!vars)
  BY <1>1, PromiseStutters DEF SentOf, Taken
<1>2. ASSUME NEW p \in Process, Sync(p) PROVE [Promise!Next]_(Promise!vars)
  <2>1. CASE InsertItem(p)
    <3>1. PICK r \in Row : Insert(r, incoming[p])
      BY <2>1 DEF InsertItem
    <3> QED BY <2>1, <3>1, InsertIsQuiet, PromiseStutters DEF InsertItem, IInv, TypeOK
  <2>2. CASE PostStatuses(p) \/ (PostFails(p) /\ remote' \in Told(p))
    BY <2>2, TellIsPromised DEF PostStatuses, PostFails
  <2>3. CASE PostFails(p) /\ remote' \notin Told(p)
    BY <1>1, <2>3 DEF PostFails
  <2>4. CASE FetchOutbox(p) \/ EndFetch(p) \/ EndReport(p) \/ ReadUnreported(p)
             \/ ReadReported(p) \/ WriteReported(p)
             \/ \E e \in Item : SkipItem(p, e) \/ NewItem(p, e)
    BY <1>1, <2>4 DEF FetchOutbox, EndFetch, EndReport, ReadUnreported, ReadReported,
                      WriteReported, SkipItem, NewItem
  <2> QED BY <1>2, <2>1, <2>2, <2>3, <2>4 DEF Sync
<1>3. ASSUME NEW p \in Process, Send(p) PROVE [Promise!Next]_(Promise!vars)
  <2>1. CASE EnqueueLocal(p) \/ SendNow(p)
    <3>1. PICK r \in Row : Insert(r, NoItem)
      BY <2>1 DEF EnqueueLocal, SendNow
    <3> QED BY <2>1, <3>1, InsertIsQuiet, PromiseStutters DEF EnqueueLocal, SendNow
  <2>2. CASE ProviderAccepts(p) \/ AnswerLost(p)
    <3>1. RepeatsNeedFaults'
      BY DEF SendInv, RepeatsCounted, RepeatsNeedFaults
    <3> QED BY <2>2, <3>1, AcceptIsPromised DEF ProviderAccepts, AnswerLost
  <2>3. CASE TakeBatch(p) \/ Dispatch(p) \/ Suspend(p) \/ EndBatch(p)
             \/ ProviderFails(p) \/ RecordSent(p) \/ RecordFailed(p) \/ RecordRaised(p)
    BY <1>1, <2>3 DEF TakeBatch, Dispatch, Suspend, EndBatch, ProviderFails, RecordSent,
                      RecordFailed, RecordRaised, Record
  <2> QED BY <1>3, <2>1, <2>2, <2>3 DEF Send
<1>4. ASSUME NEW p \in Process, Fail(p) \/ Start(p) PROVE [Promise!Next]_(Promise!vars)
  BY <1>1, <1>4 DEF Fail, RecordingRaises, ExceptRaises, StatementFails, Crash, Start
<1>5. ASSUME NEW e \in Item, Offer(e) PROVE [Promise!Next]_(Promise!vars)
  <2>1. \A i \in Item : SentOf(i)' = SentOf(i)
    BY <1>5 DEF Offer, SentOf, Taken
  <2>2. Promise!Offer(e)
    BY <1>5, <2>1 DEF Offer, Promise!Offer, SentOf, Taken
  <2> QED BY <2>2 DEF Promise!Next
<1>6. CASE UNCHANGED vars
  BY <1>1, <1>6 DEF vars
<1> QED BY <1>2, <1>3, <1>4, <1>5, <1>6 DEF Next

\* With one process that both synchronises and sends, what Snippen sees of its
\* items is what OutboxPromise allows.
THEOREM PromiseIsKept == ASSUME OneGateway PROVE Spec => KeepsPromise
<1>1. Init => Promise!Init
  <2>1. ASSUME Init PROVE \A e \in Item : SentOf(e) = {}
    BY <2>1, OutboxAssumption DEF Init, SentOf, Taken
  <2> QED BY <2>1 DEF Init, Promise!Init, SentOf, Taken
<1>2. IInv /\ SyncInv /\ SendInv /\ FreshInv /\ AgreeInv /\ SendInv' /\ [Next]_vars
        => [Promise!Next]_(Promise!vars)
  BY NextIsPromised
<1>3. IInv /\ SyncInv /\ SendInv /\ FreshInv /\ AgreeInv /\ [Next]_vars => AgreeInv'
  BY StepAgreeInv
<1> QED
  BY <1>1, <1>2, <1>3, InitAgreeInv, GatewayInvariant, PTL
     DEF Spec, KeepsPromise, Promise!Spec
=============================================================================
