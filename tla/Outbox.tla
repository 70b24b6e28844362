------------------------------- MODULE Outbox -------------------------------
(***************************************************************************)
(* The outbound half of the gateway: the SQLite outbox (storage.py), the   *)
(* dispatch loop and the immediate send (gateway.py), and the two          *)
(* synchronisation stages that fetch work from the Snippen booking API and *)
(* report delivery statuses back to it (sync.py).                          *)
(*                                                                         *)
(* Several operating system processes may share one database file: the     *)
(* daemon (`snippen-sms run'), and one-shot `snippen-sms send' and         *)
(* `snippen-sms sync' commands.  Inside a process everything between two   *)
(* awaits is sequential; between processes only single SQL statements are  *)
(* atomic.  An action is therefore one statement, or one request to an     *)
(* outside service, together with the local control that follows it.       *)
(***************************************************************************)
EXTENDS Naturals, FiniteSets

CONSTANTS
  Item,        \* identifiers of the messages Snippen asks the gateway to send
  Malformed,   \* the items that arrive without a recipient or a body
  NoItem,      \* the external id of a row that does not come from Snippen
  Process,     \* the operating system processes sharing the database
  Syncer,      \* those that run SyncService.sync_all
  Dispatcher,  \* those that run GatewayService.process_outbox
  Sender,      \* those that run GatewayService.send_sms
  BatchLimit,  \* rows taken by one process_outbox call (50 in the code)
  ReportLimit, \* statuses reported by one sync_statuses call (100 in the code)
  MaxRow,      \* bound: rows of the messages table, enough for all offers and locals
  MaxOffer,    \* bound: times Snippen offers (or re-offers) an item
  MaxLocal,    \* bound: rows enqueued by the gateway itself
  MaxFault     \* bound: crashes and failed database writes

ASSUME OutboxAssumption ==
  /\ NoItem \notin Item
  /\ Malformed \subseteq Item
  /\ Syncer \cup Dispatcher \cup Sender \subseteq Process
  /\ {BatchLimit, ReportLimit} \subseteq Nat \ {0}
  /\ {MaxRow, MaxOffer, MaxLocal, MaxFault} \subseteq Nat

VARIABLES
  remote,    \* what Snippen holds of an item: its delivery state there
  status,    \* messages.status of a row, "none" before the INSERT
  extId,     \* messages.external_id of a row
  reported,  \* the row's external_id carries the `reported:' prefix
  pc,        \* where a process is
  items,     \* items of the fetched outbox a process has yet to handle
  todo,      \* rows of the process_outbox snapshot yet to be handled
  cur,       \* the row being sent, 0 if none
  incoming,  \* the item found not to be stored, about to be inserted
  payload,   \* <<row, status>> pairs of the status report under way
  accepted,  \* history: times the carrier accepted the SMS of a row
  offers, locals, faults  \* counters for the bounds

remoteVars  == <<remote, offers>>
tableVars   == <<status, extId, reported, locals>>
processVars == <<pc, items, todo, cur, incoming, payload>>
vars == <<remoteVars, tableVars, processVars, accepted, faults>>

Row == 1..MaxRow

Control == {"off", "idle",
            "enqueueing", "inserting", "reporting", "posting", "marking", "stamping",
            "dispatching", "awaiting", "succeeded", "errored", "raised"}

TypeOK ==
  /\ remote \in [Item -> {"absent", "pending", "sent", "failed"}]
  /\ status \in [Row -> {"none", "pending", "sent", "failed", "delivered"}]
  /\ extId \in [Row -> Item \cup {NoItem}]
  /\ reported \in [Row -> BOOLEAN]
  /\ pc \in [Process -> Control]
  /\ items \in [Process -> SUBSET Item]
  /\ todo \in [Process -> SUBSET Row]
  /\ cur \in [Process -> Row \cup {0}]
  /\ incoming \in [Process -> Item \cup {NoItem}]
  /\ payload \in [Process -> SUBSET (Row \X {"sent", "failed", "delivered"})]
  /\ accepted \in [Row -> Nat]
  /\ offers \in Nat /\ locals \in Nat /\ faults \in Nat

-----------------------------------------------------------------------------
(* The messages table.                                                     *)

Stored == {r \in Row : status[r] # "none"}

\* Mutant of Oldest: ORDER BY id DESC
Newest(n, S) == {r \in S : Cardinality({q \in S : r < q}) < n}

\* ORDER BY id ASC LIMIT n
Oldest(n, S) == {r \in S : Cardinality({q \in S : q < r}) < n}

\* AUTOINCREMENT: the next id
IsNextId(r) == r \notin Stored /\ \A q \in Row : q < r => q \in Stored

\* Mutant of HasExternalId: only rows still waiting are looked up
HasPendingExternalId(e) == \E r \in Row : extId[r] = e /\ status[r] = "pending"

\* get_message_by_external_id: a row still carrying the unprefixed id
HasExternalId(e) == \E r \in Stored : extId[r] = e /\ ~reported[r]

\* Mutants of PendingOutbox: failed rows, or rows already sent, are taken again
RetriedOutbox == {r \in Row : status[r] \in {"pending", "failed"}}
ResentOutbox == {r \in Row : status[r] \in {"pending", "sent"}}

\* get_pending_outbox, before its LIMIT
PendingOutbox == {r \in Row : status[r] = "pending"}

\* Mutant of UnreportedOutbox: failures are not reported
UnreportedSuccesses ==
  {r \in Row : status[r] = "sent" /\ extId[r] # NoItem /\ ~reported[r]}

\* get_unreported_outbox_statuses, before its LIMIT
UnreportedOutbox ==
  {r \in Row : /\ status[r] \in {"sent", "failed"}
               /\ extId[r] # NoItem
               /\ ~reported[r]}

\* save_message on a new object
Insert(r, e) ==
  /\ IsNextId(r)
  /\ status' = [status EXCEPT ![r] = "pending"]
  /\ extId' = [extId EXCEPT ![r] = e]
  /\ UNCHANGED reported

Goto(p, label) == pc' = [pc EXCEPT ![p] = label]

Init ==
  /\ remote = [e \in Item |-> "absent"]
  /\ status = [r \in Row |-> "none"]
  /\ extId = [r \in Row |-> NoItem]
  /\ reported = [r \in Row |-> FALSE]
  /\ pc = [p \in Process |-> "off"]
  /\ items = [p \in Process |-> {}]
  /\ todo = [p \in Process |-> {}]
  /\ cur = [p \in Process |-> 0]
  /\ incoming = [p \in Process |-> NoItem]
  /\ payload = [p \in Process |-> {}]
  /\ accepted = [r \in Row |-> 0]
  /\ offers = 0 /\ locals = 0 /\ faults = 0

\* An exception leaves sync_all, process_outbox or send_sms with all its locals;
\* run() logs it and starts the next tick.
Abandon(p) ==
  /\ items' = [items EXCEPT ![p] = {}]
  /\ todo' = [todo EXCEPT ![p] = {}]
  /\ cur' = [cur EXCEPT ![p] = 0]
  /\ incoming' = [incoming EXCEPT ![p] = NoItem]
  /\ payload' = [payload EXCEPT ![p] = {}]

-----------------------------------------------------------------------------
(* Snippen, as far as the gateway uses it.                                 *)

\* A new notification is queued for sending, or one reported as failed is
\* queued again (mark_outbox_status_reported frees its id for that).
Offer(e) ==
  /\ offers < MaxOffer
  /\ remote[e] \in {"absent", "failed"}
  /\ remote' = [remote EXCEPT ![e] = "pending"]
  /\ offers' = offers + 1
  /\ UNCHANGED <<tableVars, processVars, accepted, faults>>

-----------------------------------------------------------------------------
(* sync_outbox                                                             *)

\* GET outbox: everything pending at Snippen.  An empty answer or a failed
\* request ends the stage; sync_all goes on to the status report.
FetchOutbox(p) ==
  /\ pc[p] = "idle" /\ p \in Syncer
  /\ \/ /\ items' = [items EXCEPT ![p] = {e \in Item : remote[e] = "pending"}]
        /\ Goto(p, "enqueueing")
     \/ /\ Goto(p, "reporting")
        /\ UNCHANGED items
  /\ UNCHANGED <<remoteVars, tableVars, todo, cur, incoming, payload, accepted, faults>>

SkipItem(p, e) ==
  /\ pc[p] = "enqueueing" /\ e \in items[p]
  /\ e \in Malformed \/ HasExternalId(e)
  /\ items' = [items EXCEPT ![p] = @ \ {e}]
  /\ UNCHANGED <<remoteVars, tableVars, pc, todo, cur, incoming, payload, accepted, faults>>

\* The SELECT by external_id found nothing; the INSERT is a later statement.
NewItem(p, e) ==
  /\ pc[p] = "enqueueing" /\ e \in items[p]
  /\ e \notin Malformed /\ ~HasExternalId(e)
  /\ incoming' = [incoming EXCEPT ![p] = e]
  /\ items' = [items EXCEPT ![p] = @ \ {e}]
  /\ Goto(p, "inserting")
  /\ UNCHANGED <<remoteVars, tableVars, todo, cur, payload, accepted, faults>>

InsertItem(p) ==
  /\ pc[p] = "inserting"
  /\ \E r \in Row : Insert(r, incoming[p])
  /\ incoming' = [incoming EXCEPT ![p] = NoItem]
  /\ Goto(p, "enqueueing")
  /\ UNCHANGED <<remoteVars, locals, items, todo, cur, payload, accepted, faults>>

EndFetch(p) ==
  /\ pc[p] = "enqueueing" /\ items[p] = {}
  /\ Goto(p, "reporting")
  /\ UNCHANGED <<remoteVars, tableVars, items, todo, cur, incoming, payload, accepted, faults>>

-----------------------------------------------------------------------------
(* sync_statuses                                                           *)

\* Mutant of ReadUnreported: every outcome is reported as a success
ReadAsSent(p) ==
  /\ pc[p] = "reporting"
  /\ payload' = [payload EXCEPT ![p] =
                   {<<r, "sent">> : r \in Oldest(ReportLimit, UnreportedOutbox)}]
  /\ Goto(p, IF UnreportedOutbox = {} THEN "idle" ELSE "posting")
  /\ UNCHANGED <<remoteVars, tableVars, items, todo, cur, incoming, accepted, faults>>

ReadUnreported(p) ==
  /\ pc[p] = "reporting"
  /\ payload' = [payload EXCEPT ![p] =
                   {<<r, status[r]>> : r \in Oldest(ReportLimit, UnreportedOutbox)}]
  /\ Goto(p, IF UnreportedOutbox = {} THEN "idle" ELSE "posting")
  /\ UNCHANGED <<remoteVars, tableVars, items, todo, cur, incoming, accepted, faults>>

\* What Snippen may hold after it processed the report of p: of two rows of one
\* item in the same report either may be the one applied last.
Told(p) ==
  {told \in [Item -> {"absent", "pending", "sent", "failed"}] :
     \A e \in Item :
       LET news == {x[2] : x \in {y \in payload[p] : extId[y[1]] = e}}
       IN  IF news = {} THEN told[e] = remote[e] ELSE told[e] \in news}

\* POST outbox/status, processed and answered
PostStatuses(p) ==
  /\ pc[p] = "posting"
  /\ remote' \in Told(p)
  /\ Goto(p, "marking")
  /\ UNCHANGED <<offers, tableVars, items, todo, cur, incoming, payload, accepted, faults>>

\* The request fails before Snippen handles it, or after it did and the answer
\* is lost: either way the client raises and no row is marked.
PostFails(p) ==
  /\ pc[p] = "posting"
  /\ remote' \in Told(p) \/ UNCHANGED remote
  /\ payload' = [payload EXCEPT ![p] = {}]
  /\ Goto(p, "idle")
  /\ UNCHANGED <<offers, tableVars, items, todo, cur, incoming, accepted, faults>>

\* mark_outbox_status_reported reads the row again ...
ReadReported(p) ==
  /\ pc[p] = "marking"
  /\ \E x \in payload[p] :
       /\ cur' = [cur EXCEPT ![p] = x[1]]
       /\ payload' = [payload EXCEPT ![p] = (@ \ {x}) \cup {<<x[1], status[x[1]]>>}]
  /\ Goto(p, "stamping")
  /\ UNCHANGED <<remoteVars, tableVars, items, todo, incoming, accepted, faults>>

\* Mutant of WriteReported: a failure becomes DELIVERED too
WriteDelivered(p) ==
  /\ pc[p] = "stamping"
  /\ \E x \in payload[p] :
       /\ x[1] = cur[p]
       /\ status' = [status EXCEPT ![x[1]] = "delivered"]
       /\ reported' = [reported EXCEPT ![x[1]] = @ \/ x[2] = "failed"]
       /\ payload' = [payload EXCEPT ![p] = @ \ {x}]
  /\ cur' = [cur EXCEPT ![p] = 0]
  /\ Goto(p, "marking")
  /\ UNCHANGED <<remoteVars, extId, locals, items, todo, incoming, accepted, faults>>

\* ... and writes what it read: SENT becomes DELIVERED, FAILED keeps its status
\* and has its external id prefixed.
WriteReported(p) ==
  /\ pc[p] = "stamping"
  /\ \E x \in payload[p] :
       /\ x[1] = cur[p]
       /\ status' = [status EXCEPT ![x[1]] = IF x[2] = "sent" THEN "delivered" ELSE x[2]]
       /\ reported' = [reported EXCEPT ![x[1]] = @ \/ x[2] = "failed"]
       /\ payload' = [payload EXCEPT ![p] = @ \ {x}]
  /\ cur' = [cur EXCEPT ![p] = 0]
  /\ Goto(p, "marking")
  /\ UNCHANGED <<remoteVars, extId, locals, items, todo, incoming, accepted, faults>>

EndReport(p) ==
  /\ pc[p] = "marking" /\ payload[p] = {}
  /\ Goto(p, "idle")
  /\ UNCHANGED <<remoteVars, tableVars, items, todo, cur, incoming, payload, accepted, faults>>

-----------------------------------------------------------------------------
(* process_outbox and send_sms                                             *)

\* The gateway's own messages (the prompts of the conversation resolver, or a
\* `send' that the rate limiter suspends) enter the table without external id.
EnqueueLocal(p) ==
  /\ pc[p] = "idle" /\ p \in Dispatcher \cup Sender
  /\ locals < MaxLocal /\ locals' = locals + 1
  /\ \E r \in Row : Insert(r, NoItem)
  /\ UNCHANGED <<remoteVars, processVars, accepted, faults>>

\* send_sms, permitted by its rate limiter: insert, then send at once
SendNow(p) ==
  /\ pc[p] = "idle" /\ p \in Sender
  /\ locals < MaxLocal /\ locals' = locals + 1
  /\ \E r \in Row : Insert(r, NoItem) /\ cur' = [cur EXCEPT ![p] = r]
  /\ Goto(p, "awaiting")
  /\ UNCHANGED <<remoteVars, items, todo, incoming, payload, accepted, faults>>

TakeBatch(p) ==
  /\ pc[p] = "idle" /\ p \in Dispatcher
  /\ PendingOutbox # {}
  /\ todo' = [todo EXCEPT ![p] = Oldest(BatchLimit, PendingOutbox)]
  /\ Goto(p, "dispatching")
  /\ UNCHANGED <<remoteVars, tableVars, items, cur, incoming, payload, accepted, faults>>

\* The limiter permits the next row of the snapshot, whose status is not read again.
Dispatch(p) ==
  /\ pc[p] = "dispatching"
  /\ \E r \in todo[p] :
       /\ \A q \in todo[p] : r <= q
       /\ cur' = [cur EXCEPT ![p] = r]
       /\ todo' = [todo EXCEPT ![p] = @ \ {r}]
  /\ Goto(p, "awaiting")
  /\ UNCHANGED <<remoteVars, tableVars, items, incoming, payload, accepted, faults>>

\* The limiter refuses: the rest of the snapshot stays pending.
Suspend(p) ==
  /\ pc[p] = "dispatching" /\ todo[p] # {}
  /\ todo' = [todo EXCEPT ![p] = {}]
  /\ Goto(p, "idle")
  /\ UNCHANGED <<remoteVars, tableVars, items, cur, incoming, payload, accepted, faults>>

EndBatch(p) ==
  /\ pc[p] = "dispatching" /\ todo[p] = {}
  /\ Goto(p, "idle")
  /\ UNCHANGED <<remoteVars, tableVars, items, todo, cur, incoming, payload, accepted, faults>>

\* await provider.send_sms: the carrier takes the SMS and says so ...
ProviderAccepts(p) ==
  /\ pc[p] = "awaiting"
  /\ accepted' = [accepted EXCEPT ![cur[p]] = @ + 1]
  /\ Goto(p, "succeeded")
  /\ UNCHANGED <<remoteVars, tableVars, items, todo, cur, incoming, payload, faults>>

\* ... or its answer is lost (a timeout is a failed SendResult) ...
AnswerLost(p) ==
  /\ pc[p] = "awaiting"
  /\ accepted' = [accepted EXCEPT ![cur[p]] = @ + 1]
  /\ Goto(p, "errored")
  /\ UNCHANGED <<remoteVars, tableVars, items, todo, cur, incoming, payload, faults>>

\* ... or it never got the SMS.
ProviderFails(p) ==
  /\ pc[p] = "awaiting"
  /\ Goto(p, "errored")
  /\ UNCHANGED <<remoteVars, tableVars, items, todo, cur, incoming, payload, accepted, faults>>

\* update_message_status commits its UPDATE and then reads the row again; here
\* both succeed.
Record(p, s) ==
  /\ status' = [status EXCEPT ![cur[p]] = s]
  /\ cur' = [cur EXCEPT ![p] = 0]
  /\ Goto(p, "dispatching")
  /\ UNCHANGED <<remoteVars, extId, reported, locals, items, todo, incoming, payload, accepted>>

RecordSent(p) ==
  /\ pc[p] = "succeeded"
  /\ Record(p, "sent")
  /\ UNCHANGED faults

\* Mutant of RecordFailed: an unsuccessful SendResult is recorded as SENT
RecordFailedAsSent(p) ==
  /\ pc[p] = "errored"
  /\ Record(p, "sent")
  /\ UNCHANGED faults

RecordFailed(p) ==
  /\ pc[p] = "errored"
  /\ Record(p, "failed")
  /\ UNCHANGED faults

\* The except branch around the send and its recording: whatever raised, and
\* whatever was committed before it did, the row is FAILED now.
RecordRaised(p) ==
  /\ pc[p] = "raised"
  /\ Record(p, "failed")
  /\ UNCHANGED faults

-----------------------------------------------------------------------------
(* Failures.  Each uses up one of MaxFault.                                *)

Fault == faults < MaxFault /\ faults' = faults + 1

\* update_message_status raises inside the try of a send: at its UPDATE, or at
\* the SELECT that reads the row again when the UPDATE is committed already.
RecordingRaises(p) ==
  /\ pc[p] \in {"succeeded", "errored"} /\ Fault
  /\ \/ UNCHANGED status
     \/ status' = [status EXCEPT ![cur[p]] = IF pc[p] = "succeeded" THEN "sent" ELSE "failed"]
  /\ Goto(p, "raised")
  /\ UNCHANGED <<remoteVars, extId, reported, locals, items, todo, cur, incoming, payload,
                 accepted>>

\* It raises in the except branch as well, where nothing catches it; the
\* FAILED may be committed then.
ExceptRaises(p) ==
  /\ pc[p] = "raised" /\ Fault
  /\ UNCHANGED status \/ status' = [status EXCEPT ![cur[p]] = "failed"]
  /\ Abandon(p)
  /\ Goto(p, "idle")
  /\ UNCHANGED <<remoteVars, extId, reported, locals, accepted>>

\* A statement outside such a try raises.
StatementFails(p) ==
  /\ pc[p] \in {"enqueueing", "inserting", "reporting", "marking", "stamping"}
  /\ Fault
  /\ Abandon(p)
  /\ Goto(p, "idle")
  /\ UNCHANGED <<remoteVars, tableVars, accepted>>

Crash(p) ==
  /\ pc[p] # "off" /\ Fault
  /\ Abandon(p)
  /\ Goto(p, "off")
  /\ UNCHANGED <<remoteVars, tableVars, accepted>>

Start(p) ==
  /\ pc[p] = "off"
  /\ Goto(p, "idle")
  /\ UNCHANGED <<remoteVars, tableVars, items, todo, cur, incoming, payload, accepted, faults>>

-----------------------------------------------------------------------------

Sync(p) ==
  \/ FetchOutbox(p) \/ InsertItem(p) \/ EndFetch(p)
  \/ \E e \in Item : SkipItem(p, e) \/ NewItem(p, e)
  \/ ReadUnreported(p) \/ PostStatuses(p) \/ PostFails(p)
  \/ ReadReported(p) \/ WriteReported(p) \/ EndReport(p)

Send(p) ==
  \/ EnqueueLocal(p) \/ SendNow(p)
  \/ TakeBatch(p) \/ Dispatch(p) \/ Suspend(p) \/ EndBatch(p)
  \/ ProviderAccepts(p) \/ AnswerLost(p) \/ ProviderFails(p)
  \/ RecordSent(p) \/ RecordFailed(p) \/ RecordRaised(p)

Fail(p) == RecordingRaises(p) \/ ExceptRaises(p) \/ StatementFails(p) \/ Crash(p)

Next ==
  \/ \E e \in Item : Offer(e)
  \/ \E p \in Process : Sync(p) \/ Send(p) \/ Fail(p) \/ Start(p)

Spec == Init /\ [][Next]_vars

-----------------------------------------------------------------------------
(* Fairness.  A process keeps running its loop: run() starts a new tick     *)
(* after every poll interval and systemd restarts a daemon that died.  The  *)
(* limiter permits a send again and again (module RateLimiter shows how     *)
(* long it can refuse), and Snippen and the provider answer again and       *)
(* again, so what keeps being attempted sometimes succeeds.                 *)

Fairness ==
  \A p \in Process :
    /\ WF_vars(Start(p) \/ RecordSent(p) \/ RecordFailed(p) \/ RecordRaised(p) \/ EndBatch(p))
    /\ WF_vars(\E e \in Item : SkipItem(p, e) \/ NewItem(p, e))
    /\ WF_vars(InsertItem(p) \/ EndFetch(p) \/ ReadUnreported(p))
    /\ WF_vars(ReadReported(p) \/ WriteReported(p) \/ EndReport(p))
    /\ WF_vars(ProviderAccepts(p) \/ AnswerLost(p) \/ ProviderFails(p))
    /\ SF_vars(FetchOutbox(p) /\ pc'[p] = "enqueueing")
    /\ SF_vars(PostStatuses(p))
    /\ SF_vars(TakeBatch(p))
    /\ SF_vars(Dispatch(p))

FairSpec == Spec /\ Fairness

-----------------------------------------------------------------------------
(* Properties that hold however many processes share the database.         *)

\* A row recorded as SENT or DELIVERED was taken by the carrier, whatever
\* crashed, timed out or was recorded by somebody else in between.
StatusTruthful ==
  \A r \in Row : status[r] \in {"sent", "delivered"} => accepted[r] > 0

\* Snippen is told an item is sent only if the carrier took an SMS for it,
\* although the report was read from the table long before it arrives there.
RemoteTruthful ==
  \A e \in Item :
    remote[e] = "sent" => \E r \in Row : extId[r] = e /\ accepted[r] > 0

-----------------------------------------------------------------------------
(* Properties of one process alone with its database.                      *)

\* sync_outbox "deduplicates against existing records via external_id to
\* prevent double-sending" (sync.py:84): one row at most stands for an item.
OneLiveRowPerItem ==
  \A q, r \in Stored :
    (q # r /\ extId[q] = extId[r] /\ extId[q] # NoItem) => reported[q] \/ reported[r]

\* process_outbox transmits a row twice only if a crash or a failed write kept
\* the first result out of the table: one repetition for each such failure.
RepeatsNeedFaults == \A r \in Row : accepted[r] <= 1 + faults

\* "in FIFO order" (storage.py:430): nothing is sent while an older row waits,
\* however the limiter, crashes and restarts cut the batches.
OldestFirst ==
  \A q, r \in Row : (q < r /\ status[q] = "pending") => accepted[r] = 0

\* A delivery result is final once its row is let go: nothing takes it back to
\* waiting or turns a failure or a reported result into another one, and SENT is
\* left only for DELIVERED, by its report, or for FAILED, by the very send that
\* recorded it and whose read of the row after that commit raised.
ResultIsFinal ==
  [][\A r \in Row :
       (status[r] \in {"sent", "failed", "delivered"} /\ status'[r] # status[r]) =>
         /\ status[r] = "sent"
         /\ \/ status'[r] = "delivered" /\ \A p \in Process : cur[p] = r => pc[p] = "stamping"
            \/ status'[r] = "failed" /\ \E p \in Process : cur[p] = r /\ pc[p] = "raised"]_status

\* The outbox as Snippen sees it: module OutboxPromise.
Promise ==
  INSTANCE OutboxPromise WITH
    told <- remote,
    sent <- [e \in Item |-> {x \in Row \X (1..(1 + MaxFault)) :
                                extId[x[1]] = e /\ x[2] <= accepted[x[1]]}],
    Transmission <- Row \X (1..(1 + MaxFault))

KeepsPromise == Promise!Spec

\* Every row that is waiting is eventually tried and gets a result, and every
\* well-formed item Snippen offers is eventually reported to it.
EveryItemServed ==
  /\ \A r \in Row : status[r] = "pending" ~> status[r] # "pending"
  /\ \A e \in Item \ Malformed : remote[e] = "pending" ~> remote[e] \in {"sent", "failed"}
=============================================================================
