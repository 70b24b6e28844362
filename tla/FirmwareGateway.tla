--------------------------- MODULE FirmwareGateway ---------------------------
(***************************************************************************)
(* The event loop of the modem firmware (firmware/main.py) between Snippen *)
(* and the modem: the outbox it polls, the SMS it forwards, the calls it   *)
(* answers with a text, and the heartbeat that power-cycles a modem that   *)
(* hangs.                                                                  *)
(*                                                                         *)
(* The loop is sequential.  What it turns to next is left open, since each *)
(* task has an interval of its own; a task once begun is finished.  The    *)
(* device may lose power or be reset by the watchdog at any point, and     *)
(* then keeps nothing but what is on the SIM card.                         *)
(***************************************************************************)
EXTENDS Modem

CONSTANTS
  Item,          \* the messages in Snippen's outbox, by id
  Alert, Reply,  \* the text to the administrator about a call, the one to the caller
  Withheld,      \* the caller whose number is not shown
  NoText,        \* no text
  BatchLimit,    \* outbox_batch_limit
  CacheSize,     \* recent_sent_cache_size
  MaxEvent       \* bound: messages, segments and calls that come in

ASSUME GatewayAssumption ==
  /\ Text = Item \cup {Alert, Reply} /\ Alert # Reply /\ {Alert, Reply} \cap Item = {}
  /\ NoText \notin Text
  /\ BatchLimit \in Nat \ {0} /\ CacheSize \in Nat /\ MaxEvent \in Nat

VARIABLES
  pc,         \* what the loop is doing
  batch,      \* messages fetched and not yet handled
  job,        \* the text being sent
  verdict,    \* how that went
  caller,     \* whose call is being handled
  recent,     \* recent_sent_ids
  quiet,      \* callers handled less than 30 seconds ago
  failures,   \* consecutive_modem_failures
  texts,      \* segments of the texts about to be forwarded
  told,       \* what Snippen holds about an item
  copies,     \* history: how often Snippen was given a segment
  lost,       \* history: segments given up for good
  forgotten,  \* history: entries pushed out of the cache
  resets,     \* history: how often the device was reset
  events      \* counter for the bound

task == <<batch, job, verdict, caller, texts>>
memory == <<recent, quiet, failures>>
snippen == <<told, copies>>
history == <<lost, forgotten, resets>>
vars == <<modemVars, pc, task, memory, snippen, history, events>>

Init ==
  /\ ModemInit
  /\ pc = "idle" /\ batch = {} /\ job = NoText /\ verdict = "none" /\ caller = Withheld
  /\ recent = <<>> /\ quiet = {} /\ failures = 0 /\ texts = {}
  /\ told = [i \in Item |-> "absent"]
  /\ copies = [x \in Segment |-> 0]
  /\ lost = {} /\ forgotten = 0 /\ resets = 0 /\ events = 0

TypeOK ==
  /\ ModemTypeOK
  /\ pc \in {"off", "idle", "batch", "sending", "reporting", "alerting", "replying",
             "listing", "deleting", "forwarding"}
  /\ batch \subseteq Item /\ job \in Text \cup {NoText} /\ verdict \in {"none", "sent", "failed"}
  /\ caller \in Caller \cup {Withheld} /\ quiet \subseteq Caller \cup {Withheld}
  /\ Len(recent) <= CacheSize /\ \A k \in DOMAIN recent : recent[k] \in Item
  /\ failures \in 0..2 /\ texts \subseteq Segment
  /\ told \in [Item -> {"absent", "pending", "sent", "failed"}]
  /\ copies \in [Segment -> Nat]
  /\ lost \subseteq Segment /\ forgotten \in Nat /\ resets \in 0..MaxFault /\ events \in 0..MaxEvent

Goto(p) == pc' = p

-----------------------------------------------------------------------------
(* Snippen, those who call and write, the power supply.                    *)

Event == events < MaxEvent /\ events' = events + 1

Offer(i) ==
  /\ Event /\ told[i] \in {"absent", "failed"} /\ told' = [told EXCEPT ![i] = "pending"]
  /\ UNCHANGED <<modemVars, pc, task, memory, copies, history>>

Calls(c) == Event /\ Ring(c) /\ UNCHANGED <<pc, task, memory, snippen, history>>

Writes(x) == Event /\ Arrive(x) /\ UNCHANGED <<pc, task, memory, snippen, history>>

ModemHangs == Hang /\ UNCHANGED <<pc, task, memory, snippen, history, events>>

\* Thirty seconds pass since c was handled.
Elapse(c) ==
  /\ c \in quiet /\ quiet' = quiet \ {c}
  /\ UNCHANGED <<modemVars, pc, task, recent, failures, snippen, history, events>>

\* The segments that exist nowhere but in the driver.
InDriver == (hand \cup buffers \cup texts) \ sim

Reset ==
  /\ pc # "off" /\ Fault /\ resets' = resets + 1 /\ Goto("off")
  /\ NewDriver /\ UNCHANGED hung
  /\ batch' = {} /\ job' = NoText /\ verdict' = "none" /\ caller' = Withheld /\ texts' = {}
  /\ recent' = <<>> /\ quiet' = {} /\ failures' = 0
  /\ lost' = lost \cup InDriver
  /\ UNCHANGED <<snippen, forgotten, events>>

\* setup: init_modem, whose failure is not fatal.
Boot == pc = "off" /\ Goto("idle") /\ Ping /\ UNCHANGED <<task, memory, snippen, history, events>>

-----------------------------------------------------------------------------
(* poll_outbox                                                             *)

FetchOutbox(S) ==
  /\ pc = "idle" /\ S # {} /\ Cardinality(S) <= BatchLimit
  /\ \A i \in S : told[i] = "pending"
  /\ batch' = S /\ Goto("batch")
  /\ UNCHANGED <<modemVars, job, verdict, caller, texts, memory, snippen, history, events>>

InCache(i) == \E k \in DOMAIN recent : recent[k] = i

\* What Snippen makes of a report, if it gets it; the device does not care.
Settle(i, v) ==
  \/ told' = [told EXCEPT ![i] = IF @ = "pending" THEN v ELSE @] /\ UNCHANGED faults
  \/ Fault /\ UNCHANGED told

modemButFaults == <<hung, uart, sim, coming, reading, sending, undeleted>>

\* Mutant of ReportAgain: a message sent recently is passed over
PassOver(i) ==
  /\ pc = "batch" /\ i \in batch /\ InCache(i) /\ batch' = batch \ {i}
  /\ UNCHANGED <<modemVars, pc, job, verdict, caller, texts, memory, snippen, history, events>>

\* A message sent recently is reported again, not sent.
ReportAgain(i) ==
  /\ pc = "batch" /\ i \in batch /\ InCache(i) /\ batch' = batch \ {i}
  /\ Settle(i, "sent")
  /\ UNCHANGED <<modemButFaults, pc, job, verdict, caller, texts, memory, copies, history, events>>

\* The rate limiter refuses: the rest of the batch waits for another poll.
Suspend ==
  /\ pc = "batch" /\ Fault
  /\ \E i \in batch : ~InCache(i)
  /\ batch' = {} /\ Goto("idle")
  /\ UNCHANGED <<modemButFaults, job, verdict, caller, texts, memory, snippen, history, events>>

\* Mutant of StartMessage: the cache is not asked
StartAnyMessage(i) ==
  /\ pc = "batch" /\ i \in batch
  /\ batch' = batch \ {i} /\ job' = i /\ Goto("sending") /\ StartText
  /\ UNCHANGED <<hung, uart, sim, coming, reading, undeleted, faults>>
  /\ UNCHANGED <<verdict, caller, texts, memory, snippen, history, events>>

StartMessage(i) ==
  /\ pc = "batch" /\ i \in batch /\ ~InCache(i)
  /\ batch' = batch \ {i} /\ job' = i /\ Goto("sending") /\ StartText
  /\ UNCHANGED <<hung, uart, sim, coming, reading, undeleted, faults>>
  /\ UNCHANGED <<verdict, caller, texts, memory, snippen, history, events>>

\* Mutant of Remember: the cache grows
RememberAll(i) == recent' = Append(recent, i) /\ UNCHANGED forgotten

\* _record_recent_sent
Remember(i) ==
  LET others == IF InCache(i) THEN SelectSeq(recent, LAMBDA j : j # i) ELSE recent
      longer == Append(others, i)
  IN IF Len(longer) > CacheSize
     THEN recent' = Tail(longer) /\ forgotten' = forgotten + 1
     ELSE recent' = longer /\ UNCHANGED forgotten

\* The chunks go out in order until one fails or the last is confirmed.
Transmit(taken, confirmed) ==
  /\ pc = "sending" /\ SendChunk(job, taken, confirmed)
  /\ LET over == ~confirmed \/ LastChunk(job)
         ok == confirmed /\ LastChunk(job)
     IN /\ IF ~over THEN UNCHANGED <<pc, job, verdict>>
           ELSE IF job \in Item
           THEN /\ Goto("reporting") /\ UNCHANGED job
                /\ verdict' = IF ok THEN "sent" ELSE "failed"
           ELSE /\ Goto(IF job = Alert THEN "replying" ELSE "idle")
                /\ job' = NoText /\ UNCHANGED verdict
        /\ IF ok /\ job \in Item THEN Remember(job) ELSE UNCHANGED <<recent, forgotten>>
  /\ UNCHANGED <<batch, caller, texts, quiet, failures, snippen, lost, resets, events>>

Report ==
  /\ pc = "reporting" /\ Settle(job, verdict)
  /\ Goto("batch") /\ job' = NoText /\ verdict' = "none"
  /\ UNCHANGED <<modemButFaults, batch, caller, texts, memory, copies, history, events>>

BatchDone ==
  /\ pc = "batch" /\ batch = {} /\ Goto("idle")
  /\ UNCHANGED <<modemVars, task, memory, snippen, history, events>>

-----------------------------------------------------------------------------
(* poll_incoming_calls, handle_incoming_call                               *)

modemButUart == <<hung, sim, coming, reading, sending, undeleted, faults>>

\* A caller heard of in the last thirty seconds is left alone.
PollCalls(c) ==
  /\ pc = "idle" /\ CallFrom(c)
  /\ IF c \in quiet THEN UNCHANGED <<pc, caller, quiet>>
     ELSE Goto("alerting") /\ caller' = c /\ quiet' = quiet \cup {c}
  /\ UNCHANGED <<modemButUart, batch, job, verdict, texts, recent, failures, snippen, history, events>>

PollNoCalls ==
  /\ pc = "idle" /\ NoCall
  /\ UNCHANGED <<modemButUart, pc, task, memory, snippen, history, events>>

\* The administrator is told, then the caller, if there is a number; either if
\* the rate limiter permits.
SendAbout(p, t) ==
  /\ pc = p /\ job' = t /\ Goto("sending") /\ StartText
  /\ UNCHANGED <<hung, uart, sim, coming, reading, undeleted, faults>>
  /\ UNCHANGED <<batch, verdict, caller, texts, memory, snippen, history, events>>

SendAlert == SendAbout("alerting", Alert)

SendReply == caller # Withheld /\ SendAbout("replying", Reply)

SkipAlert ==
  /\ pc = "alerting" /\ Fault /\ Goto("replying")
  /\ UNCHANGED <<modemButFaults, task, memory, snippen, history, events>>

SkipReply ==
  /\ pc = "replying" /\ Goto("idle")
  /\ IF caller = Withheld THEN UNCHANGED faults ELSE Fault
  /\ UNCHANGED <<modemButFaults, task, memory, snippen, history, events>>

-----------------------------------------------------------------------------
(* poll_incoming_sms, process_inbox                                        *)

\* An announced SMS is looked for at once ...
PollSms ==
  /\ pc = "idle" /\ SmsAnnounced /\ Goto("listing")
  /\ UNCHANGED <<modemButUart, task, memory, snippen, history, events>>

PollNoSms ==
  /\ pc = "idle" /\ NoSmsAnnounced
  /\ UNCHANGED <<modemButUart, pc, task, memory, snippen, history, events>>

\* Mutant of ReadInbox: the SIM is looked at only when an SMS is announced
ReadAnnounced ==
  /\ pc = "listing" /\ ListSim /\ Goto("deleting")
  /\ UNCHANGED <<task, memory, snippen, history, events>>

\* ... and every half minute.
ReadInbox ==
  /\ pc \in {"idle", "listing"} /\ ListSim /\ Goto("deleting")
  /\ UNCHANGED <<task, memory, snippen, history, events>>

DeleteSegment(x) ==
  /\ pc = "deleting" /\ DeleteSms(x)
  /\ UNCHANGED <<pc, task, memory, snippen, history, events>>

Reassemble ==
  /\ pc = "deleting" /\ Assemble(texts') /\ Goto(IF texts' = {} THEN "idle" ELSE "forwarding")
  /\ UNCHANGED <<batch, job, verdict, caller, memory, snippen, history, events>>

\* One attempt to forward what was read, which fails without Wi-Fi too.
Forward ==
  /\ pc = "forwarding" /\ Goto("idle") /\ texts' = {}
  /\ \/ /\ copies' = [x \in Segment |-> copies[x] + (IF x \in texts THEN 1 ELSE 0)]
        /\ UNCHANGED <<lost, faults>>
     \/ Fault /\ lost' = lost \cup (texts \ sim) /\ UNCHANGED copies
  /\ UNCHANGED <<modemButFaults, batch, job, verdict, caller, memory, told>>
  /\ UNCHANGED <<forgotten, resets, events>>

-----------------------------------------------------------------------------
(* heartbeat                                                               *)

Heartbeat ==
  /\ pc = "idle" /\ Ping /\ (hung => failures < 2)
  /\ failures' = IF hung THEN failures + 1 ELSE 0
  /\ UNCHANGED <<pc, task, recent, quiet, snippen, history, events>>

\* After the third failure in a row the modem is switched off and on, and has a
\* new driver.
PowerCycle ==
  /\ pc = "idle" /\ hung /\ failures = 2 /\ hung' = FALSE /\ NewDriver /\ UNCHANGED faults
  /\ failures' = 0
  /\ lost' = lost \cup InDriver
  /\ UNCHANGED <<pc, task, recent, quiet, snippen, forgotten, resets, events>>

-----------------------------------------------------------------------------

Environment ==
  \/ \E i \in Item : Offer(i)
  \/ \E c \in Caller : Calls(c) \/ Elapse(c)
  \/ \E x \in Segment : Writes(x)
  \/ ModemHangs \/ Reset

\* What the loop turns to when it is idle.
Turn ==
  \/ \E S \in SUBSET Item : FetchOutbox(S)
  \/ \E c \in Caller : PollCalls(c)
  \/ PollNoCalls \/ PollSms \/ PollNoSms \/ ReadInbox \/ Heartbeat \/ PowerCycle

\* What it does until it is idle again.
Task ==
  \/ Boot
  \/ \E i \in Item : ReportAgain(i) \/ StartMessage(i)
  \/ Suspend \/ Report \/ BatchDone
  \/ \E taken, confirmed \in BOOLEAN : Transmit(taken, confirmed)
  \/ SendAlert \/ SendReply \/ SkipAlert \/ SkipReply
  \/ \E x \in Segment : DeleteSegment(x)
  \/ Reassemble \/ Forward

Next == Environment \/ Turn \/ Task

Spec == Init /\ [][Next]_vars

\* The loop goes on, every task has its turn when its interval is over, and what
\* waits in the reassembler is too old some day.
Fairness ==
  /\ WF_vars(Task)
  /\ SF_vars(\E S \in SUBSET Item : FetchOutbox(S))
  /\ SF_vars(ReadInbox)
  /\ SF_vars(Reassemble /\ buffers \cap buffers' = {})
  /\ SF_vars(Heartbeat \/ PowerCycle)

FairSpec == Spec /\ Fairness

-----------------------------------------------------------------------------
(* Properties.                                                             *)

\* A customer gets a message twice only for a confirmation that was lost, a
\* reset, or an entry pushed out of the cache of recent messages; Snippen gets a
\* segment twice only if it could not be deleted.
RepeatsNeedFaults ==
  /\ \A i \in Item : delivered[i] <= 1 + unanswered[i] + resets + forgotten
  /\ \A x \in Segment : copies[x] <= 1 + undeleted[x]

\* An SMS that came in is on the SIM, in the driver or with Snippen, unless a
\* failed request, a reset or a power cycle of the modem lost it: a listing, a
\* timeout or an announcement overlooked never does.
NothingLostQuietly ==
  \A x \in Segment \ coming : x \in sim \cup InDriver \cup lost \/ copies[x] > 0

\* What Snippen is told agrees with what the network took: "sent" is said of a
\* message only after all its text was taken, to the last character, and nothing
\* is transmitted that Snippen does not wait for.
Promise == INSTANCE OutboxPromise
  WITH Transmission <- Nat \ {0},
       sent <- [i \in Item |-> 1..delivered[i]]
KeepsPromise == Promise!Spec

\* Whatever fails or hangs, Snippen learns what became of every message.
EveryItemReported == \A i \in Item : told[i] = "pending" ~> told[i] # "pending"

\* Every SMS reaches Snippen unless it was lost for a reason: one whose
\* announcement was discarded, whose PDU cannot be decoded, whose other segments
\* never come, or that came in while the modem hung.
EverySmsForwarded ==
  \A x \in Segment : x \notin coming ~> copies[x] > 0 \/ x \in lost
=============================================================================
