------------------------------- MODULE Inbox -------------------------------
(***************************************************************************)
(* The inbound half of the gateway: polling the SMS provider and putting   *)
(* multipart messages together (gateway.py, reassembler.py), the inbound   *)
(* rows (storage.py), and their report to Snippen (sync.py), which joins   *)
(* neighbouring rows that read as one text.                                *)
(*                                                                         *)
(* Only the daemon polls, and poll_incoming_messages awaits nothing but    *)
(* the provider: an action is that request with the reassembly that        *)
(* follows it, one row stored, or one step of the report.  What booking a  *)
(* message is about is module Conversation's subject.                      *)
(***************************************************************************)
EXTENDS Naturals, FiniteSets, Sequences, SequencesExt

CONSTANTS
  Sms,         \* what customers write
  Size,        \* the number of segments each is sent in
  Sender,      \* its sender
  Ref,         \* the reference its segments carry (of the UDH, or `txt_N')
  Length,      \* the characters in a segment
  OpenEnd,     \* segments ending without punctuation
  LowStart,    \* segments starting with a lower-case letter
  WithId,      \* segments the provider gives an id (http.py:205)
  Draining,    \* the providers: TRUE hands a message out once (base.py:58), FALSE
               \* lists all it holds each time (http.py)
  InboxLimit,  \* rows reported by one sync_inbox call (100 in the code)
  MaxRow,      \* bound: inbound rows
  MaxFault     \* bound: crashes and failed statements

Segment == UNION {{s} \X (1..Size[s]) : s \in Sms}

ASSUME InboxAssumption ==
  /\ Size \in [Sms -> Nat \ {0}]
  /\ DOMAIN Sender = Sms /\ DOMAIN Ref = Sms
  /\ Length \in [Segment -> Nat]
  /\ OpenEnd \subseteq Segment /\ LowStart \subseteq Segment /\ WithId \subseteq Segment
  /\ Draining \subseteq BOOLEAN
  /\ InboxLimit \in Nat \ {0} /\ MaxRow \in Nat /\ MaxFault \in Nat

VARIABLES
  drains,   \* the kind of provider, fixed
  sent,     \* segments that reached the provider
  held,     \* what the provider answers a poll with, oldest first
  buffers,  \* InboundReassembler._buffers
  ready,    \* messages of this poll yet to be stored
  rows,     \* the inbound rows; row i has id i
  pc,       \* "off", "idle", "storing", "posting", "marking"
  batch,    \* rows the report under way is about
  acked,    \* rows acknowledged and not yet marked
  known,    \* the rows whose text Snippen holds under a gateway_id
  unheeded, \* history: Snippen kept a text whose row was then not marked
  faults    \* counter for the bound

providerVars == <<drains, sent, held>>
pollVars == <<buffers, ready>>
reportVars == <<batch, acked, known, unheeded>>
vars == <<providerVars, pollVars, rows, pc, reportVars, faults>>

Row == 1..MaxRow

\* Mutant of Key: segments are put together by their reference only
RefKey(x) == <<Ref[x[1]]>>

Key(x) == <<Sender[x[1]], Ref[x[1]]>>

Keys == {Key(x) : x \in Segment}

Empty == [first |-> <<>>, parts |-> {}, fresh |-> FALSE]

Init ==
  /\ drains \in Draining
  /\ sent = {} /\ held = <<>>
  /\ buffers = [k \in Keys |-> Empty]
  /\ ready = <<>>
  /\ rows = <<>>
  /\ pc = "off"
  /\ batch = {} /\ acked = {}
  /\ known = [i \in Row |-> {}]
  /\ unheeded = FALSE /\ faults = 0

\* Mutant of Unprocessed: the rows of every status are taken up
AllRows == DOMAIN rows

\* get_unprocessed_inbox
Unprocessed == {i \in DOMAIN rows : rows[i].status = "received"}

Incoming == [id : Segment, parts : (SUBSET Segment) \ {{}}]

\* A row that was acknowledged and is still to be marked is not processed yet.
TypeOK ==
  /\ drains \in BOOLEAN /\ sent \subseteq Segment /\ held \in Seq(Segment)
  /\ buffers \in [Keys -> [first : Segment \cup {<<>>}, parts : SUBSET Segment,
                           fresh : BOOLEAN]]
  /\ ready \in Seq(Incoming)
  /\ rows \in Seq([id : Segment, parts : (SUBSET Segment) \ {{}},
                   status : {"received", "processed"}])
  /\ Len(rows) <= MaxRow
  /\ pc \in {"off", "idle", "storing", "posting", "marking"}
  /\ batch \subseteq 1..Len(rows) /\ acked \subseteq batch
  /\ \A i \in acked : rows[i].status = "received"
  /\ known \in [Row -> SUBSET (1..Len(rows))]
  /\ unheeded \in BOOLEAN /\ faults \in 0..MaxFault

-----------------------------------------------------------------------------
(* The mobile network: segments reach the provider once each, in any order. *)

Arrive(x) ==
  /\ x \notin sent
  /\ sent' = sent \cup {x}
  /\ held' = Append(held, x)
  /\ UNCHANGED <<drains, pollVars, rows, pc, reportVars, faults>>

-----------------------------------------------------------------------------
(* poll_incoming_messages                                                  *)

\* add_message: a single segment is ready at once; a part joins, or opens, the
\* buffer of its key, replacing one of the same number; a full buffer is ready.
AddMessage(acc, x) ==
  LET b     == acc.buffers[Key(x)]
      first == IF b.parts = {} THEN x ELSE b.first
      parts == {y \in b.parts : y[2] # x[2]} \cup {x}
      total == Size[x[1]]
  IN  CASE total = 1 ->
             [acc EXCEPT !.ready = Append(@, [id |-> x, parts |-> {x}])]
        [] total > 1 /\ Cardinality(parts) >= total ->
             [buffers |-> [acc.buffers EXCEPT ![Key(x)] = Empty],
              ready   |-> Append(acc.ready, [id |-> first,
                                             parts |-> {y \in parts : y[2] <= total}])]
        [] OTHER ->
             [acc EXCEPT !.buffers[Key(x)] =
                [first |-> first, parts |-> parts, fresh |-> b.fresh \/ b.parts = {}]]

Aged == [k \in Keys |-> [buffers[k] EXCEPT !.fresh = FALSE]]

\* Mutant of Released: what has timed out is discarded
Discarded(bs, S) == {}

Released(bs, S) == {[id |-> bs[k].first, parts |-> bs[k].parts] : k \in S}

\* The provider answers; buffers opened by an earlier poll may have timed out.
Poll ==
  /\ pc = "idle"
  /\ LET acc == FoldLeft(AddMessage, [buffers |-> Aged, ready |-> <<>>], held)
         old == {k \in Keys : acc.buffers[k].parts # {} /\ ~acc.buffers[k].fresh}
     IN  \E expired \in SUBSET old :
           /\ \E late \in SetToSeqs(Released(acc.buffers, expired)) :
                ready' = acc.ready \o late
           /\ buffers' = [k \in Keys |-> IF k \in expired THEN Empty ELSE acc.buffers[k]]
  /\ held' = IF drains THEN <<>> ELSE held
  /\ pc' = IF ready' = <<>> THEN "idle" ELSE "storing"
  /\ UNCHANGED <<drains, sent, rows, reportVars, faults>>

\* get_message_by_modem_id: a row has the id, if any, of the segment it began with, and
\* what comes without one is never looked up.
Duplicate(item) == item.id \in WithId /\ \E i \in DOMAIN rows : rows[i].id = item.id

NextItem ==
  /\ ready' = Tail(ready)
  /\ pc' = IF ready' = <<>> THEN "idle" ELSE "storing"
  /\ UNCHANGED <<providerVars, buffers, reportVars>>

SkipItem ==
  /\ pc = "storing" /\ Duplicate(Head(ready))
  /\ NextItem
  /\ UNCHANGED <<rows, faults>>

StoreItem ==
  /\ pc = "storing" /\ ~Duplicate(Head(ready)) /\ Len(rows) < MaxRow
  /\ rows' = Append(rows, [id     |-> Head(ready).id,
                           parts  |-> Head(ready).parts,
                           status |-> "received"])
  /\ NextItem
  /\ UNCHANGED faults

Fault == faults < MaxFault /\ faults' = faults + 1

\* save_message raises: logged, and on with the next item.
StoreFails ==
  /\ pc = "storing" /\ ~Duplicate(Head(ready)) /\ Fault
  /\ NextItem
  /\ UNCHANGED rows

\* The lookup raises, outside that try: the poll ends.
LookupFails ==
  /\ pc = "storing" /\ Fault
  /\ ready' = <<>> /\ pc' = "idle"
  /\ UNCHANGED <<providerVars, buffers, rows, reportVars>>

-----------------------------------------------------------------------------
(* sync_inbox                                                              *)

Oldest(n, S) == {i \in S : Cardinality({j \in S : j < i}) < n}

SenderOf(i) == Sender[rows[i].id[1]]

\* The lengths at which a text may have been cut (reassembler.py:314)
FullLengths == {153, 160, 67, 70}

TextLength(T) ==
  MapThenSumSet(LAMBDA i : MapThenSumSet(LAMBDA x : Length[x], rows[i].parts), T)

\* Row j is taken for the continuation of the rows T joined so far.
ReadsOn(T, j) ==
  \E i \in T :
    /\ \A k \in T : k <= i
    /\ SenderOf(i) = SenderOf(j)
    /\ \/ TextLength(T) \in FullLengths
       \/ /\ \E x \in rows[i].parts : x \in OpenEnd /\ \A y \in rows[i].parts : y[2] <= x[2]
          /\ \E x \in rows[j].parts : x \in LowStart /\ \A y \in rows[j].parts : x[2] <= y[2]

\* The rows of S in front of j, from the last one of P on
TextBefore(S, P, j) == {i \in S : i < j /\ \A p \in P : p <= i \/ j <= p}

\* reassemble_stored_messages: the rows of a batch that are reported themselves ...
Primaries(S) ==
  CHOOSE P \in SUBSET S : \A j \in S : j \in P <=> ~ReadsOn(TextBefore(S, P, j), j)

\* ... and the rows whose text is reported with that of i (ack_map).
Absorbed(S, i) ==
  {j \in S : i <= j /\ \A k \in Primaries(S) : k <= i \/ j < k}

\* Mutant of BeginReport: it waits for a full batch
BeginFullReport ==
  /\ pc = "idle" /\ Cardinality(Unprocessed) >= InboxLimit
  /\ batch' = Oldest(InboxLimit, Unprocessed)
  /\ pc' = "posting"
  /\ UNCHANGED <<providerVars, pollVars, rows, acked, known, unheeded, faults>>

BeginReport ==
  /\ pc = "idle" /\ Unprocessed # {}
  /\ batch' = Oldest(InboxLimit, Unprocessed)
  /\ pc' = "posting"
  /\ UNCHANGED <<providerVars, pollVars, rows, acked, known, unheeded, faults>>

\* Snippen keeps the first text it is given for a gateway_id
\* (docs/snippen_booking_api_spec.md:255).
Told(S) ==
  [i \in Row |-> IF i \in S /\ known[i] = {} THEN Absorbed(batch, i) ELSE known[i]]

\* Mutant of PostReport: a sent message is taken for an acknowledged one
PostUnheeded(S) ==
  /\ pc = "posting"
  /\ known' = Told(S)
  /\ acked' = batch
  /\ pc' = "marking"
  /\ UNCHANGED <<providerVars, pollVars, rows, batch, unheeded, faults>>

\* POST inbox: Snippen processes the messages S of the report and says so.
PostReport(S) ==
  /\ pc = "posting"
  /\ known' = Told(S)
  /\ acked' = UNION {Absorbed(batch, i) : i \in S}
  /\ pc' = "marking"
  /\ UNCHANGED <<providerVars, pollVars, rows, batch, unheeded, faults>>

\* The request fails, or Snippen processed S and the answer is lost.
PostFails(S) ==
  /\ pc = "posting"
  /\ known' = Told(S) /\ unheeded' = (unheeded \/ S # {})
  /\ batch' = {} /\ pc' = "idle"
  /\ UNCHANGED <<providerVars, pollVars, rows, acked, faults>>

\* The acknowledged rows are marked one by one, as Snippen lists them.
MarkProcessed ==
  /\ pc = "marking"
  /\ \E i \in acked :
       /\ rows' = [rows EXCEPT ![i].status = "processed"]
       /\ acked' = acked \ {i}
  /\ UNCHANGED <<providerVars, pollVars, pc, batch, known, unheeded, faults>>

EndReport ==
  /\ pc = "marking" /\ acked = {}
  /\ batch' = {} /\ pc' = "idle"
  /\ UNCHANGED <<providerVars, pollVars, rows, acked, known, unheeded, faults>>

\* mark_inbox_processed raises: the exception leaves sync_all.
MarkFails ==
  /\ pc = "marking" /\ acked # {} /\ Fault
  /\ batch' = {} /\ acked' = {} /\ pc' = "idle"
  /\ unheeded' = TRUE
  /\ UNCHANGED <<providerVars, pollVars, rows, known>>

-----------------------------------------------------------------------------
(* The daemon dies, with all it has in memory, and is started again.       *)

Crash ==
  /\ pc # "off" /\ Fault
  /\ buffers' = [k \in Keys |-> Empty] /\ ready' = <<>>
  /\ batch' = {} /\ acked' = {} /\ pc' = "off"
  /\ unheeded' = (unheeded \/ acked # {})
  /\ UNCHANGED <<providerVars, rows, known>>

Start ==
  /\ pc = "off" /\ pc' = "idle"
  /\ UNCHANGED <<providerVars, pollVars, rows, reportVars, faults>>

Store == SkipItem \/ StoreItem \/ StoreFails \/ LookupFails

Report ==
  \/ BeginReport \/ MarkProcessed \/ EndReport \/ MarkFails
  \/ \E S \in SUBSET Primaries(batch) : PostReport(S) \/ PostFails(S)

Next ==
  \/ \E x \in Segment : Arrive(x)
  \/ Poll \/ Store \/ Report \/ Crash \/ Start

Spec == Init /\ [][Next]_vars

\* The loop polls and reports in turn; Snippen acknowledges each message it is
\* told of again and again.  Polls go on until every buffer has timed out.
Acknowledge(i) ==
  \E S \in SUBSET Primaries(batch) :
    PostReport(S) /\ \E j \in S : i \in Absorbed(batch, j)

Fairness ==
  /\ WF_vars(Start) /\ SF_vars(Poll)
  /\ SF_vars(Poll /\ \A k \in Keys : buffers'[k].parts # {} => buffers'[k].fresh)
  /\ WF_vars(SkipItem \/ StoreItem)
  /\ SF_vars(BeginReport) /\ WF_vars(MarkProcessed \/ EndReport)
  /\ \A i \in Row : SF_vars(Acknowledge(i))

FairSpec == Spec /\ Fairness

-----------------------------------------------------------------------------

\* One customer's text is never joined with another's, whatever it reads like.
TextsStayApart == \A j \in Row : \A i \in known[j] : SenderOf(i) = SenderOf(j)

\* A segment is stored in one row at most, although the provider may list it at every
\* poll, a restart empties the buffers, and a timeout breaks messages up; unless the
\* provider lists it again and the row it is in began with a segment without an id,
\* which is stored anew at every poll.  A row is (part of) one message, in whatever
\* order segments arrive, and one customer's text is never reported as part of another's.
TextsAreWhole ==
  /\ \A i, j \in DOMAIN rows :
       i # j /\ (drains \/ rows[i].id \in WithId) => rows[i].parts \cap rows[j].parts = {}
  /\ \A i \in DOMAIN rows : \A x, y \in rows[i].parts : x[1] = y[1]
  /\ TextsStayApart

\* Without a fault nothing a draining provider handed out is gone.
NothingDroppedQuietly ==
  faults = 0 =>
    \A x \in sent : \/ x \in ToSet(held)
                    \/ \E k \in Keys : x \in buffers[k].parts
                    \/ \E i \in DOMAIN ready : x \in ready[i].parts
                    \/ \E i \in DOMAIN rows : x \in rows[i].parts

Held(i) == \E j \in Row : i \in known[j]

\* A row is marked processed only when Snippen holds its text, under its own id or
\* that of a row it was joined with, as long as every answer is acted upon.
ProcessedIsHeld ==
  ~unheeded => \A i \in DOMAIN rows : rows[i].status = "processed" => Held(i)

\* Of each message whose segments the provider keeps listing, some part is stored
\* in the end, whatever fails meanwhile and however few of them arrive.
EverySmsStored ==
  \A x \in Segment :
    x \in sent /\ ~drains ~> \E i \in DOMAIN rows : \E y \in rows[i].parts : y[1] = x[1]

\* Every stored row is processed in the end.
EveryRowProcessed ==
  \A i \in Row :
    i \in DOMAIN rows ~> i \in DOMAIN rows /\ rows[i].status = "processed"
=============================================================================
