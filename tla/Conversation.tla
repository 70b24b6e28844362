----------------------------- MODULE Conversation -----------------------------
(***************************************************************************)
(* The conversation with one customer: BookingContextResolver (context.py) *)
(* decides which booking an inbound SMS is about.  It runs on every SMS    *)
(* when it is ingested (gateway.py) and again, before every report to      *)
(* Snippen, on those that still have no booking (sync.py).                 *)
(*                                                                         *)
(* Only the daemon runs the resolver and never awaits inside it, so one    *)
(* call is one step; but it writes the database several times, and an      *)
(* exception or a crash leaves the writes made so far.                     *)
(***************************************************************************)
EXTENDS Integers, Sequences, SequencesExt

CONSTANTS
  Booking,    \* booking ids
  NoBooking,
  Answers,    \* what the booking lookup may return: sequences sorted by start
  Replies,    \* the option numbers bodies parse as, 0 for any other text
  Ttl,        \* conversation_ttl_seconds
  MaxTime,    \* bound: latest created_at of a message
  MaxMsg,     \* bound: inbound messages
  MaxFault    \* bound: resolutions cut short by a crash or an exception

ASSUME ConversationAssumption ==
  /\ NoBooking \notin Booking
  /\ Answers \subseteq Seq(Booking)
  /\ Replies \subseteq Nat
  /\ {Ttl, MaxTime, MaxMsg, MaxFault} \subseteq Nat

Msg == 1..MaxMsg

VARIABLES
  status,   \* messages.status: "absent" before it is saved
  at,       \* messages.created_at
  says,     \* parse_selection of messages.body
  db,       \* what the resolver writes: booking_id per message, the
            \* conversation context, and the options of the last prompt enqueued
  told,     \* the booking_id Snippen was told with a message, "never" before
  todo,     \* messages sync_inbox has yet to resolve, in the order of their ids
  pc,       \* "idle", "resolving" (inside sync_inbox)
  cuts,     \* history: resolutions cut short by a crash, or at ingestion
  errors    \* history: resolutions that raised inside sync_inbox

msgVars == <<status, at, says>>
vars == <<msgVars, db, told, todo, pc, cuts, errors>>

Fresh(t) ==
  [state |-> "idle", options |-> <<>>, pending |-> 0, active |-> NoBooking, last |-> t]

Init ==
  /\ status = [m \in Msg |-> "absent"]
  /\ at = [m \in Msg |-> 0]
  /\ says = [m \in Msg |-> 0]
  /\ db = [booking |-> [m \in Msg |-> NoBooking],
           ctx |-> [Fresh(0) EXCEPT !.state = "absent"],
           prompt |-> <<>>]
  /\ told = [m \in Msg |-> "never"]
  /\ todo = {}
  /\ pc = "idle"
  /\ cuts = 0 /\ errors = 0

TypeOK ==
  /\ status \in [Msg -> {"absent", "received", "processed"}]
  /\ at \in [Msg -> 0..MaxTime] /\ says \in [Msg -> Replies \cup {0}]
  /\ db.booking \in [Msg -> Booking \cup {NoBooking}]
  /\ db.ctx.state \in {"absent", "idle", "awaiting", "resolved"}
  /\ db.ctx.options \in Answers \cup {<<>>} /\ db.prompt \in Answers \cup {<<>>}
  /\ db.ctx.pending \in {0} \cup Msg /\ db.ctx.active \in Booking \cup {NoBooking}
  /\ db.ctx.last \in 0..MaxTime
  /\ told \in [Msg -> Booking \cup {NoBooking, "never"}]
  /\ todo \subseteq Msg /\ pc \in {"idle", "resolving"}

-----------------------------------------------------------------------------
(* resolve_incoming_message.  Each operator below gives the contents of the *)
(* database after each of the writes that one path of it makes, in order.   *)

Context(d, c) == [d EXCEPT !.ctx = c]
Book(d, m, b) == [d EXCEPT !.booking[m] = b]

\* The context at the time of message x: created, or reset when its session ended.
Opened(x, c) ==
  IF c.state = "absent" \/ x.at - c.last > Ttl THEN Fresh(x.at) ELSE c

Chooses(x, c) == c.state = "awaiting" /\ x.says \in 1..Len(c.options)

Touched(x, c) == [c EXCEPT !.last = x.at]

\* Mutant of Settled: the message asked about stays pending
SettledPending(x, b) ==
  [state |-> "resolved", options |-> <<>>, pending |-> x.id, active |-> b, last |-> x.at]

Settled(x, b) ==
  [state |-> "resolved", options |-> <<>>, pending |-> 0, active |-> b, last |-> x.at]

\* The customer answered the prompt: the reply, then the message the prompt was
\* about, then the context.
Selection(d, x) ==
  LET c  == d.ctx
      b  == c.options[x.says]
      d1 == Book(d, x.id, b)
      d2 == IF c.pending # 0 THEN Book(d1, c.pending, b) ELSE d1
  IN  <<d, d1, d2, Context(d2, Settled(x, b))>>

Continuation(d, x) ==
  LET d1 == Book(d, x.id, d.ctx.active)
  IN  <<d, d1, Context(d1, Touched(x, d.ctx))>>

\* No booking is known, or the lookup failed.
NoCandidate(d, x) ==
  LET d1 == Book(d, x.id, NoBooking)
  IN  <<d, d1, Context(d1, [Touched(x, d.ctx) EXCEPT !.state = "idle"])>>

\* Mutant of OneCandidate: the list of candidates is stored, not the one in it
CandidateList(d, x, b) ==
  LET d1 == Book(d, x.id, <<b>>)
  IN  <<d, d1, Context(d1, Settled(x, b))>>

OneCandidate(d, x, b) ==
  LET d1 == Book(d, x.id, b)
  IN  <<d, d1, Context(d1, Settled(x, b))>>

\* The customer is asked to choose.
SeveralCandidates(d, x, found) ==
  LET d1 == Book(d, x.id, NoBooking)
      d2 == Context(d1, [state |-> "awaiting", options |-> found, pending |-> x.id,
                         active |-> d.ctx.active, last |-> x.at])
  IN  <<d, d1, d2, [d2 EXCEPT !.prompt = found]>>

Writes(x, found) ==
  LET d == Context(db, Opened(x, db.ctx))
  IN  CASE Chooses(x, d.ctx)         -> Selection(d, x)
        [] d.ctx.state = "resolved"  -> Continuation(d, x)
        [] OTHER -> CASE Len(found) = 0 -> NoCandidate(d, x)
                      [] Len(found) = 1 -> OneCandidate(d, x, found[1])
                      [] OTHER          -> SeveralCandidates(d, x, found)

Resolve(x, found) == db' = Last(Writes(x, found))

\* What an exception or a crash on the way may leave
ResolvePartly(x, found) ==
  \/ UNCHANGED db
  \/ \E d \in ToSet(Front(Writes(x, found))) : db' = d

-----------------------------------------------------------------------------
(* poll_incoming_messages: one SMS is saved, then resolved.                *)

\* Mutant of Save: an SMS listed again is not looked up
SaveAgain(x) ==
  /\ pc = "idle"
  /\ \A q \in Msg : q < x.id => status[q] # "absent"
  /\ status' = [status EXCEPT ![x.id] = "received"]
  /\ at' = [at EXCEPT ![x.id] = x.at]
  /\ says' = [says EXCEPT ![x.id] = x.says]

\* The next SMS x of this customer is saved as RECEIVED.
Save(x) ==
  /\ pc = "idle" /\ status[x.id] = "absent"
  /\ \A q \in Msg : q < x.id => status[q] # "absent"
  /\ status' = [status EXCEPT ![x.id] = "received"]
  /\ at' = [at EXCEPT ![x.id] = x.at]
  /\ says' = [says EXCEPT ![x.id] = x.says]

Ingest(x, found) ==
  /\ Save(x) /\ Resolve(x, found)
  /\ UNCHANGED <<told, todo, pc, cuts, errors>>

\* The resolver raises, which is logged, or the daemon dies and is restarted.
IngestCut(x, found) ==
  /\ Save(x) /\ ResolvePartly(x, found)
  /\ cuts + errors < MaxFault /\ cuts' = cuts + 1
  /\ UNCHANGED <<told, todo, pc, errors>>

-----------------------------------------------------------------------------
(* sync_inbox                                                              *)

Stored(m) == [id |-> m, at |-> at[m], says |-> says[m]]

Unprocessed == {m \in Msg : status[m] = "received"}

\* Mutant of SyncBegin: nothing is resolved before it is reported
SyncBeginUnresolved ==
  /\ pc = "idle" /\ Unprocessed # {}
  /\ todo' = {}
  /\ pc' = "resolving"
  /\ UNCHANGED <<msgVars, db, told, cuts, errors>>

\* Mutant of SyncBegin: messages already reported are resolved again
SyncBeginAll ==
  /\ pc = "idle" /\ Unprocessed # {}
  /\ todo' = {m \in Msg : status[m] # "absent"}
  /\ pc' = "resolving"
  /\ UNCHANGED <<msgVars, db, told, cuts, errors>>

\* The messages without a booking are chosen here, once; each is resolved below
\* even if an earlier one of them settled it meanwhile.
SyncBegin ==
  /\ pc = "idle" /\ Unprocessed # {}
  /\ todo' = {m \in Unprocessed : db.booking[m] = NoBooking}
  /\ pc' = "resolving"
  /\ UNCHANGED <<msgVars, db, told, cuts, errors>>

First(m) == m \in todo /\ \A k \in todo : m <= k

SyncResolve(found) ==
  /\ pc = "resolving"
  /\ \E m \in todo : First(m) /\ Resolve(Stored(m), found) /\ todo' = todo \ {m}
  /\ UNCHANGED <<msgVars, told, pc, cuts, errors>>

\* A resolution that raises here is logged too, and the message reported anyway.
SyncResolveFails(found) ==
  /\ pc = "resolving"
  /\ \E m \in todo : First(m) /\ ResolvePartly(Stored(m), found) /\ todo' = todo \ {m}
  /\ cuts + errors < MaxFault /\ errors' = errors + 1
  /\ UNCHANGED <<msgVars, told, pc, cuts>>

SyncCrash(found) ==
  /\ pc = "resolving"
  /\ UNCHANGED db \/ \E m \in todo : First(m) /\ ResolvePartly(Stored(m), found)
  /\ todo' = {} /\ pc' = "idle"
  /\ cuts + errors < MaxFault /\ cuts' = cuts + 1
  /\ UNCHANGED <<msgVars, told, errors>>

\* The booking of each message is read again and reported with it.  Of the messages in
\* kept Snippen keeps what it is given first (docs/snippen_booking_api_spec.md:255).
Reported(kept) ==
  [m \in Msg |-> IF m \in kept /\ told[m] = "never" THEN db.booking[m] ELSE told[m]]

\* Snippen processes some of the report and acknowledges it; a crash while the
\* acknowledged messages are marked leaves fewer marked.
Report ==
  /\ pc = "resolving" /\ todo = {}
  /\ \E kept \in SUBSET Unprocessed : \E acked \in SUBSET kept :
       /\ told' = Reported(kept)
       /\ status' = [m \in Msg |-> IF m \in acked THEN "processed" ELSE status[m]]
  /\ pc' = "idle"
  /\ UNCHANGED <<at, says, db, todo, cuts, errors>>

\* The request fails, or its answer is lost.
ReportFails ==
  /\ pc = "resolving" /\ todo = {}
  /\ \E kept \in SUBSET Unprocessed : told' = Reported(kept)
  /\ pc' = "idle"
  /\ UNCHANGED <<msgVars, db, todo, cuts, errors>>

SMS == [id : Msg, at : 0..MaxTime, says : Replies]

Next ==
  \/ \E x \in SMS, found \in Answers : Ingest(x, found) \/ IngestCut(x, found)
  \/ SyncBegin
  \/ \E found \in Answers :
       SyncResolve(found) \/ SyncResolveFails(found) \/ SyncCrash(found)
  \/ Report \/ ReportFails

Spec == Init /\ [][Next]_vars

-----------------------------------------------------------------------------

\* Whatever is cut short, a settled conversation has exactly one booking and an
\* open one has the options and the message it is about, which has no booking yet.
ContextConsistent ==
  /\ db.ctx.state = "awaiting" =>
       /\ Len(db.ctx.options) >= 2 /\ db.ctx.pending # 0
       /\ errors + cuts = 0 => db.booking[db.ctx.pending] = NoBooking
  /\ db.ctx.state = "resolved" =>
       db.ctx.active # NoBooking /\ db.ctx.options = <<>> /\ db.ctx.pending = 0

\* A customer whose answer is awaited was asked about these very options, or will
\* be when the message is resolved again before its report, unless its booking was
\* found on the way.
PromptRetried ==
  db.ctx.state = "awaiting" /\ errors = 0 =>
    \/ db.prompt = db.ctx.options
    \/ db.booking[db.ctx.pending] # NoBooking
    \/ status[db.ctx.pending] = "received"

\* The booking Snippen was told with a message, in whichever report it took up first,
\* stays the message's booking here, as long as no resolution is cut short.
ToldIsKept ==
  \A m \in Msg :
    told[m] \notin {NoBooking, "never"} /\ errors + cuts = 0 => db.booking[m] = told[m]

\* A booking found for a message is never changed or taken away, but by the one
\* resolution that sync_inbox decided on when the message still had none.
BookingIsFinal ==
  [][\A m \in Msg :
       db.booking[m] # NoBooking /\ db'.booking[m] # db.booking[m] /\ errors + cuts = 0
         => First(m)]_vars
=============================================================================
