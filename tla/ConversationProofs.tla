-------------------------- MODULE ConversationProofs --------------------------
(***************************************************************************)
(* The resolver's promises, for any messages, bookings, answers of the     *)
(* booking lookup, and any number of resolutions cut short.                *)
(***************************************************************************)
EXTENDS Conversation, TLAPS

-----------------------------------------------------------------------------
(* What the resolver writes.                                               *)

Option == Booking \cup {NoBooking}
Ctx == [state : {"absent", "idle", "awaiting", "resolved"},
        options : Answers \cup {<<>>}, pending : {0} \cup Msg,
        active : Option, last : 0..MaxTime]
Db == [booking : [Msg -> Option], ctx : Ctx, prompt : Answers \cup {<<>>}]
Incoming == [id : Msg, at : 0..MaxTime, says : Nat]

\* A conversation is settled on a booking, or open with options and a message.
Sound(c) ==
  /\ c.state = "awaiting" => Len(c.options) >= 2 /\ c.pending # 0
  /\ c.state = "resolved" => c.active # NoBooking /\ c.options = <<>> /\ c.pending = 0

Good == {d \in Db : Sound(d.ctx)}

\* Bookings that differ are those of x or of the message a prompt was about.
BooksFor(x, d) ==
  \A m \in Msg : d.booking[m] # db.booking[m]
    => m = x.id \/ (db.ctx.state = "awaiting" /\ m = db.ctx.pending)

\* While an answer is awaited, the customer has been asked, or x is to be asked about,
\* or it was so before and what was booked meanwhile is booked.
Asks(x, d) ==
  d.ctx.state = "awaiting" =>
    \/ d.prompt = d.ctx.options
    \/ d.ctx.pending = x.id /\ d.booking[x.id] = NoBooking
    \/ /\ d.ctx = db.ctx /\ d.prompt = db.prompt
       /\ \A m \in Msg : d.booking[m] # db.booking[m] => m = x.id \/ d.booking[m] # NoBooking

\* What the database may hold after some of the writes for message x ...
Outcome(x, d) ==
  /\ d \in Good /\ BooksFor(x, d) /\ Asks(x, d)
  /\ d.ctx.pending \in {0, x.id, db.ctx.pending}

\* ... and after all of them.
Completed(x, d) ==
  d.ctx.state = "awaiting" =>
    d.prompt = d.ctx.options /\ d.ctx.pending = x.id /\ d.booking[x.id] = NoBooking

\* Sequences of three and of four writes.
LEMMA ThreeWrites ==
  ASSUME NEW a, NEW b, NEW c
  PROVE  Last(<<a, b, c>>) = c /\ ToSet(Front(<<a, b, c>>)) \subseteq {a, b}
<1>1. Last(<<a, b, c>>) = c
  BY DEF Last
<1>2. /\ Front(<<a, b, c>>) = SubSeq(<<a, b, c>>, 1, 2)
  BY DEF Front
<1>3. \A i \in DOMAIN SubSeq(<<a, b, c>>, 1, 2) : SubSeq(<<a, b, c>>, 1, 2)[i] \in {a, b}
  OBVIOUS
<1> QED
  BY <1>1, <1>2, <1>3 DEF ToSet

LEMMA FourWrites ==
  ASSUME NEW a, NEW b, NEW c, NEW e
  PROVE  Last(<<a, b, c, e>>) = e /\ ToSet(Front(<<a, b, c, e>>)) \subseteq {a, b, c}
<1>1. Last(<<a, b, c, e>>) = e
  BY DEF Last
<1>2. Front(<<a, b, c, e>>) = SubSeq(<<a, b, c, e>>, 1, 3)
  BY DEF Front
<1>3. \A i \in DOMAIN SubSeq(<<a, b, c, e>>, 1, 3) :
        SubSeq(<<a, b, c, e>>, 1, 3)[i] \in {a, b, c}
  OBVIOUS
<1> QED
  BY <1>1, <1>2, <1>3 DEF ToSet

\* The context a resolution starts from is the old one or a fresh one.
LEMMA OpenedIsOutcome ==
  ASSUME db \in Good, NEW x \in Incoming, NEW d, d = Context(db, Opened(x, db.ctx))
  PROVE  /\ d \in Good /\ d.booking = db.booking /\ d.prompt = db.prompt
         /\ d.ctx = db.ctx \/ (d.ctx.state = "idle" /\ d.ctx.pending = 0)
         /\ Outcome(x, d)
<1>1. db \in Db /\ db.ctx \in Ctx /\ Sound(db.ctx)
  BY DEF Good, Db
<1>2. Fresh(x.at) \in Ctx /\ Fresh(x.at).state = "idle" /\ Fresh(x.at).pending = 0
  BY DEF Fresh, Ctx, Option, Incoming
<1>3. Sound(Fresh(x.at))
  BY DEF Fresh, Sound
<1>4. Opened(x, db.ctx) \in Ctx /\ Sound(Opened(x, db.ctx))
      /\ (Opened(x, db.ctx) = db.ctx \/ (/\ Opened(x, db.ctx).state = "idle"
                                         /\ Opened(x, db.ctx).pending = 0))
  BY <1>1, <1>2, <1>3 DEF Opened
<1>5. d = [booking |-> db.booking, ctx |-> Opened(x, db.ctx), prompt |-> db.prompt]
  BY <1>1 DEF Context, Db
<1>6. d \in Good /\ d.booking = db.booking /\ d.prompt = db.prompt
      /\ (d.ctx = db.ctx \/ (d.ctx.state = "idle" /\ d.ctx.pending = 0))
  BY <1>1, <1>4, <1>5 DEF Good, Db
<1>7. Outcome(x, d)
  BY <1>6 DEF Outcome, BooksFor, Asks
<1> QED
  BY <1>6, <1>7

\* The two kinds of writes.
LEMMA WritesTyped ==
  ASSUME NEW d \in Db, NEW c \in Ctx, NEW m \in Msg, NEW b \in Option
  PROVE  /\ Context(d, c) \in Db /\ Context(d, c).ctx = c
         /\ Context(d, c).booking = d.booking /\ Context(d, c).prompt = d.prompt
         /\ Book(d, m, b) \in Db /\ Book(d, m, b).ctx = d.ctx
         /\ Book(d, m, b).prompt = d.prompt
         /\ Book(d, m, b).booking[m] = b
         /\ \A k \in Msg : k # m => Book(d, m, b).booking[k] = d.booking[k]
<1>1. Context(d, c) = [booking |-> d.booking, ctx |-> c, prompt |-> d.prompt]
  BY DEF Context, Db
<1>2. Book(d, m, b) = [booking |-> [d.booking EXCEPT ![m] = b], ctx |-> d.ctx,
                       prompt |-> d.prompt]
  BY DEF Book, Db
<1>3. [d.booking EXCEPT ![m] = b] \in [Msg -> Option]
  BY DEF Db
<1> QED
  BY <1>1, <1>2, <1>3 DEF Db

LEMMA AnswersAreBookings ==
  ASSUME NEW s \in Answers \cup {<<>>}
  PROVE  Len(s) \in Nat /\ \A i \in 1..Len(s) : s[i] \in Booking
BY ConversationAssumption

\* A path of the resolver ends in an outcome that is complete, and leaves outcomes on
\* the way.
Path(x, writes) ==
  /\ \A w \in ToSet(Front(writes)) : Outcome(x, w)
  /\ Outcome(x, Last(writes)) /\ Completed(x, Last(writes))

LEMMA SettledIsSound ==
  ASSUME NEW x \in Incoming, NEW b \in Booking
  PROVE  /\ Settled(x, b) \in Ctx /\ Sound(Settled(x, b))
         /\ Settled(x, b).state = "resolved" /\ Settled(x, b).pending = 0
<1>1. b \in Option /\ b # NoBooking /\ x.at \in 0..MaxTime
  BY ConversationAssumption DEF Option, Incoming
<1> QED
  BY <1>1 DEF Settled, Ctx, Sound

LEMMA SelectionPath ==
  ASSUME db \in Good, NEW x \in Incoming, NEW d, d = Context(db, Opened(x, db.ctx)),
         Chooses(x, d.ctx)
  PROVE  Path(x, Selection(d, x))
<1> DEFINE c  == d.ctx
           b  == c.options[x.says]
           d1 == Book(d, x.id, b)
           d2 == IF c.pending # 0 THEN Book(d1, c.pending, b) ELSE d1
           d3 == Context(d2, Settled(x, b))
<1>1. /\ d \in Good /\ d.booking = db.booking /\ d.prompt = db.prompt
      /\ d.ctx = db.ctx \/ (d.ctx.state = "idle" /\ d.ctx.pending = 0)
      /\ Outcome(x, d)
  BY OpenedIsOutcome
<1>2. d \in Db /\ c \in Ctx /\ Sound(c) /\ x.id \in Msg
  BY <1>1 DEF Good, Db, Incoming
<1>3. c.state = "awaiting" /\ c = db.ctx
  BY <1>1 DEF Chooses
<1>4. b \in Booking /\ b \in Option /\ b # NoBooking
  <2>1. c.options \in Answers \cup {<<>>} /\ x.says \in 1..Len(c.options)
    BY <1>2 DEF Chooses, Ctx
  <2> QED
    BY <2>1, AnswersAreBookings, ConversationAssumption DEF Option
<1> HIDE DEF b
<1>5. /\ d1 \in Db /\ d1.ctx = c /\ d1.prompt = db.prompt /\ d1.booking[x.id] = b
      /\ \A k \in Msg : k # x.id => d1.booking[k] = db.booking[k]
  BY <1>1, <1>2, <1>4, WritesTyped
<1> HIDE DEF d1
<1>6. /\ d2 \in Db /\ d2.ctx = c /\ d2.prompt = db.prompt
      /\ \A k \in Msg : d2.booking[k] # db.booking[k]
           => (k = x.id \/ k = c.pending) /\ d2.booking[k] = b
  <2>1. CASE c.pending = 0
    BY <1>5, <2>1
  <2>2. CASE c.pending # 0
    <3>1. c.pending \in Msg /\ d2 = Book(d1, c.pending, b)
      BY <1>2, <2>2 DEF Ctx
    <3> HIDE DEF d2, c
    <3> QED
      BY <1>2, <1>4, <1>5, <3>1, WritesTyped
  <2> QED
    BY <2>1, <2>2
<1> HIDE DEF d2
<1>7. Settled(x, b) \in Ctx /\ Sound(Settled(x, b))
      /\ Settled(x, b).state = "resolved" /\ Settled(x, b).pending = 0
  BY <1>2, <1>4, SettledIsSound
<1>8. d3 \in Db /\ d3.ctx = Settled(x, b) /\ d3.booking = d2.booking
  BY <1>4, <1>6, <1>7, <1>2, WritesTyped
<1> HIDE DEF d3
<1>9. Outcome(x, d1)
  BY <1>2, <1>3, <1>4, <1>5 DEF Outcome, Good, BooksFor, Asks
<1>10. Outcome(x, d2)
  BY <1>2, <1>3, <1>4, <1>6 DEF Outcome, Good, BooksFor, Asks
<1>11. Outcome(x, d3) /\ Completed(x, d3)
  BY <1>3, <1>6, <1>7, <1>8 DEF Outcome, Good, BooksFor, Asks, Completed
<1>12. Selection(d, x) = <<d, d1, d2, d3>>
  BY DEF Selection, b, d1, d2, d3
<1> HIDE DEF c
<1> QED
  BY <1>1, <1>9, <1>10, <1>11, <1>12, FourWrites DEF Path

\* The paths that book the message and then write the context.
LEMMA TwoWritesPath ==
  ASSUME db \in Good, NEW x \in Incoming, NEW d, d = Context(db, Opened(x, db.ctx)),
         NEW b \in Option, NEW c \in Ctx, Sound(c), c.state # "awaiting",
         c.pending \in {0, d.ctx.pending}
  PROVE  Path(x, <<d, Book(d, x.id, b), Context(Book(d, x.id, b), c)>>)
<1> DEFINE d1 == Book(d, x.id, b)
           d2 == Context(d1, c)
<1>1. /\ d \in Good /\ d.booking = db.booking /\ d.prompt = db.prompt
      /\ d.ctx = db.ctx \/ (d.ctx.state = "idle" /\ d.ctx.pending = 0)
      /\ Outcome(x, d)
  BY OpenedIsOutcome
<1>2. d \in Db /\ Sound(d.ctx) /\ x.id \in Msg
  BY <1>1 DEF Good, Incoming
<1>3. /\ d1 \in Db /\ d1.ctx = d.ctx /\ d1.prompt = db.prompt
      /\ \A k \in Msg : k # x.id => d1.booking[k] = db.booking[k]
  BY <1>1, <1>2, WritesTyped
<1> HIDE DEF d1
<1>4. d2 \in Db /\ d2.ctx = c /\ d2.booking = d1.booking
  BY <1>3, <1>2, WritesTyped
<1> HIDE DEF d2
<1>5. Outcome(x, d1)
  BY <1>1, <1>2, <1>3 DEF Outcome, Good, BooksFor, Asks
<1>6. Outcome(x, d2) /\ Completed(x, d2)
  BY <1>1, <1>3, <1>4 DEF Outcome, Good, BooksFor, Asks, Completed
<1>7. Path(x, <<d, d1, d2>>)
  BY <1>1, <1>5, <1>6, ThreeWrites DEF Path
<1> QED
  BY <1>7 DEF d1, d2

LEMMA SeveralPath ==
  ASSUME db \in Good, NEW x \in Incoming, NEW d, d = Context(db, Opened(x, db.ctx)),
         NEW found \in Answers, Len(found) >= 2
  PROVE  Path(x, SeveralCandidates(d, x, found))
<1> DEFINE c  == [state |-> "awaiting", options |-> found, pending |-> x.id,
                  active |-> d.ctx.active, last |-> x.at]
           d1 == Book(d, x.id, NoBooking)
           d2 == Context(d1, c)
           d3 == [d2 EXCEPT !.prompt = found]
<1>1. /\ d \in Good /\ d.booking = db.booking /\ d.prompt = db.prompt
      /\ d.ctx = db.ctx \/ (d.ctx.state = "idle" /\ d.ctx.pending = 0)
      /\ Outcome(x, d)
  BY OpenedIsOutcome
<1>2. d \in Db /\ d.ctx \in Ctx /\ Sound(d.ctx) /\ x.id \in Msg /\ x.id # 0
  BY <1>1 DEF Good, Db, Incoming, Msg
<1>4. c \in Ctx /\ Sound(c) /\ c.state = "awaiting" /\ c.options = found /\ c.pending = x.id
  BY <1>2 DEF Ctx, Sound, Incoming
<1> HIDE DEF c
<1>5. /\ d1 \in Db /\ d1.ctx = d.ctx /\ d1.prompt = db.prompt /\ d1.booking[x.id] = NoBooking
      /\ \A k \in Msg : k # x.id => d1.booking[k] = db.booking[k]
  BY <1>1, <1>2, WritesTyped DEF Option
<1> HIDE DEF d1
<1>6. d2 \in Db /\ d2.ctx = c /\ d2.booking = d1.booking
  BY <1>2, <1>4, <1>5, WritesTyped DEF Option
<1> HIDE DEF d2
<1>7. d3 = [booking |-> d2.booking, ctx |-> d2.ctx, prompt |-> found]
  BY <1>6 DEF Db
<1>8. d3 \in Db /\ d3.ctx = c /\ d3.booking = d1.booking /\ d3.prompt = found
  BY <1>6, <1>7 DEF Db
<1> HIDE DEF d3
<1>9. Outcome(x, d1)
  BY <1>1, <1>2, <1>5 DEF Outcome, Good, BooksFor, Asks
<1>10. Outcome(x, d2)
  BY <1>4, <1>5, <1>6 DEF Outcome, Good, BooksFor, Asks
<1>11. Outcome(x, d3) /\ Completed(x, d3)
  BY <1>4, <1>5, <1>8 DEF Outcome, Good, BooksFor, Asks, Completed
<1>12. SeveralCandidates(d, x, found) = <<d, d1, d2, d3>>
  BY DEF SeveralCandidates, c, d1, d2, d3
<1> QED
  BY <1>1, <1>9, <1>10, <1>11, <1>12, FourWrites DEF Path

LEMMA ResolverPath ==
  ASSUME db \in Good, NEW x \in Incoming, NEW found \in Answers
  PROVE  Path(x, Writes(x, found))
<1>1. PICK d : d = Context(db, Opened(x, db.ctx))
  OBVIOUS
<1>2. d \in Good /\ d.ctx \in Ctx /\ Sound(d.ctx)
  BY <1>1, OpenedIsOutcome DEF Good, Db
<1>3. x.at \in 0..MaxTime /\ Len(found) \in Nat /\ NoBooking \in Option /\ Booking \subseteq Option
  BY AnswersAreBookings DEF Incoming, Option
<1>4. CASE Chooses(x, d.ctx)
  <2>1. d.ctx.state # "resolved"
    BY <1>4 DEF Chooses
  <2>2. Writes(x, found) = Selection(d, x)
    BY <1>1, <1>4, <2>1 DEF Writes
  <2> QED
    BY <1>1, <1>4, <2>2, SelectionPath
<1>5. CASE ~Chooses(x, d.ctx) /\ d.ctx.state = "resolved"
  <2>1. Writes(x, found) = Continuation(d, x)
    BY <1>1, <1>5 DEF Writes
  <2>2. PICK c : c = Touched(x, d.ctx)
    OBVIOUS
  <2>3. c \in Ctx /\ Sound(c) /\ c.state = "resolved" /\ c.pending = d.ctx.pending
    BY <1>2, <1>3, <1>5, <2>2 DEF Ctx, Sound, Touched
  <2>4. d.ctx.active \in Option
    BY <1>2 DEF Ctx
  <2>5. Path(x, <<d, Book(d, x.id, d.ctx.active), Context(Book(d, x.id, d.ctx.active), c)>>)
    BY <1>1, <2>3, <2>4, TwoWritesPath
  <2> QED
    BY <2>1, <2>2, <2>5 DEF Continuation
<1>6. CASE ~Chooses(x, d.ctx) /\ d.ctx.state # "resolved" /\ Len(found) = 0
  <2>1. Writes(x, found) = NoCandidate(d, x)
    BY <1>1, <1>6 DEF Writes
  <2>2. PICK c : c = [Touched(x, d.ctx) EXCEPT !.state = "idle"]
    OBVIOUS
  <2>3. Touched(x, d.ctx) \in Ctx /\ Touched(x, d.ctx).pending = d.ctx.pending
    BY <1>2, <1>3 DEF Ctx, Touched
  <2>4. c \in Ctx /\ Sound(c) /\ c.state = "idle" /\ c.pending = d.ctx.pending
    BY <2>2, <2>3 DEF Ctx, Sound
  <2>5. Path(x, <<d, Book(d, x.id, NoBooking), Context(Book(d, x.id, NoBooking), c)>>)
    BY <1>1, <1>3, <2>4, TwoWritesPath
  <2> QED
    BY <2>1, <2>2, <2>5 DEF NoCandidate
<1>7. CASE ~Chooses(x, d.ctx) /\ d.ctx.state # "resolved" /\ Len(found) = 1
  <2>1. Writes(x, found) = OneCandidate(d, x, found[1])
    BY <1>1, <1>7 DEF Writes
  <2>2. PICK b \in Booking : b = found[1]
    BY <1>7, AnswersAreBookings
  <2>3. PICK c : c = Settled(x, b)
    OBVIOUS
  <2>4. c \in Ctx /\ Sound(c) /\ c.state = "resolved" /\ c.pending = 0
    BY <1>2, <2>3, SettledIsSound
  <2>5. Path(x, <<d, Book(d, x.id, b), Context(Book(d, x.id, b), c)>>)
    BY <1>1, <1>3, <2>4, TwoWritesPath
  <2> QED
    BY <2>1, <2>2, <2>3, <2>5 DEF OneCandidate
<1>8. CASE ~Chooses(x, d.ctx) /\ d.ctx.state # "resolved" /\ Len(found) >= 2
  <2>1. Writes(x, found) = SeveralCandidates(d, x, found)
    <3>1. PICK n \in Nat : n = Len(found)
      BY <1>3
    <3>2. Len(found) # 0 /\ Len(found) # 1
      BY <1>8, <3>1
    <3> QED
      BY <1>1, <1>8, <3>2 DEF Writes
  <2> QED
    BY <1>1, <1>8, <2>1, SeveralPath
<1>9. Len(found) = 0 \/ Len(found) = 1 \/ Len(found) >= 2
  <2>1. PICK n \in Nat : n = Len(found)
    BY <1>3
  <2> QED
    BY <2>1
<1> QED
  BY <1>4, <1>5, <1>6, <1>7, <1>8, <1>9

LEMMA ResolveOutcome ==
  ASSUME db \in Good, NEW x \in Incoming, NEW found \in Answers
  PROVE  /\ Resolve(x, found) => Outcome(x, db') /\ Completed(x, db')
         /\ ResolvePartly(x, found) => Outcome(x, db')
<1>1. Path(x, Writes(x, found))
  BY ResolverPath
<1>2. Outcome(x, db)
  BY DEF Outcome, Good, BooksFor, Asks
<1> QED
  BY <1>1, <1>2 DEF Path, Resolve, ResolvePartly

-----------------------------------------------------------------------------
(* The database between resolutions.                                       *)

Typed ==
  /\ db \in Good
  /\ status \in [Msg -> {"absent", "received", "processed"}]
  /\ at \in [Msg -> 0..MaxTime] /\ says \in [Msg -> Replies \cup {0}]
  /\ told \in [Msg -> Booking \cup {NoBooking, "never"}]
  /\ pc \in {"idle", "resolving"}
  /\ cuts \in Nat /\ errors \in Nat

\* What sync_inbox is about to resolve is not processed, and it resolves by itself.
Serial ==
  /\ todo \subseteq Unprocessed
  /\ pc = "idle" => todo = {}

\* A message that has not come is neither booked nor asked about.
Absence ==
  \A m \in Msg : status[m] = "absent" => db.booking[m] = NoBooking /\ db.ctx.pending # m

\* A message is asked about because it has no booking.
AskedIsOpen ==
  db.ctx.state = "awaiting" /\ errors + cuts = 0 => db.booking[db.ctx.pending] = NoBooking

\* Who has not been asked yet about a message without a booking will be in this report
\* or, outside of one, in the next.
PromptDue ==
  db.ctx.state = "awaiting" /\ errors = 0 =>
    \/ db.prompt = db.ctx.options
    \/ db.booking[db.ctx.pending] # NoBooking
    \/ /\ status[db.ctx.pending] = "received"
       /\ pc = "resolving" => db.ctx.pending \in todo

\* Snippen knows of what has come only, and of no booking of what is resolved again.
Untold ==
  /\ \A m \in Msg : status[m] = "absent" => told[m] = "never"
  /\ errors + cuts = 0 => \A m \in todo : told[m] \in {NoBooking, "never"}

ConvInv ==
  Typed /\ Serial /\ Absence /\ AskedIsOpen /\ PromptDue /\ Untold /\ ToldIsKept

LEMMA AwaitedIsMessage ==
  ASSUME db \in Good, db.ctx.state = "awaiting"
  PROVE  db.ctx.pending \in Msg
BY DEF Good, Db, Ctx, Sound

LEMMA ConvAtFirst == Init => ConvInv
<1> SUFFICES ASSUME Init PROVE ConvInv
  OBVIOUS
<1> DEFINE c == [Fresh(0) EXCEPT !.state = "absent"]
           none == [m \in Msg |-> NoBooking]
<1>1. /\ db = [booking |-> none, ctx |-> c, prompt |-> <<>>]
      /\ pc = "idle" /\ todo = {} /\ cuts = 0 /\ errors = 0
      /\ status = [m \in Msg |-> "absent"] /\ at = [m \in Msg |-> 0]
      /\ says = [m \in Msg |-> 0] /\ told = [m \in Msg |-> "never"]
  BY DEF Init
<1>2. MaxTime \in Nat
  BY ConversationAssumption
<1>3. c \in Ctx /\ c.state = "absent" /\ c.pending = 0
  BY <1>2 DEF Fresh, Ctx, Option
<1>4. none \in [Msg -> Option]
  BY DEF Option
<1> HIDE DEF c
<1>5. db \in Good /\ db.ctx.state = "absent" /\ db.ctx.pending = 0
      /\ \A m \in Msg : db.booking[m] = NoBooking
  BY <1>1, <1>3, <1>4 DEF Good, Db, Sound
<1>6. Typed
  BY <1>1, <1>2, <1>5 DEF Typed
<1>7. Absence
  BY <1>5 DEF Absence, Msg
<1> QED
  BY <1>1, <1>5, <1>6, <1>7 DEF ConvInv, Serial, AskedIsOpen, PromptDue, Untold, ToldIsKept

\* What is stored of a message is what came.
LEMMA StoredIsIncoming ==
  ASSUME Typed, NEW m \in Msg
  PROVE  Stored(m) \in Incoming /\ Stored(m).id = m
<1>1. at[m] \in 0..MaxTime
  BY DEF Typed
<1>2. says[m] \in Replies \cup {0}
  BY DEF Typed
<1>3. Replies \cup {0} \subseteq Nat
  BY ConversationAssumption
<1> QED
  BY <1>1, <1>2, <1>3 DEF Stored, Incoming

\* An SMS is saved, and resolved all or part of the way.
LEMMA IngestHolds ==
  ASSUME ConvInv, NEW x \in SMS, NEW found \in Answers,
         Ingest(x, found) \/ IngestCut(x, found)
  PROVE  ConvInv'
<1>1. x \in Incoming /\ x.id \in Msg
  BY ConversationAssumption DEF SMS, Incoming
<1>2. /\ pc = "idle" /\ pc' = "idle" /\ status[x.id] = "absent"
      /\ status' = [status EXCEPT ![x.id] = "received"]
      /\ at' = [at EXCEPT ![x.id] = x.at] /\ says' = [says EXCEPT ![x.id] = x.says]
      /\ UNCHANGED <<told, todo, errors>>
      /\ \/ Resolve(x, found) /\ cuts' = cuts
         \/ ResolvePartly(x, found) /\ cuts' = cuts + 1
  BY DEF Ingest, IngestCut, Save
<1>3. Typed /\ todo = {} /\ Absence
  BY <1>2 DEF ConvInv, Serial
<1>4. db \in Good /\ cuts \in Nat /\ errors \in Nat
  BY <1>3 DEF Typed
<1>5. /\ Outcome(x, db')
      /\ Completed(x, db') \/ cuts' = cuts + 1
  BY <1>1, <1>2, <1>4, ResolveOutcome
<1>6. Typed'
  BY <1>1, <1>2, <1>3, <1>5 DEF Typed, Outcome, SMS
<1>7. Serial'
  BY <1>2, <1>3 DEF Serial
<1>8. db.ctx.state = "awaiting" => db.ctx.pending \in Msg /\ status[db.ctx.pending] # "absent"
  BY <1>3, <1>4, AwaitedIsMessage DEF Absence
<1>9. Absence'
  <2> SUFFICES ASSUME NEW m \in Msg, status'[m] = "absent"
               PROVE  db'.booking[m] = NoBooking /\ db'.ctx.pending # m
    BY DEF Absence
  <2>1. m # x.id /\ status[m] = "absent"
    BY <1>1, <1>2, <1>3 DEF Typed
  <2>2. db.booking[m] = NoBooking /\ db.ctx.pending # m
    BY <1>3, <2>1 DEF Absence
  <2>3. db'.booking[m] = db.booking[m]
    BY <1>5, <1>8, <2>1 DEF Outcome, BooksFor
  <2>4. m # 0
    BY DEF Msg
  <2> QED
    BY <1>5, <2>1, <2>2, <2>3, <2>4 DEF Outcome
<1>10. AskedIsOpen'
  <2>1. cuts' = cuts + 1 => errors' + cuts' # 0
    BY <1>2, <1>4
  <2> QED
    BY <1>5, <2>1 DEF AskedIsOpen, Completed
<1>11. PromptDue'
  <2> SUFFICES ASSUME db'.ctx.state = "awaiting", errors' = 0,
                      db'.prompt # db'.ctx.options, db'.booking[db'.ctx.pending] = NoBooking
               PROVE  status'[db'.ctx.pending] = "received"
    BY <1>2 DEF PromptDue
  <2>1. CASE db'.ctx.pending = x.id
    BY <1>1, <1>2, <1>3, <2>1 DEF Typed
  <2>2. CASE db'.ctx.pending # x.id
    <3>1. /\ db'.ctx = db.ctx /\ db'.prompt = db.prompt
          /\ \A m \in Msg : db'.booking[m] # db.booking[m]
               => m = x.id \/ db'.booking[m] # NoBooking
      BY <1>5, <2>2 DEF Outcome, Asks
    <3>2. db.ctx.pending \in Msg /\ db.booking[db.ctx.pending] = NoBooking
      BY <1>8, <2>2, <3>1
    <3>3. status[db.ctx.pending] = "received"
      BY <1>2, <3>1, <3>2 DEF ConvInv, PromptDue
    <3> QED
      BY <1>2, <1>3, <2>2, <3>1, <3>2, <3>3 DEF Typed
  <2> QED
    BY <2>1, <2>2
<1>12. ToldIsKept'
  <2> SUFFICES ASSUME NEW m \in Msg, told'[m] \notin {NoBooking, "never"},
                      errors' + cuts' = 0
               PROVE  db'.booking[m] = told'[m]
    BY DEF ToldIsKept
  <2>1. m # x.id
    BY <1>2 DEF ConvInv, Untold
  <2>2. errors + cuts = 0
    BY <1>2, <1>4
  <2>3. db.booking[m] = told[m] /\ told[m] # NoBooking
    BY <1>2, <2>2 DEF ConvInv, ToldIsKept
  <2>4. ~(db.ctx.state = "awaiting" /\ m = db.ctx.pending)
    BY <2>2, <2>3 DEF ConvInv, AskedIsOpen
  <2> QED
    BY <1>2, <1>5, <2>1, <2>3, <2>4 DEF Outcome, BooksFor
<1>13. Untold'
  <2>1. \A m \in Msg : status'[m] = "absent" => status[m] = "absent"
    BY <1>1, <1>2, <1>3 DEF Typed
  <2> QED
    BY <1>2, <1>3, <2>1 DEF ConvInv, Untold
<1> QED
  BY <1>6, <1>7, <1>9, <1>10, <1>11, <1>12, <1>13 DEF ConvInv

\* What a resolution in sync_inbox leaves of the other conjuncts.
LEMMA SyncHolds ==
  ASSUME ConvInv, NEW m \in todo, NEW x \in Incoming, x.id = m, Outcome(x, db'),
         UNCHANGED <<msgVars, told>>,
         todo' \subseteq todo, pc' = pc \/ (pc' = "idle" /\ todo' = {}),
         pc = "resolving",
         \/ Completed(x, db') /\ UNCHANGED <<cuts, errors>>
         \/ errors' = errors + 1 /\ cuts' = cuts
         \/ cuts' = cuts + 1 /\ errors' = errors /\ pc' = "idle"
  PROVE  ConvInv'
<1>1. /\ Typed /\ Absence /\ db \in Good /\ cuts \in Nat /\ errors \in Nat
      /\ UNCHANGED <<status, at, says>>
  BY DEF ConvInv, Typed, msgVars
<1>2. m \in Msg /\ status[m] = "received"
  BY DEF ConvInv, Serial, Unprocessed
<1>3. Typed'
  BY <1>1 DEF Typed, Outcome
<1>4. Serial'
  BY <1>1 DEF ConvInv, Serial, Unprocessed
<1>5. db.ctx.state = "awaiting" => db.ctx.pending \in Msg /\ status[db.ctx.pending] # "absent"
  BY <1>1, AwaitedIsMessage DEF Absence
<1>6. Absence'
  <2> SUFFICES ASSUME NEW k \in Msg, status'[k] = "absent"
               PROVE  db'.booking[k] = NoBooking /\ db'.ctx.pending # k
    BY DEF Absence
  <2>1. k # m /\ db.booking[k] = NoBooking /\ db.ctx.pending # k
    BY <1>1, <1>2 DEF Absence
  <2>2. db'.booking[k] = db.booking[k]
    BY <1>1, <1>5, <2>1 DEF Outcome, BooksFor
  <2>3. k # 0
    BY DEF Msg
  <2> QED
    BY <2>1, <2>2, <2>3 DEF Outcome
<1>7. Completed(x, db') \/ errors' + cuts' # 0
  BY <1>1
<1>8. AskedIsOpen'
  BY <1>7 DEF AskedIsOpen, Completed
<1>9. PromptDue'
  <2> SUFFICES ASSUME db'.ctx.state = "awaiting", errors' = 0,
                      db'.prompt # db'.ctx.options, db'.booking[db'.ctx.pending] = NoBooking
               PROVE  status'[db'.ctx.pending] = "received" /\ pc' = "idle"
    BY DEF PromptDue
  <2>1. pc' = "idle" /\ errors = 0
    BY <1>1 DEF Completed
  <2>2. CASE db'.ctx.pending = x.id
    BY <1>1, <1>2, <2>1, <2>2
  <2>3. CASE db'.ctx.pending # x.id
    <3>1. /\ db'.ctx = db.ctx /\ db'.prompt = db.prompt
          /\ \A k \in Msg : db'.booking[k] # db.booking[k]
               => k = x.id \/ db'.booking[k] # NoBooking
      BY <2>3 DEF Outcome, Asks
    <3>2. db.ctx.pending \in Msg /\ db.booking[db.ctx.pending] = NoBooking
      BY <1>5, <2>3, <3>1
    <3> QED
      BY <1>1, <2>1, <3>1, <3>2 DEF ConvInv, PromptDue
  <2> QED
    BY <2>2, <2>3
<1>10. ToldIsKept'
  <2> SUFFICES ASSUME NEW k \in Msg, told'[k] \notin {NoBooking, "never"},
                      errors' + cuts' = 0
               PROVE  db'.booking[k] = told'[k]
    BY DEF ToldIsKept
  <2>0. errors + cuts = 0 /\ told[k] \notin {NoBooking, "never"}
    BY <1>1
  <2>1. k # m /\ errors + cuts = 0
    BY <2>0 DEF ConvInv, Untold
  <2>2. db.booking[k] = told[k] /\ told[k] # NoBooking
    BY <2>0 DEF ConvInv, ToldIsKept
  <2>3. ~(db.ctx.state = "awaiting" /\ k = db.ctx.pending)
    BY <2>1, <2>2 DEF ConvInv, AskedIsOpen
  <2> QED
    BY <2>1, <2>2, <2>3 DEF Outcome, BooksFor
<1>11. Untold'
  BY <1>1 DEF ConvInv, Untold
<1> QED
  BY <1>3, <1>4, <1>6, <1>8, <1>9, <1>10, <1>11 DEF ConvInv

LEMMA ResolvingHolds ==
  ASSUME ConvInv, NEW found \in Answers,
         SyncResolve(found) \/ SyncResolveFails(found) \/ SyncCrash(found)
  PROVE  ConvInv'
<1>1. Typed /\ db \in Good /\ todo \subseteq Msg /\ pc = "resolving" /\ UNCHANGED <<msgVars, told>>
  BY DEF ConvInv, Typed, Serial, Unprocessed, SyncResolve, SyncResolveFails, SyncCrash
<1>2. CASE SyncCrash(found) /\ UNCHANGED db
  <2>1. pc' = "idle" /\ todo' = {} /\ cuts' = cuts + 1 /\ errors' = errors
    BY <1>2 DEF SyncCrash
  <2>2. UNCHANGED <<db, status, at, says, told>>
    BY <1>1, <1>2 DEF msgVars
  <2>3. errors' + cuts' # 0
    BY <1>1, <2>1 DEF Typed
  <2>4. Typed' /\ Serial' /\ Absence' /\ AskedIsOpen' /\ PromptDue' /\ Untold'
    BY <1>1, <2>1, <2>2, <2>3 DEF ConvInv, Typed, Serial, Absence, AskedIsOpen, PromptDue, Untold
  <2> QED
    BY <2>3, <2>4 DEF ConvInv, ToldIsKept
<1>3. ASSUME NEW m \in todo,
             \/ Resolve(Stored(m), found) /\ SyncResolve(found) /\ todo' = todo \ {m}
             \/ ResolvePartly(Stored(m), found) /\ SyncResolveFails(found) /\ todo' = todo \ {m}
             \/ ResolvePartly(Stored(m), found) /\ SyncCrash(found)
      PROVE  ConvInv'
  <2>1. PICK x \in Incoming : x = Stored(m) /\ x.id = m
    BY <1>1, StoredIsIncoming
  <2>2. Outcome(x, db') /\ (SyncResolve(found) \/ SyncResolveFails(found) \/ SyncCrash(found))
    BY <1>1, <1>3, <2>1, ResolveOutcome
  <2>3. CASE SyncResolve(found) /\ Resolve(Stored(m), found) /\ todo' = todo \ {m}
    <3>1. Completed(x, db') /\ UNCHANGED <<pc, cuts, errors>>
      BY <1>1, <2>1, <2>3, ResolveOutcome DEF SyncResolve
    <3> QED
      BY <1>1, <2>1, <2>2, <2>3, <3>1, SyncHolds
  <2>4. CASE SyncResolveFails(found) /\ todo' = todo \ {m}
    <3>1. errors' = errors + 1 /\ UNCHANGED <<pc, cuts>>
      BY <2>4 DEF SyncResolveFails
    <3> QED
      BY <1>1, <2>1, <2>2, <2>4, <3>1, SyncHolds
  <2>5. CASE SyncCrash(found)
    <3>1. pc' = "idle" /\ todo' = {} /\ cuts' = cuts + 1 /\ errors' = errors
      BY <2>5 DEF SyncCrash
    <3> QED
      BY <1>1, <2>1, <2>2, <3>1, SyncHolds
  <2> QED
    BY <1>3, <2>3, <2>4, <2>5
<1> QED
  BY <1>2, <1>3 DEF SyncResolve, SyncResolveFails, SyncCrash

\* The report begins, and ends.
LEMMA ReportingHolds ==
  ASSUME ConvInv, SyncBegin \/ Report \/ ReportFails
  PROVE  ConvInv'
<1>1. /\ Typed /\ Serial /\ Absence /\ AskedIsOpen /\ PromptDue /\ Untold /\ ToldIsKept
      /\ UNCHANGED <<db, at, says, cuts, errors>>
  BY DEF ConvInv, SyncBegin, Report, ReportFails, msgVars
<1>2. /\ db.booking \in [Msg -> Option]
      /\ db.ctx.state = "awaiting" => db.ctx.pending \in Msg
  BY <1>1, AwaitedIsMessage DEF Typed, Good, Db
<1>3. CASE SyncBegin
  <2>1. /\ UNCHANGED <<status, told>> /\ pc' = "resolving"
        /\ todo' = {m \in Unprocessed : db.booking[m] = NoBooking}
    BY <1>3 DEF SyncBegin, msgVars
  <2>2. PromptDue'
    BY <1>1, <1>2, <2>1 DEF PromptDue, Unprocessed
  <2>3. Untold'
    BY <1>1, <2>1 DEF Untold, ToldIsKept, Unprocessed
  <2> QED
    BY <1>1, <2>1, <2>2, <2>3
       DEF ConvInv, Typed, Serial, Absence, AskedIsOpen, ToldIsKept, Unprocessed
<1>4. CASE Report \/ ReportFails
  <2>1. pc = "resolving" /\ todo = {} /\ pc' = "idle" /\ todo' = {}
    BY <1>4 DEF Report, ReportFails
  <2>2. /\ status' \in [Msg -> {"absent", "received", "processed"}]
        /\ \A m \in Msg : \/ status'[m] = status[m]
                          \/ status[m] = "received" /\ status'[m] = "processed"
    <3>1. CASE ReportFails
      BY <1>1, <3>1 DEF ReportFails, Typed, msgVars
    <3>2. CASE Report
      <4>1. PICK acked \in SUBSET Unprocessed :
              status' = [m \in Msg |-> IF m \in acked THEN "processed" ELSE status[m]]
        BY <3>2 DEF Report
      <4> QED
        BY <1>1, <4>1 DEF Typed, Unprocessed
    <3> QED
      BY <1>4, <3>1, <3>2
  <2>3. /\ told' \in [Msg -> Booking \cup {NoBooking, "never"}]
        /\ \A m \in Msg : \/ told'[m] = told[m]
                          \/ status[m] = "received" /\ told'[m] = db.booking[m]
    <3>1. PICK kept \in SUBSET Unprocessed : told' = Reported(kept)
      BY <1>4 DEF Report, ReportFails
    <3> QED
      BY <1>1, <1>2, <3>1 DEF Reported, Typed, Option, Unprocessed
  <2>4. Typed' /\ Serial' /\ Absence' /\ AskedIsOpen'
    BY <1>1, <2>1, <2>2, <2>3 DEF Typed, Serial, Absence, AskedIsOpen
  <2>5. PromptDue'
    BY <1>1, <2>1 DEF PromptDue
  <2>6. Untold'
    BY <1>1, <2>1, <2>2, <2>3 DEF Untold
  <2>7. ToldIsKept'
    BY <1>1, <2>3 DEF ToldIsKept
  <2> QED
    BY <2>4, <2>5, <2>6, <2>7 DEF ConvInv
<1> QED
  BY <1>3, <1>4

LEMMA ConvPreserved == ConvInv /\ [Next]_vars => ConvInv'
<1> SUFFICES ASSUME ConvInv, [Next]_vars PROVE ConvInv'
  OBVIOUS
<1>1. CASE \E x \in SMS, found \in Answers : Ingest(x, found) \/ IngestCut(x, found)
  BY <1>1, IngestHolds
<1>2. CASE \E found \in Answers :
             SyncResolve(found) \/ SyncResolveFails(found) \/ SyncCrash(found)
  BY <1>2, ResolvingHolds
<1>3. CASE SyncBegin \/ Report \/ ReportFails
  BY <1>3, ReportingHolds
<1>4. CASE UNCHANGED vars
  BY <1>4 DEF vars, msgVars, ConvInv, Typed, Serial, Unprocessed, Absence, AskedIsOpen, PromptDue,
     Untold, ToldIsKept
<1> QED
  BY <1>1, <1>2, <1>3, <1>4 DEF Next

LEMMA ConvAlways == Spec => []ConvInv
<1> QED
  BY ConvAtFirst, ConvPreserved, PTL DEF Spec

-----------------------------------------------------------------------------
(* The theorems.                                                           *)

\* The resolver's variables keep their types, whatever is cut short.
THEOREM TypeCorrect == Spec => []TypeOK
<1>1. ConvInv => TypeOK
  BY DEF ConvInv, Typed, Serial, Unprocessed, Good, Db, Ctx, Option, TypeOK
<1> QED
  BY <1>1, ConvAlways, PTL

\* A settled conversation has exactly one booking, an open one has its options and the
\* message it is about (resolve_incoming_message writes them in one context).
THEOREM ContextStaysConsistent == Spec => []ContextConsistent
<1>1. ConvInv => ContextConsistent
  BY DEF ConvInv, Typed, Good, Sound, AskedIsOpen, ContextConsistent
<1> QED
  BY <1>1, ConvAlways, PTL

\* A customer whose answer is awaited was asked about these options or will be, for
\* any number of crashes between the context's write and the prompt's.
THEOREM PromptIsDue == Spec => []PromptRetried
<1>1. ConvInv => PromptRetried
  BY DEF ConvInv, PromptDue, PromptRetried
<1> QED
  BY <1>1, ConvAlways, PTL

\* The booking Snippen was told with a message, in whichever report it took up first, is
\* that message's booking, as long as no resolution is cut short (sync_inbox).
THEOREM ReportsStayTrue == Spec => []ToldIsKept
<1>1. ConvInv => ToldIsKept
  BY DEF ConvInv
<1> QED
  BY <1>1, ConvAlways, PTL

\* A booking found for a message is changed only by the resolution that sync_inbox
\* decided on when it had none.
THEOREM BookingsAreFinal == Spec => BookingIsFinal
<1> DEFINE Final ==
      \A m \in Msg :
        db.booking[m] # NoBooking /\ db'.booking[m] # db.booking[m] /\ errors + cuts = 0
          => First(m)
<1>1. ConvInv /\ [Next]_vars => Final
  <2> SUFFICES ASSUME ConvInv, [Next]_vars, NEW m \in Msg,
                      db.booking[m] # NoBooking, db'.booking[m] # db.booking[m],
                      errors + cuts = 0
               PROVE  First(m)
    OBVIOUS
  <2>1. Typed /\ Absence /\ db \in Good /\ todo \subseteq Msg
    BY DEF ConvInv, Typed, Serial, Unprocessed
  <2>2. ~(db.ctx.state = "awaiting" /\ m = db.ctx.pending)
    BY DEF ConvInv, AskedIsOpen
  <2>3. ASSUME NEW x \in Incoming, NEW found \in Answers,
               Resolve(x, found) \/ ResolvePartly(x, found)
        PROVE  m = x.id
    BY <2>1, <2>2, <2>3, ResolveOutcome DEF Outcome, BooksFor
  <2>4. CASE \E x \in SMS, found \in Answers : Ingest(x, found) \/ IngestCut(x, found)
    <3>1. PICK x \in SMS, found \in Answers : Ingest(x, found) \/ IngestCut(x, found)
      BY <2>4
    <3>2. x \in Incoming
      BY ConversationAssumption DEF SMS, Incoming
    <3>3. m = x.id
      BY <2>3, <3>1, <3>2 DEF Ingest, IngestCut
    <3>4. status[x.id] = "absent"
      BY <3>1 DEF Ingest, IngestCut, Save
    <3> QED
      BY <2>1, <3>3, <3>4 DEF Absence
  <2>5. CASE \E found \in Answers :
               SyncResolve(found) \/ SyncResolveFails(found) \/ SyncCrash(found)
    <3>1. PICK found \in Answers, k \in todo :
            First(k) /\ (Resolve(Stored(k), found) \/ ResolvePartly(Stored(k), found))
      BY <2>5 DEF SyncResolve, SyncResolveFails, SyncCrash
    <3>2. PICK x \in Incoming : x = Stored(k) /\ x.id = k
      BY <2>1, <3>1, StoredIsIncoming
    <3> QED
      BY <2>3, <3>1, <3>2
  <2>6. CASE UNCHANGED db
    BY <2>6
  <2> QED
    BY <2>4, <2>5, <2>6 DEF Next, SyncBegin, Report, ReportFails, vars
<1>2. ConvInv /\ [Next]_vars => [Final]_vars
  BY <1>1
<1> QED
  BY <1>2, ConvAlways, PTL DEF Spec, BookingIsFinal

=============================================================================
