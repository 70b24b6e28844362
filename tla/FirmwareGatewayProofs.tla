------------------------ MODULE FirmwareGatewayProofs ------------------------
(***************************************************************************)
(* However many messages, segments, callers and faults there are: an SMS   *)
(* that came in is lost, and one is sent or forwarded twice, only for a    *)
(* reason that is counted, and what Snippen is told is true.               *)
(***************************************************************************)
EXTENDS FirmwareGateway, FiniteSetTheorems, SequenceTheorems, WellFoundedInduction, TLAPS

-----------------------------------------------------------------------------
(* Segments: on the SIM, in the driver, with Snippen.                      *)

\* Where segments are, and how often Snippen has them.
Places ==
  /\ sim \subseteq Segment /\ coming \subseteq Segment /\ hand \subseteq Segment
  /\ buffers \subseteq Segment /\ texts \subseteq Segment
  /\ copies \in [Segment -> Nat] /\ undeleted \in [Segment -> Nat]

\* Segments are in hand only while they are deleted, and in texts only while those
\* are forwarded; what is still to be deleted is in hand and on the SIM.
Reading ==
  /\ pc # "deleting" => hand = {}
  /\ pc # "forwarding" => texts = {}
  /\ todo \subseteq hand \cap sim
  /\ coming \cap sim = {}

One(P) == IF P THEN 1 ELSE 0

\* A segment is in one place, but for the times it could not be deleted: one that
\* is to be deleted is not counted on the SIM.
Occurrences(x) ==
  copies[x] + One(x \in coming) + One(x \in sim \ todo) + One(x \in hand)
            + One(x \in buffers) + One(x \in texts)

SegmentInv ==
  /\ Places /\ Reading
  /\ NothingLostQuietly
  /\ \A x \in Segment : Occurrences(x) <= 1 + undeleted[x]

\* A step that leaves segments where they are.
LEMMA SegmentsStay ==
  ASSUME SegmentInv,
         UNCHANGED <<sim, coming, hand, todo, buffers, texts, copies, lost, undeleted>>,
         pc \in {"deleting", "forwarding"} => pc' = pc
  PROVE  SegmentInv'
<1>1. Places' /\ Reading'
  BY DEF SegmentInv, Places, Reading
<1>2. NothingLostQuietly'
  BY DEF SegmentInv, NothingLostQuietly, InDriver
<1>3. ASSUME NEW x \in Segment PROVE Occurrences(x)' <= 1 + undeleted'[x]
  BY DEF SegmentInv, Occurrences
<1> QED
  BY <1>1, <1>2, <1>3 DEF SegmentInv

\* A segment arrives on the SIM.
LEMMA WritesSegments ==
  ASSUME SegmentInv, NEW x \in Segment, Writes(x)
  PROVE  SegmentInv'
<1>1. /\ x \in coming /\ coming' = coming \ {x} /\ sim' = sim \cup {x}
      /\ UNCHANGED <<pc, hand, todo, buffers, texts, copies, lost, undeleted>>
  BY DEF Writes, Arrive, reading, task, snippen, history
<1>2. Places' /\ Reading'
  BY <1>1 DEF SegmentInv, Places, Reading
<1>3. NothingLostQuietly'
  BY <1>1 DEF SegmentInv, NothingLostQuietly, InDriver
<1>4. ASSUME NEW y \in Segment PROVE Occurrences(y)' <= 1 + undeleted'[y]
  <2>1. One(y \in coming') + One(y \in sim' \ todo') <= One(y \in coming) + One(y \in sim \ todo)
    BY <1>1 DEF SegmentInv, Reading, One
  <2> QED
    BY <1>1, <2>1 DEF SegmentInv, Places, Occurrences, One
<1> QED
  BY <1>2, <1>3, <1>4 DEF SegmentInv

\* The segments that are readable are in hand, and to be deleted.
LEMMA ReadSegments ==
  ASSUME SegmentInv, ReadInbox
  PROVE  SegmentInv'
<1>1. /\ hand' \subseteq sim /\ todo' = hand' /\ pc' = "deleting" /\ pc \in {"idle", "listing"}
      /\ UNCHANGED <<sim, coming, buffers, texts, copies, lost, undeleted>>
  BY DEF ReadInbox, ListSim, Goto, task, snippen, history
<1>2. hand = {} /\ todo = {} /\ texts = {}
  BY <1>1 DEF SegmentInv, Reading
<1>3. Places' /\ Reading'
  BY <1>1, <1>2 DEF SegmentInv, Places, Reading
<1>4. NothingLostQuietly'
  BY <1>1, <1>2 DEF SegmentInv, NothingLostQuietly, InDriver
<1>5. ASSUME NEW y \in Segment PROVE Occurrences(y)' <= 1 + undeleted'[y]
  <2>1. One(y \in hand') + One(y \in sim' \ todo') <= One(y \in hand) + One(y \in sim \ todo)
    BY <1>1, <1>2 DEF One
  <2> QED
    BY <1>1, <2>1 DEF SegmentInv, Places, Occurrences, One
<1> QED
  BY <1>3, <1>4, <1>5 DEF SegmentInv

\* One of them is deleted, or stays.
LEMMA DeleteSegments ==
  ASSUME SegmentInv, NEW x \in Segment, DeleteSegment(x)
  PROVE  SegmentInv'
<1>1. /\ pc = "deleting" /\ x \in todo /\ todo' = todo \ {x}
      /\ UNCHANGED <<pc, coming, hand, buffers, texts, copies, lost>>
  BY DEF DeleteSegment, DeleteSms, task, snippen, history
<1>2. x \in hand /\ x \in sim
  BY <1>1 DEF SegmentInv, Reading
<1>3. CASE sim' = sim \ {x} /\ undeleted' = undeleted
  <2>1. Places' /\ Reading'
    BY <1>1, <1>3 DEF SegmentInv, Places, Reading
  <2>2. NothingLostQuietly'
    BY <1>1, <1>2, <1>3 DEF SegmentInv, NothingLostQuietly, InDriver
  <2>3. sim' \ todo' = sim \ todo
    BY <1>1, <1>3
  <2>4. ASSUME NEW y \in Segment PROVE Occurrences(y)' <= 1 + undeleted'[y]
    BY <1>1, <1>3, <2>3 DEF SegmentInv, Occurrences
  <2> QED
    BY <2>1, <2>2, <2>4 DEF SegmentInv
<1>4. CASE sim' = sim /\ undeleted' = [undeleted EXCEPT ![x] = @ + 1]
  <2>1. Places' /\ Reading'
    BY <1>1, <1>4 DEF SegmentInv, Places, Reading
  <2>2. NothingLostQuietly'
    BY <1>1, <1>4 DEF SegmentInv, NothingLostQuietly, InDriver
  <2>3. ASSUME NEW y \in Segment PROVE Occurrences(y)' <= 1 + undeleted'[y]
    <3>1. CASE y = x
      BY <1>1, <1>2, <1>4, <3>1 DEF SegmentInv, Places, Occurrences, One
    <3>2. CASE y # x
      <4>1. (y \in sim' \ todo') <=> (y \in sim \ todo)
        BY <1>1, <1>4, <3>2
      <4> QED
        BY <1>1, <1>4, <3>2, <4>1 DEF SegmentInv, Places, Occurrences, One
    <3> QED
      BY <3>1, <3>2
  <2> QED
    BY <2>1, <2>2, <2>3 DEF SegmentInv
<1> QED
  BY <1>3, <1>4 DEF DeleteSegment, DeleteSms

\* What is in hand and in the buffers goes to the texts or stays in the buffers.
LEMMA AssembleSegments ==
  ASSUME SegmentInv, Reassemble
  PROVE  SegmentInv'
<1>1. /\ pc = "deleting" /\ todo = {} /\ todo' = {} /\ hand' = {} /\ pc' \in {"idle", "forwarding"}
      /\ pc' = "idle" => texts' = {}
      /\ UNCHANGED <<sim, coming, copies, lost, undeleted>>
  BY DEF Reassemble, Assemble, Goto, snippen, history
<1>2. texts = {}
  BY <1>1 DEF SegmentInv, Reading
<1>3. PICK alone \in SUBSET hand :
        LET got == buffers \cup (hand \ alone)
        IN /\ alone \subseteq texts' /\ texts' \subseteq alone \cup got
           /\ buffers' \subseteq got /\ got \subseteq texts' \cup buffers'
           /\ texts' \cap buffers' \subseteq alone
  <2>1. PICK alone \in IF asText THEN {{}, hand} ELSE {{}} :
          LET got == buffers \cup (hand \ alone)
          IN \E S : /\ texts' = alone \cup UNION {Of(s, got) : s \in S}
                    /\ buffers' = got \ UNION {Of(s, got) : s \in S}
    BY DEF Reassemble, Assemble
  <2>2. PICK S : LET got == buffers \cup (hand \ alone)
                 IN /\ texts' = alone \cup UNION {Of(s, got) : s \in S}
                    /\ buffers' = got \ UNION {Of(s, got) : s \in S}
    BY <2>1
  <2>3. UNION {Of(s, buffers \cup (hand \ alone)) : s \in S} \subseteq buffers \cup (hand \ alone)
    BY DEF Of
  <2> QED
    BY <2>1, <2>2, <2>3
<1>4. Places' /\ Reading'
  BY <1>1, <1>3 DEF SegmentInv, Places, Reading
<1>5. NothingLostQuietly'
  BY <1>1, <1>2, <1>3 DEF SegmentInv, NothingLostQuietly, InDriver
<1>6. ASSUME NEW y \in Segment PROVE Occurrences(y)' <= 1 + undeleted'[y]
  <2>1. One(y \in texts') + One(y \in buffers') <= One(y \in hand) + One(y \in buffers)
    BY <1>3 DEF One
  <2> QED
    BY <1>1, <1>2, <2>1 DEF SegmentInv, Places, Occurrences, One
<1> QED
  BY <1>4, <1>5, <1>6 DEF SegmentInv

\* What is forwarded is with Snippen, or known to be lost.
LEMMA ForwardSegments ==
  ASSUME SegmentInv, Forward
  PROVE  SegmentInv'
<1>1. /\ pc = "forwarding" /\ pc' = "idle" /\ texts' = {}
      /\ UNCHANGED <<sim, coming, hand, todo, buffers, undeleted>>
      /\ \/ /\ copies' = [x \in Segment |-> copies[x] + One(x \in texts)] /\ lost' = lost
         \/ lost' = lost \cup (texts \ sim) /\ copies' = copies
  BY DEF Forward, Goto, modemButFaults, reading, One
<1>2. Places' /\ Reading'
  BY <1>1 DEF SegmentInv, Places, Reading, One
<1>3. NothingLostQuietly'
  BY <1>1 DEF SegmentInv, Places, NothingLostQuietly, InDriver, One
<1>4. ASSUME NEW y \in Segment PROVE Occurrences(y)' <= 1 + undeleted'[y]
  BY <1>1 DEF SegmentInv, Places, Occurrences, One
<1> QED
  BY <1>2, <1>3, <1>4 DEF SegmentInv

\* A new driver has none of what the old one held.
LEMMA NewDriverSegments ==
  ASSUME SegmentInv, NewDriver, lost' = lost \cup InDriver, copies' = copies,
         pc' \notin {"deleting", "forwarding"}, texts' = {}
  PROVE  SegmentInv'
<1>1. hand' = {} /\ todo' = {} /\ buffers' = {} /\ UNCHANGED <<sim, coming, undeleted>>
  BY DEF NewDriver
<1>2. Places' /\ Reading'
  BY <1>1 DEF SegmentInv, Places, Reading
<1>3. NothingLostQuietly'
  BY <1>1 DEF SegmentInv, NothingLostQuietly, InDriver
<1>4. ASSUME NEW y \in Segment PROVE Occurrences(y)' <= 1 + undeleted'[y]
  <2>1. One(y \in sim' \ todo') <= One(y \in sim \ todo) + One(y \in hand)
    BY <1>1 DEF SegmentInv, Reading, One
  <2> QED
    BY <1>1, <2>1 DEF SegmentInv, Places, Occurrences, One
<1> QED
  BY <1>2, <1>3, <1>4 DEF SegmentInv

\* It holds initially: all segments are yet to come.
LEMMA InitSegmentInv == Init => SegmentInv
<1> SUFFICES ASSUME Init PROVE SegmentInv
  OBVIOUS
<1>1. Places /\ Reading /\ NothingLostQuietly
  BY DEF Init, ModemInit, Places, Reading, NothingLostQuietly
<1>2. ASSUME NEW x \in Segment PROVE Occurrences(x) <= 1 + undeleted[x]
  BY DEF Init, ModemInit, Occurrences, One
<1> QED
  BY <1>1, <1>2 DEF SegmentInv

\* So it is inductive: seven steps move segments.
LEMMA NextSegmentInv == SegmentInv /\ [Next]_vars => SegmentInv'
<1> SUFFICES ASSUME SegmentInv, [Next]_vars PROVE SegmentInv'
  OBVIOUS
<1> USE DEF modemVars, modemButFaults, modemButUart, uart, reading, sending, task, memory,
            snippen, history, Goto
<1>1. CASE Environment
  <2>1. CASE \E x \in Segment : Writes(x)
    BY <2>1, WritesSegments
  <2>2. CASE Reset
    BY <2>2, NewDriverSegments DEF Reset
  <2>3. CASE \E i \in Item : Offer(i)
    BY <2>3, SegmentsStay DEF Offer
  <2>4. CASE \E c \in Caller : Calls(c) \/ Elapse(c)
    BY <2>4, SegmentsStay DEF Calls, Ring, Elapse
  <2>5. CASE ModemHangs
    BY <2>5, SegmentsStay DEF ModemHangs, Hang
  <2> QED
    BY <1>1, <2>1, <2>2, <2>3, <2>4, <2>5 DEF Environment
<1>2. CASE Turn
  <2>1. CASE ReadInbox
    BY <2>1, ReadSegments
  <2>2. CASE PowerCycle
    <3>1. texts' = {}
      BY <2>2 DEF PowerCycle, SegmentInv, Reading
    <3> QED
      BY <2>2, <3>1, NewDriverSegments DEF PowerCycle
  <2>3. CASE \E S \in SUBSET Item : FetchOutbox(S)
    BY <2>3, SegmentsStay DEF FetchOutbox
  <2>4. CASE \E c \in Caller : PollCalls(c)
    BY <2>4, SegmentsStay DEF PollCalls
  <2>5. CASE PollNoCalls \/ PollSms \/ PollNoSms
    BY <2>5, SegmentsStay DEF PollNoCalls, PollSms, PollNoSms
  <2>6. CASE Heartbeat
    BY <2>6, SegmentsStay DEF Heartbeat, Ping
  <2> QED
    BY <1>2, <2>1, <2>2, <2>3, <2>4, <2>5, <2>6 DEF Turn
<1>3. CASE Task
  <2>1. CASE \E x \in Segment : DeleteSegment(x)
    BY <2>1, DeleteSegments
  <2>2. CASE Reassemble
    BY <2>2, AssembleSegments
  <2>3. CASE Forward
    BY <2>3, ForwardSegments
  <2>4. CASE Boot
    BY <2>4, SegmentsStay DEF Boot, Ping
  <2>5. CASE \E i \in Item : ReportAgain(i) \/ StartMessage(i)
    BY <2>5, SegmentsStay DEF ReportAgain, StartMessage
  <2>6. CASE Suspend \/ Report \/ BatchDone
    BY <2>6, SegmentsStay DEF Suspend, Report, BatchDone
  <2>7. CASE \E taken, confirmed \in BOOLEAN : Transmit(taken, confirmed)
    BY <2>7, SegmentsStay DEF Transmit, SendChunk
  <2>8. CASE SendAlert \/ SendReply \/ SkipAlert \/ SkipReply
    BY <2>8, SegmentsStay DEF SendAlert, SendReply, SkipAlert, SkipReply, SendAbout
  <2> QED
    BY <1>3, <2>1, <2>2, <2>3, <2>4, <2>5, <2>6, <2>7, <2>8 DEF Task
<1>4. CASE UNCHANGED vars
  BY <1>4, SegmentsStay DEF vars
<1> QED
  BY <1>1, <1>2, <1>3, <1>4 DEF Next

\* An SMS that came in is never lost but for a reason: a listing, a timeout of the
\* reassembler or an announcement overlooked is none.
THEOREM LossesAreKnown == Spec => []NothingLostQuietly
<1>1. SegmentInv => NothingLostQuietly
  BY DEF SegmentInv
<1> QED
  BY <1>1, InitSegmentInv, NextSegmentInv, PTL DEF Spec

-----------------------------------------------------------------------------
(* Chunks.                                                                 *)

\* A set of numbers from a to b that is not empty has a greatest.
LEMMA GreatestOf ==
  ASSUME NEW a \in Nat, NEW b \in Nat, NEW S \in SUBSET (a..b), S # {}
  PROVE  Greatest(S) \in S
<1> DEFINE T == {b - k : k \in S}
           R == OpToRel(<, Nat)
<1>1. T \subseteq Nat /\ T # {}
  OBVIOUS
<1>2. PICK x \in T : \A y \in T : <<y, x>> \notin R
  BY <1>1, WFMin, NatLessThanWellFounded
<1>3. \A y \in T : ~(y < x)
  BY <1>1, <1>2 DEF OpToRel
<1>4. PICK m \in S : x = b - m
  BY <1>2
<1>5. \A k \in S : k <= m
  <2> TAKE k \in S
  <2>1. ~(b - k < b - m)
    BY <1>3, <1>4
  <2> QED
    BY <2>1
<1> QED
  BY <1>4, <1>5 DEF Greatest

\* The next chunk begins where this one ends, and ends within the text.
LEMMA ChunkEnds ==
  ASSUME NEW t \in Text, NEW p \in 0..Len(Body[t])
  PROVE  LET chunk == ChunkEnd(Body[t], p)
         IN chunk.last = chunk.next /\ chunk.last \in p..Len(Body[t])
<1> DEFINE s == Body[t]
           E == {e \in p..Len(s) : Width(s, p + 1, e) <= Part}
           end == Greatest(E)
           spaces == {k \in (p + 2)..end : s[k] = Space}
<1>1. Len(s) \in Nat /\ p \in Nat
  BY ModemAssumption
<1>2. end \in E
  <2>1. (p + 1)..p = {} /\ {k \in (p + 1)..p : s[k] = Wide} = {}
    BY <1>1
  <2>2. Width(s, p + 1, p) = 0
    <3>1. Width(s, p + 1, p) = Cardinality((p + 1)..p) + Cardinality({k \in (p + 1)..p : s[k] = Wide})
      BY DEF Width
    <3>2. Cardinality((p + 1)..p) = 0 /\ Cardinality({k \in (p + 1)..p : s[k] = Wide}) = 0
      BY <2>1, FS_EmptySet
    <3> QED
      BY <3>1, <3>2
  <2>3. p \in E
    BY <1>1, <2>2, ModemAssumption
  <2> HIDE DEF s
  <2>4. E \in SUBSET (p..Len(s))
    OBVIOUS
  <2> QED
    BY <1>1, <2>3, <2>4, GreatestOf
<1>3. end \in p..Len(s)
  BY <1>2
<1> HIDE DEF end
<1>4. spaces # {} => Greatest(spaces) \in (p + 2)..end
  <2>1. spaces \in SUBSET ((p + 2)..end) /\ p + 2 \in Nat /\ end \in Nat
    BY <1>1, <1>3
  <2> HIDE DEF spaces
  <2> QED
    BY <2>1, GreatestOf
<1> DEFINE cut == IF Width(s, 1, Len(s)) <= Single \/ end = Len(s) THEN Len(s)
                  ELSE IF spaces # {} THEN Greatest(spaces) ELSE end
<1>5. ChunkEnd(s, p) = [last |-> cut, next |-> cut]
  BY DEF ChunkEnd, end
<1>6. cut \in p..Len(s)
  <2> HIDE DEF s, spaces
  <2> QED
    BY <1>1, <1>3, <1>4
<1> HIDE DEF cut
<1> QED
  BY <1>5, <1>6

-----------------------------------------------------------------------------
(* Messages: what was sent, what is remembered, what is told.              *)

Outbox ==
  /\ delivered \in [Text -> Nat] /\ unanswered \in [Text -> Nat]
  /\ resets \in Nat /\ forgotten \in Nat
  /\ recent \in Seq(Item) /\ batch \subseteq Item /\ job \in Text \cup {NoText}
  /\ told \in [Item -> {"absent", "pending", "sent", "failed"}]

\* What is being sent is not in the cache, and what was handed over of it is what
\* comes before pos.
Sending ==
  /\ pc = "sending" => job \in Text /\ pos \in 0..Len(Body[job]) /\ handed = SubSeq(Body[job], 1, pos)
  /\ pc = "sending" /\ job \in Item => ~InCache(job)
  /\ pc = "reporting" => job \in Item
  /\ pc \notin {"sending", "reporting"} => job = NoText

\* A message in the cache was taken whole; each time but that one has its cause.
Remembered ==
  \A i \in Item :
    /\ InCache(i) => delivered[i] > 0
    /\ delivered[i] <= One(InCache(i)) + unanswered[i] + resets + forgotten

\* Snippen waits for what is being handled, and is told of it what is so.
Told ==
  /\ \A i \in batch : told[i] = "pending" /\ i # job
  /\ job \in Item => told[job] = "pending"
  /\ pc = "reporting" => verdict = "failed" \/ (verdict = "sent" /\ delivered[job] > 0)

MessageInv == Outbox /\ Sending /\ Remembered /\ Told

\* An entry is recorded, or pushes out the oldest.
LEMMA RememberFacts ==
  ASSUME recent \in Seq(Item), forgotten \in Nat, NEW i \in Item, ~InCache(i), Remember(i)
  PROVE  /\ recent' \in Seq(Item)
         /\ \A j \in Item : InCache(j)' => InCache(j) \/ j = i
         /\ \/ forgotten' = forgotten /\ \A j \in Item : InCache(j) \/ j = i => InCache(j)'
            \/ forgotten' = forgotten + 1
<1> DEFINE longer == Append(recent, i)
           In(q, j) == \E k \in 1..Len(q) : q[k] = j
<1>1. /\ longer \in Seq(Item) /\ longer # <<>> /\ Len(longer) = Len(recent) + 1
      /\ longer[Len(recent) + 1] = i /\ \A k \in 1..Len(recent) : longer[k] = recent[k]
      /\ Len(recent) \in Nat
  BY AppendProperties, LenProperties
<1>2. \/ recent' = longer /\ forgotten' = forgotten
      \/ recent' = Tail(longer) /\ forgotten' = forgotten + 1
  BY DEF Remember
<1>3. \A j : In(longer, j) <=> In(recent, j) \/ j = i
  BY <1>1
<1>4. \A j : InCache(j) <=> In(recent, j)
  BY LenProperties DEF InCache
<1> HIDE DEF longer
<1>5. CASE recent' = longer /\ forgotten' = forgotten
  <2>1. \A j : InCache(j)' <=> In(longer, j)
    BY <1>1, <1>5, LenProperties DEF InCache
  <2> QED
    BY <1>1, <1>3, <1>4, <1>5, <2>1
<1>6. CASE recent' = Tail(longer) /\ forgotten' = forgotten + 1
  <2>1. /\ Tail(longer) \in Seq(Item) /\ Len(Tail(longer)) = Len(longer) - 1
        /\ \A k \in 1..Len(Tail(longer)) : Tail(longer)[k] = longer[k + 1]
    BY <1>1, HeadTailProperties
  <2>2. \A j : InCache(j)' <=> In(Tail(longer), j)
    BY <1>6, <2>1, LenProperties DEF InCache
  <2>3. \A j : In(Tail(longer), j) => In(longer, j)
    <3> TAKE j
    <3> SUFFICES ASSUME NEW k \in 1..Len(Tail(longer)), Tail(longer)[k] = j PROVE In(longer, j)
      OBVIOUS
    <3>1. k + 1 \in 1..Len(longer) /\ longer[k + 1] = j
      BY <1>1, <2>1
    <3> QED
      BY <3>1
  <2> QED
    BY <1>3, <1>4, <1>6, <2>1, <2>2, <2>3
<1> QED
  BY <1>2, <1>5, <1>6

\* A chunk that is confirmed continues what was handed over; the last one that is
\* completes the text, which then was taken whole.
LEMMA ChunkFacts ==
  ASSUME MessageInv, pc = "sending", NEW taken \in BOOLEAN, NEW confirmed \in BOOLEAN,
         SendChunk(job, taken, confirmed)
  PROVE  /\ confirmed => pos' \in 0..Len(Body[job]) /\ handed' = SubSeq(Body[job], 1, pos')
         /\ confirmed /\ LastChunk(job) =>
               delivered' = [delivered EXCEPT ![job] = @ + 1] /\ unanswered' = unanswered
         /\ ~(confirmed /\ LastChunk(job)) =>
               \/ delivered' = delivered /\ unanswered' = unanswered
               \/ /\ delivered' = [delivered EXCEPT ![job] = @ + 1]
                  /\ unanswered' = [unanswered EXCEPT ![job] = @ + 1]
<1> DEFINE s == Body[job]
           chunk == ChunkEnd(s, pos)
           got == IF taken THEN handed \o SubSeq(s, pos + 1, chunk.last) ELSE handed
           whole == taken /\ chunk.next = Len(s) /\ got = s
<1>1. /\ job \in Text /\ s \in Seq(Char) /\ Len(s) \in Nat
      /\ pos \in 0..Len(s) /\ handed = SubSeq(s, 1, pos)
  BY ModemAssumption DEF MessageInv, Sending
<1>2. chunk.last = chunk.next /\ chunk.last \in pos..Len(s)
  BY <1>1, ChunkEnds
<1>3. /\ confirmed => taken
      /\ pos' = chunk.next /\ handed' = got
      /\ delivered' = IF whole THEN [delivered EXCEPT ![job] = @ + 1] ELSE delivered
      /\ unanswered' = IF whole /\ ~confirmed THEN [unanswered EXCEPT ![job] = @ + 1] ELSE unanswered
  BY DEF SendChunk
<1>4. LastChunk(job) <=> chunk.next = Len(s)
  BY DEF LastChunk
<1> HIDE DEF chunk, s
<1>5. taken => got = SubSeq(s, 1, chunk.last)
  BY <1>1, <1>2, ConcatAdjacentSubSeq
<1>6. taken /\ chunk.last = Len(s) => got = s
  BY <1>1, <1>5, SubSeqFull
<1> HIDE DEF got
<1>7. confirmed => pos' \in 0..Len(s) /\ handed' = SubSeq(s, 1, pos')
  BY <1>1, <1>2, <1>3, <1>5
<1> QED
  BY <1>2, <1>3, <1>4, <1>6, <1>7 DEF s

\* A step of the sending of a text.
LEMMA TransmitMessages ==
  ASSUME MessageInv, NEW taken \in BOOLEAN, NEW confirmed \in BOOLEAN, Transmit(taken, confirmed)
  PROVE  MessageInv'
<1> DEFINE ok == confirmed /\ LastChunk(job)
<1>1. /\ pc = "sending" /\ job \in Text /\ SendChunk(job, taken, confirmed)
      /\ UNCHANGED <<batch, told, resets>>
  BY DEF Transmit, snippen, MessageInv, Sending
<1>2. /\ confirmed => pos' \in 0..Len(Body[job]) /\ handed' = SubSeq(Body[job], 1, pos')
      /\ ok => delivered' = [delivered EXCEPT ![job] = @ + 1] /\ unanswered' = unanswered
      /\ ~ok => \/ delivered' = delivered /\ unanswered' = unanswered
                \/ /\ delivered' = [delivered EXCEPT ![job] = @ + 1]
                   /\ unanswered' = [unanswered EXCEPT ![job] = @ + 1]
  BY <1>1, ChunkFacts
<1>3. /\ delivered \in [Text -> Nat] /\ unanswered \in [Text -> Nat]
      /\ delivered' \in [Text -> Nat] /\ unanswered' \in [Text -> Nat]
      /\ Item \subseteq Text /\ NoText \notin Text
  BY <1>1, <1>2, GatewayAssumption DEF MessageInv, Outbox
<1>4. CASE ok /\ job \in Item
  <2>1. /\ pc' = "reporting" /\ job' = job /\ verdict' = "sent" /\ Remember(job)
    BY <1>1, <1>4 DEF Transmit, Goto
  <2>2. ~InCache(job) /\ recent \in Seq(Item) /\ forgotten \in Nat /\ resets \in Nat
    BY <1>1, <1>4 DEF MessageInv, Sending, Outbox
  <2>3. /\ recent' \in Seq(Item)
        /\ \A j \in Item : InCache(j)' => InCache(j) \/ j = job
        /\ \/ forgotten' = forgotten /\ \A j \in Item : InCache(j) \/ j = job => InCache(j)'
           \/ forgotten' = forgotten + 1
    BY <1>4, <2>1, <2>2, RememberFacts
  <2>4. Outbox'
    BY <1>1, <1>3, <2>1, <2>2, <2>3 DEF MessageInv, Outbox
  <2>5. Sending'
    BY <1>4, <2>1 DEF Sending
  <2>6. Told'
    BY <1>1, <1>2, <1>3, <1>4, <2>1 DEF MessageInv, Told
  <2>7. ASSUME NEW i \in Item
        PROVE  /\ InCache(i)' => delivered'[i] > 0
               /\ delivered'[i] <= One(InCache(i))' + unanswered'[i] + resets' + forgotten'
    <3>1. CASE i = job
      BY <1>1, <1>2, <1>3, <1>4, <2>2, <2>3, <3>1 DEF MessageInv, Remembered, One
    <3>2. CASE i # job
      <4>1. delivered'[i] = delivered[i] /\ unanswered'[i] = unanswered[i] /\ resets' = resets
        BY <1>1, <1>2, <1>3, <1>4, <3>2
      <4>2. /\ delivered[i] \in Nat /\ unanswered[i] \in Nat
            /\ InCache(i) => delivered[i] > 0
            /\ delivered[i] <= One(InCache(i)) + unanswered[i] + resets + forgotten
        BY <1>3 DEF MessageInv, Remembered
      <4>3. CASE forgotten' = forgotten /\ (InCache(i)' <=> InCache(i))
        BY <4>1, <4>2, <4>3 DEF One
      <4>4. CASE forgotten' = forgotten + 1 /\ (InCache(i)' => InCache(i))
        BY <2>2, <4>1, <4>2, <4>4 DEF One
      <4> QED
        BY <2>3, <3>2, <4>3, <4>4
    <3> QED
      BY <3>1, <3>2
  <2> QED
    BY <2>4, <2>5, <2>6, <2>7 DEF MessageInv, Remembered
<1>5. CASE ~(ok /\ job \in Item)
  <2>1. UNCHANGED <<recent, forgotten>>
    BY <1>5 DEF Transmit
  <2>2. Outbox'
    BY <1>1, <1>3, <1>5, <2>1 DEF Transmit, MessageInv, Outbox
  <2>3. Remembered'
    <3> SUFFICES ASSUME NEW i \in Item
                 PROVE  /\ InCache(i)' => delivered'[i] > 0
                        /\ delivered'[i] <= One(InCache(i))' + unanswered'[i] + resets' + forgotten'
      BY DEF Remembered
    <3>1. InCache(i)' <=> InCache(i)
      BY <2>1 DEF InCache
    <3>2. \/ delivered'[i] = delivered[i] /\ unanswered'[i] = unanswered[i]
          \/ delivered'[i] = delivered[i] + 1 /\ unanswered'[i] = unanswered[i] + 1
      BY <1>2, <1>3, <1>5
    <3> QED
      BY <1>1, <1>3, <2>1, <3>1, <3>2 DEF MessageInv, Remembered, Outbox, One
  <2>4. CASE ~confirmed \/ LastChunk(job)
    <3>1. \/ pc' = "reporting" /\ job \in Item /\ job' = job /\ verdict' = "failed"
          \/ pc' \in {"replying", "idle"} /\ job' = NoText
      BY <1>5, <2>4 DEF Transmit, Goto
    <3>2. Sending'
      BY <3>1, <1>3 DEF Sending
    <3>3. Told'
      BY <1>1, <1>3, <3>1 DEF MessageInv, Told, Outbox
    <3> QED
      BY <2>2, <2>3, <3>2, <3>3 DEF MessageInv
  <2>5. CASE confirmed /\ ~LastChunk(job)
    <3>1. UNCHANGED <<pc, job, verdict>>
      BY <2>5 DEF Transmit
    <3>2. Sending'
      BY <1>1, <1>2, <2>1, <2>5, <3>1 DEF MessageInv, Sending, InCache
    <3>3. Told'
      BY <1>1, <3>1 DEF MessageInv, Told
    <3> QED
      BY <2>2, <2>3, <3>2, <3>3 DEF MessageInv
  <2> QED
    BY <2>4, <2>5
<1> QED
  BY <1>4, <1>5

\* A step that leaves alone what is sent and told.
LEMMA MessagesStay ==
  ASSUME MessageInv,
         UNCHANGED <<delivered, unanswered, resets, forgotten, recent, batch, job, told>>,
         \/ pc' \notin {"sending", "reporting"} /\ pc \notin {"sending", "reporting"}
         \/ UNCHANGED <<pc, pos, handed, verdict>>
  PROVE  MessageInv'
<1>1. Remembered'
  BY DEF MessageInv, Remembered, InCache
<1>2. Sending'
  BY DEF MessageInv, Sending, InCache
<1> QED
  BY <1>1, <1>2 DEF MessageInv, Outbox, Told

\* A text is begun.
LEMMA StartMessages ==
  ASSUME MessageInv, pc \notin {"sending", "reporting"}, pc' = "sending", StartText, job' \in Text,
         job' \in Item => ~InCache(job') /\ job' \in batch,
         batch' = batch \ {job'}, UNCHANGED <<resets, forgotten, recent, told>>
  PROVE  MessageInv'
<1>1. Outbox'
  BY DEF StartText, MessageInv, Outbox
<1>2. Remembered'
  BY DEF StartText, MessageInv, Remembered, InCache
<1>3. Body[job'] \in Seq(Char) /\ SubSeq(Body[job'], 1, 0) = <<>> /\ Len(Body[job']) \in Nat
  BY ModemAssumption, SubSeqEmpty
<1>4. Sending'
  BY <1>3, GatewayAssumption DEF StartText, Sending, InCache
<1>5. Told'
  BY DEF MessageInv, Told
<1> QED
  BY <1>1, <1>2, <1>4, <1>5 DEF MessageInv

\* A report settles what Snippen waits for, or is lost.
LEMMA SettleMessages ==
  ASSUME MessageInv, NEW i \in Item, NEW v \in {"sent", "failed"}, Settle(i, v),
         UNCHANGED <<delivered, unanswered, resets, forgotten, recent>>,
         \/ i = job /\ batch' = batch /\ job' = NoText /\ pc' = "batch"
         \/ i \in batch /\ batch' = batch \ {i} /\ job' = job /\ pc' = pc /\ pc = "batch"
  PROVE  MessageInv'
<1>1. told' \in [Item -> {"absent", "pending", "sent", "failed"}]
  BY DEF Settle, MessageInv, Outbox
<1>2. \A k \in Item : k # i => told'[k] = told[k]
  BY DEF Settle, MessageInv, Outbox
<1>3. Outbox'
  BY <1>1, GatewayAssumption DEF MessageInv, Outbox
<1>4. Remembered'
  BY DEF MessageInv, Remembered, InCache
<1>5. Sending'
  BY DEF MessageInv, Sending
<1>6. Told'
  BY <1>2, GatewayAssumption DEF MessageInv, Outbox, Sending, Told
<1> QED
  BY <1>3, <1>4, <1>5, <1>6 DEF MessageInv

\* It holds initially.
LEMMA InitMessageInv == Init => MessageInv
<1> SUFFICES ASSUME Init PROVE MessageInv
  OBVIOUS
<1>1. Outbox
  BY EmptySeq DEF Init, ModemInit, Outbox
<1>2. Remembered /\ Sending /\ Told
  BY GatewayAssumption DEF Init, ModemInit, Remembered, InCache, Sending, Told, One
<1> QED
  BY <1>1, <1>2 DEF MessageInv

\* Snippen asks for a message; nothing it waits for is concerned.
LEMMA OfferMessages ==
  ASSUME MessageInv, NEW i \in Item, Offer(i)
  PROVE  MessageInv'
<1>1. /\ told[i] # "pending" /\ told' = [told EXCEPT ![i] = "pending"]
      /\ UNCHANGED <<delivered, unanswered, resets, forgotten, recent, batch, job, pc, pos, handed, verdict>>
  BY DEF Offer, modemVars, sending, task, memory, history
<1>2. Outbox' /\ Told'
  BY <1>1 DEF MessageInv, Outbox, Told
<1>3. Remembered' /\ Sending'
  BY <1>1 DEF MessageInv, Remembered, Sending, InCache
<1> QED
  BY <1>2, <1>3 DEF MessageInv

\* A reset forgets what was sent, and is counted.
LEMMA ResetMessages ==
  ASSUME MessageInv, Reset
  PROVE  MessageInv'
<1>1. /\ pc' = "off" /\ resets' = resets + 1 /\ recent' = <<>> /\ batch' = {} /\ job' = NoText
      /\ UNCHANGED <<delivered, unanswered, forgotten, told>>
  BY DEF Reset, NewDriver, Goto, snippen
<1>2. Outbox'
  BY <1>1, EmptySeq DEF MessageInv, Outbox
<1>3. \A i \in Item : ~InCache(i)'
  BY <1>1 DEF InCache
<1>4. Remembered'
  <2> SUFFICES ASSUME NEW i \in Item
               PROVE  delivered'[i] <= One(InCache(i))' + unanswered'[i] + resets' + forgotten'
    BY <1>3 DEF Remembered
  <2>1. delivered[i] \in Nat /\ unanswered[i] \in Nat
    BY GatewayAssumption DEF MessageInv, Outbox
  <2> QED
    BY <1>1, <1>3, <2>1 DEF MessageInv, Outbox, Remembered, One
<1>5. Sending' /\ Told'
  BY <1>1, GatewayAssumption DEF Sending, Told
<1> QED
  BY <1>2, <1>4, <1>5 DEF MessageInv

\* So it is inductive.
LEMMA NextMessageInv == MessageInv /\ [Next]_vars => MessageInv'
<1> SUFFICES ASSUME MessageInv, [Next]_vars PROVE MessageInv'
  OBVIOUS
<1> USE DEF modemVars, modemButFaults, modemButUart, uart, reading, sending, task, memory,
            snippen, history, Goto
<1>1. CASE Environment
  <2>1. CASE \E i \in Item : Offer(i)
    BY <2>1, OfferMessages
  <2>2. CASE Reset
    BY <2>2, ResetMessages
  <2>3. CASE \E x \in Segment : Writes(x)
    BY <2>3, MessagesStay DEF Writes, Arrive
  <2>4. CASE \E c \in Caller : Calls(c) \/ Elapse(c)
    BY <2>4, MessagesStay DEF Calls, Ring, Elapse
  <2>5. CASE ModemHangs
    BY <2>5, MessagesStay DEF ModemHangs, Hang
  <2> QED
    BY <1>1, <2>1, <2>2, <2>3, <2>4, <2>5 DEF Environment
<1>2. CASE Turn
  <2>1. CASE \E S \in SUBSET Item : FetchOutbox(S)
    <3>1. PICK S \in SUBSET Item : FetchOutbox(S)
      BY <2>1
    <3>2. /\ pc' = "batch" /\ pc = "idle" /\ batch' = S /\ \A i \in S : told[i] = "pending"
          /\ UNCHANGED <<delivered, unanswered, resets, forgotten, recent, job, told>>
      BY <3>1 DEF FetchOutbox
    <3>3. Outbox' /\ Sending' /\ Told'
      BY <3>2, GatewayAssumption DEF MessageInv, Outbox, Sending, Told
    <3>4. Remembered'
      BY <3>2 DEF MessageInv, Remembered, InCache
    <3> QED
      BY <3>3, <3>4 DEF MessageInv
  <2>2. CASE ReadInbox
    BY <2>2, MessagesStay DEF ReadInbox, ListSim
  <2>3. CASE PowerCycle
    BY <2>3, MessagesStay DEF PowerCycle, NewDriver
  <2>4. CASE \E c \in Caller : PollCalls(c)
    BY <2>4, MessagesStay DEF PollCalls
  <2>5. CASE PollNoCalls \/ PollSms \/ PollNoSms
    BY <2>5, MessagesStay DEF PollNoCalls, PollSms, PollNoSms
  <2>6. CASE Heartbeat
    BY <2>6, MessagesStay DEF Heartbeat, Ping
  <2> QED
    BY <1>2, <2>1, <2>2, <2>3, <2>4, <2>5, <2>6 DEF Turn
<1>3. CASE Task
  <2>1. CASE \E taken, confirmed \in BOOLEAN : Transmit(taken, confirmed)
    BY <2>1, TransmitMessages
  <2>2. ASSUME NEW i \in Item, ReportAgain(i) PROVE MessageInv'
    BY <2>2, SettleMessages DEF ReportAgain
  <2>3. ASSUME NEW i \in Item, StartMessage(i) PROVE MessageInv'
    BY <2>3, StartMessages, GatewayAssumption DEF StartMessage
  <2>4. CASE Report
    BY <2>4, SettleMessages DEF Report, MessageInv, Sending, Told
  <2>5. CASE SendAlert \/ SendReply
    <3>1. ASSUME NEW p \in {"alerting", "replying"}, NEW t \in {Alert, Reply}, SendAbout(p, t)
          PROVE MessageInv'
      <4>1. t \in Text /\ t \notin Item /\ batch \ {t} = batch
        BY GatewayAssumption DEF MessageInv, Outbox
      <4> QED
        BY <3>1, <4>1, StartMessages DEF SendAbout
    <3> QED
      BY <2>5, <3>1 DEF SendAlert, SendReply
  <2>6. CASE Suspend
    <3>1. /\ pc' = "idle" /\ pc = "batch" /\ batch' = {}
          /\ UNCHANGED <<delivered, unanswered, resets, forgotten, recent, job, told>>
      BY <2>6 DEF Suspend
    <3>2. Outbox' /\ Sending' /\ Told'
      BY <3>1 DEF MessageInv, Outbox, Sending, Told
    <3>3. Remembered'
      BY <3>1 DEF MessageInv, Remembered, InCache
    <3> QED
      BY <3>2, <3>3 DEF MessageInv
  <2>7. CASE Boot \/ BatchDone \/ SkipAlert \/ SkipReply
    BY <2>7, MessagesStay DEF Boot, Ping, BatchDone, SkipAlert, SkipReply
  <2>8. CASE \E x \in Segment : DeleteSegment(x)
    BY <2>8, MessagesStay DEF DeleteSegment, DeleteSms
  <2>9. CASE Reassemble
    BY <2>9, MessagesStay DEF Reassemble, Assemble
  <2>10. CASE Forward
    BY <2>10, MessagesStay DEF Forward
  <2> QED
    BY <1>3, <2>1, <2>2, <2>3, <2>4, <2>5, <2>6, <2>7, <2>8, <2>9, <2>10 DEF Task
<1>4. CASE UNCHANGED vars
  BY <1>4, MessagesStay DEF vars
<1> QED
  BY <1>1, <1>2, <1>3, <1>4 DEF Next

\* A customer gets a message again, and Snippen a segment, only for a cause that is
\* counted.
THEOREM RepeatsHaveCauses == Spec => []RepeatsNeedFaults
<1>1. MessageInv /\ SegmentInv => RepeatsNeedFaults
  <2> SUFFICES ASSUME MessageInv, SegmentInv PROVE RepeatsNeedFaults
    OBVIOUS
  <2>1. ASSUME NEW i \in Item PROVE delivered[i] <= 1 + unanswered[i] + resets + forgotten
    <3>1. delivered[i] \in Nat /\ unanswered[i] \in Nat /\ resets \in Nat /\ forgotten \in Nat
      BY GatewayAssumption DEF MessageInv, Outbox
    <3> QED
      BY <3>1 DEF MessageInv, Remembered, One
  <2>2. ASSUME NEW x \in Segment PROVE copies[x] <= 1 + undeleted[x]
    BY DEF SegmentInv, Places, Occurrences, One
  <2> QED
    BY <2>1, <2>2 DEF RepeatsNeedFaults
<1>2. Init => MessageInv /\ SegmentInv
  BY InitMessageInv, InitSegmentInv
<1>3. (MessageInv /\ SegmentInv) /\ [Next]_vars => (MessageInv /\ SegmentInv)'
  BY NextMessageInv, NextSegmentInv
<1> QED
  BY <1>1, <1>2, <1>3, PTL DEF Spec

-----------------------------------------------------------------------------
(* The refinement.                                                         *)

Sent == [i \in Item |-> 1..delivered[i]]

\* A step in which Snippen is told nothing and no text is taken whole is a stutter.
LEMMA Stutters ==
  ASSUME UNCHANGED <<told, delivered>>
  PROVE  [Promise!Next]_(Promise!vars)
BY DEF Promise!vars

\* A text taken whole is one transmission of a message Snippen waits for.
LEMMA TransmitIsPromised ==
  ASSUME MessageInv, NEW taken \in BOOLEAN, NEW confirmed \in BOOLEAN, Transmit(taken, confirmed)
  PROVE  [Promise!Next]_(Promise!vars)
<1>1. /\ pc = "sending" /\ job \in Text /\ SendChunk(job, taken, confirmed) /\ told' = told
      /\ delivered \in [Text -> Nat] /\ Item \subseteq Text
  BY GatewayAssumption DEF Transmit, snippen, MessageInv, Sending, Outbox
<1>2. delivered' = delivered \/ delivered' = [delivered EXCEPT ![job] = @ + 1]
  BY <1>1, ChunkFacts
<1>3. CASE delivered' = delivered
  BY <1>1, <1>3, Stutters
<1>4. CASE delivered' = [delivered EXCEPT ![job] = @ + 1] /\ job \notin Item
  <2>1. Sent' = Sent
    BY <1>1, <1>4 DEF Sent
  <2> QED
    BY <1>1, <2>1 DEF Sent, Promise!vars
<1>5. CASE delivered' = [delivered EXCEPT ![job] = @ + 1] /\ job \in Item
  <2> DEFINE x == delivered[job] + 1
  <2>1. delivered[job] \in Nat
    BY <1>1, <1>5
  <2>2. 1..x = (1..delivered[job]) \cup {x} /\ x \in Nat \ {0} /\ x \notin 1..delivered[job]
    BY <2>1
  <2>3. Sent'[job] = 1..x /\ \A i \in Item : i # job => Sent'[i] = Sent[i]
    BY <1>1, <1>5 DEF Sent
  <2>4. Sent' = [Sent EXCEPT ![job] = @ \cup {x}]
    BY <1>5, <2>2, <2>3 DEF Sent
  <2>5. x \in Sent'[job] \ Sent[job]
    BY <1>5, <2>2, <2>3 DEF Sent
  <2>6. told[job] = "pending"
    BY <1>5 DEF MessageInv, Told
  <2>7. ASSUME NEW i \in Item, i = job PROVE Promise!Transmit(i)
    BY <1>1, <2>2, <2>4, <2>5, <2>6, <2>7 DEF Promise!Transmit, Sent
  <2> QED
    BY <1>5, <2>7 DEF Promise!Next
<1> QED
  BY <1>2, <1>3, <1>4, <1>5

\* A report is lost, or is one the promise allows.
LEMMA SettleIsPromised ==
  ASSUME MessageInv, NEW i \in Item, NEW v \in {"sent", "failed"}, Settle(i, v),
         told[i] = "pending", v = "sent" => delivered[i] > 0, delivered' = delivered
  PROVE  [Promise!Next]_(Promise!vars)
<1>1. CASE told' = told
  BY <1>1, Stutters
<1>2. CASE told' = [told EXCEPT ![i] = IF @ = "pending" THEN v ELSE @]
  <2>1. told' = [told EXCEPT ![i] = v]
    BY <1>2 DEF MessageInv, Outbox
  <2>2. told' \in [Item -> {"absent", "pending", "sent", "failed"}]
    BY <2>1 DEF MessageInv, Outbox
  <2>3. v = "sent" => Sent[i] # {}
    BY GatewayAssumption DEF Sent, MessageInv, Outbox
  <2>4. \A e \in Item : told'[e] # told[e] => e = i /\ told'[e] = v
    BY <2>1 DEF MessageInv, Outbox
  <2>5. Promise!Report
    BY <2>2, <2>3, <2>4 DEF Promise!Report, Sent
  <2> QED
    BY <2>5 DEF Promise!Next
<1> QED
  BY <1>1, <1>2 DEF Settle

\* Every step of the loop is a step of the promise.
LEMMA NextIsPromised == MessageInv /\ [Next]_vars => [Promise!Next]_(Promise!vars)
<1> SUFFICES ASSUME MessageInv, [Next]_vars PROVE [Promise!Next]_(Promise!vars)
  OBVIOUS
<1> USE DEF modemVars, modemButFaults, modemButUart, uart, reading, sending, task, memory,
            snippen, history
<1>1. CASE Environment
  <2>1. ASSUME NEW i \in Item, Offer(i) PROVE [Promise!Next]_(Promise!vars)
    <3>1. Promise!Offer(i)
      BY <2>1 DEF Offer, Promise!Offer
    <3> QED
      BY <3>1 DEF Promise!Next
  <2>2. CASE Reset
    BY <2>2, Stutters DEF Reset, NewDriver
  <2>3. CASE \E x \in Segment : Writes(x)
    BY <2>3, Stutters DEF Writes, Arrive
  <2>4. CASE \E c \in Caller : Calls(c) \/ Elapse(c)
    BY <2>4, Stutters DEF Calls, Ring, Elapse
  <2>5. CASE ModemHangs
    BY <2>5, Stutters DEF ModemHangs, Hang
  <2> QED
    BY <1>1, <2>1, <2>2, <2>3, <2>4, <2>5 DEF Environment
<1>2. CASE Turn
  BY <1>2, Stutters DEF Turn, FetchOutbox, PollCalls, PollNoCalls, PollSms, PollNoSms,
                        ReadInbox, ListSim, Heartbeat, Ping, PowerCycle, NewDriver
<1>3. CASE Task
  <2>1. CASE \E taken, confirmed \in BOOLEAN : Transmit(taken, confirmed)
    BY <2>1, TransmitIsPromised
  <2>2. ASSUME NEW i \in Item, ReportAgain(i) PROVE [Promise!Next]_(Promise!vars)
    BY <2>2, SettleIsPromised DEF ReportAgain, MessageInv, Told, Remembered
  <2>3. CASE Report
    BY <2>3, SettleIsPromised DEF Report, MessageInv, Sending, Told
  <2>4. CASE \E i \in Item : StartMessage(i)
    BY <2>4, Stutters DEF StartMessage, StartText
  <2>5. CASE SendAlert \/ SendReply \/ SkipAlert \/ SkipReply
    BY <2>5, Stutters DEF SendAlert, SendReply, SendAbout, StartText, SkipAlert, SkipReply
  <2>6. CASE Boot \/ Suspend \/ BatchDone
    BY <2>6, Stutters DEF Boot, Ping, Suspend, BatchDone
  <2>7. CASE \E x \in Segment : DeleteSegment(x)
    BY <2>7, Stutters DEF DeleteSegment, DeleteSms
  <2>8. CASE Reassemble \/ Forward
    BY <2>8, Stutters DEF Reassemble, Assemble, Forward
  <2> QED
    BY <1>3, <2>1, <2>2, <2>3, <2>4, <2>5, <2>6, <2>7, <2>8 DEF Task
<1>4. CASE UNCHANGED vars
  BY <1>4, Stutters DEF vars
<1> QED
  BY <1>1, <1>2, <1>3, <1>4 DEF Next

\* What Snippen sees of the device is what the promise allows.
THEOREM PromiseIsKept == Spec => KeepsPromise
<1>1. Init => Promise!Init
  BY GatewayAssumption DEF Init, ModemInit, Promise!Init
<1> QED
  BY <1>1, InitMessageInv, NextMessageInv, NextIsPromised, PTL DEF Spec, KeepsPromise, Promise!Spec

-----------------------------------------------------------------------------
(* Types and bounds.                                                       *)

\* What the UART announced.
Uart ==
  /\ hung \in BOOLEAN /\ smsFlag \in BOOLEAN /\ asText \in BOOLEAN
  /\ urc \subseteq Caller \cup {Cmti} /\ callers \in Seq(Caller)

\* Every reset is one of the faults.
Counters ==
  /\ faults \in 0..MaxFault /\ resets \in Nat /\ resets <= faults
  /\ events \in 0..MaxEvent

\* What the loop is at.
Loop ==
  /\ pc \in {"off", "idle", "batch", "sending", "reporting", "alerting", "replying",
             "listing", "deleting", "forwarding"}
  /\ verdict \in {"none", "sent", "failed"}
  /\ caller \in Caller \cup {Withheld} /\ quiet \subseteq Caller \cup {Withheld}
  /\ failures \in 0..2 /\ lost \subseteq Segment

\* What was handed over of the last text, and the cache.
Transmitted ==
  /\ pos \in Nat /\ handed \in Seq(Char)
  /\ Len(recent) <= CacheSize

DeviceInv == Uart /\ Counters /\ Loop /\ Transmitted

\* An exchange discards the announcements and may notice that of an SMS.
LEMMA ExchangeKeepsUart ==
  ASSUME Uart, Exchange, hung' \in BOOLEAN, asText' \in BOOLEAN
  PROVE  Uart'
BY DEF Uart, Exchange

\* A caller is noticed only if there is one.
LEMMA NoticedKeepsUart ==
  ASSUME Uart, Noticed, urc' = {}, smsFlag' \in BOOLEAN, UNCHANGED <<hung, asText>>
  PROVE  Uart'
<1>1. CASE UNCHANGED callers
  BY <1>1 DEF Uart
<1>2. CASE \E c \in urc \cap Caller : callers' = Append(callers, c)
  <2>1. callers' \in Seq(Caller)
    BY <1>2, AppendProperties DEF Uart
  <2> QED
    BY <2>1 DEF Uart
<1> QED
  BY <1>1, <1>2 DEF Noticed

LEMMA NextUart == Uart /\ [Next]_vars => Uart'
<1> SUFFICES ASSUME Uart, [Next]_vars PROVE Uart'
  OBVIOUS
<1> USE DEF modemVars, modemButFaults, modemButUart, uart, reading
<1>1. CASE UNCHANGED <<hung, uart, asText>>
  BY <1>1 DEF Uart
<1>2. CASE \E c \in Caller : Calls(c)
  BY <1>2 DEF Calls, Ring, Uart
<1>3. CASE \E x \in Segment : Writes(x)
  BY <1>3 DEF Writes, Arrive, Uart
<1>4. CASE ModemHangs
  BY <1>4 DEF ModemHangs, Hang, Uart
<1>5. CASE Reset \/ PowerCycle
  BY <1>5, EmptySeq DEF Reset, PowerCycle, NewDriver, Uart
<1>6. CASE Boot \/ Heartbeat
  BY <1>6, ExchangeKeepsUart DEF Boot, Heartbeat, Ping, Uart
<1>7. CASE \E c \in Caller : PollCalls(c)
  <2>1. PICK c \in Caller : PollCalls(c)
    BY <1>7
  <2>2. CallFrom(c) /\ UNCHANGED <<hung, asText>>
    BY <2>1 DEF PollCalls
  <2>3. CASE callers # <<>> /\ callers' = Tail(callers) /\ UNCHANGED <<urc, smsFlag>>
    <3>1. callers' \in Seq(Caller)
      BY <2>3, HeadTailProperties DEF Uart
    <3> QED
      BY <2>2, <2>3, <3>1 DEF Uart
  <2>4. CASE smsFlag' = (smsFlag \/ Cmti \in urc) /\ urc' = {} /\ UNCHANGED callers
    BY <2>2, <2>4 DEF Uart
  <2> QED
    BY <2>2, <2>3, <2>4 DEF CallFrom
<1>8. CASE PollNoCalls
  BY <1>8 DEF PollNoCalls, NoCall, Uart
<1>9. CASE PollSms
  <2>1. SmsAnnounced /\ UNCHANGED <<hung, asText>>
    BY <1>9 DEF PollSms
  <2>2. CASE UNCHANGED <<urc, callers>>
    BY <2>1, <2>2 DEF SmsAnnounced, Uart
  <2>3. CASE urc' = {} /\ Noticed
    BY <2>1, <2>3, NoticedKeepsUart DEF SmsAnnounced
  <2> QED
    BY <2>1, <2>2, <2>3 DEF SmsAnnounced
<1>10. CASE PollNoSms
  BY <1>10, NoticedKeepsUart DEF PollNoSms, NoSmsAnnounced, Uart
<1>11. CASE ReadInbox
  BY <1>11, ExchangeKeepsUart DEF ReadInbox, ListSim, Uart
<1>12. CASE \E x \in Segment : DeleteSegment(x)
  BY <1>12, ExchangeKeepsUart DEF DeleteSegment, DeleteSms, Uart
<1>13. CASE Reassemble
  BY <1>13 DEF Reassemble, Assemble, Uart
<1>14. CASE \E taken, confirmed \in BOOLEAN : Transmit(taken, confirmed)
  BY <1>14, ExchangeKeepsUart DEF Transmit, SendChunk, Uart
<1>15. CASE Environment
  BY <1>1, <1>2, <1>3, <1>4, <1>5, <1>15 DEF Environment, Offer, Elapse
<1>16. CASE Turn
  BY <1>1, <1>5, <1>6, <1>7, <1>8, <1>9, <1>10, <1>11, <1>16 DEF Turn, FetchOutbox
<1>17. CASE Task
  BY <1>1, <1>6, <1>12, <1>13, <1>14, <1>17
     DEF Task, ReportAgain, StartMessage, Suspend, Report, BatchDone, SendAlert, SendReply,
         SendAbout, SkipAlert, SkipReply, Forward
<1>18. CASE UNCHANGED vars
  BY <1>1, <1>18 DEF vars
<1> QED
  BY <1>15, <1>16, <1>17, <1>18 DEF Next

LEMMA NextCounters == Counters /\ [Next]_vars => Counters'
<1> SUFFICES ASSUME Counters, [Next]_vars PROVE Counters'
  OBVIOUS
<1> USE DEF modemVars, modemButFaults, modemButUart, history
<1>1. CASE UNCHANGED <<faults, resets, events>>
  BY <1>1 DEF Counters
<1>2. CASE Event /\ UNCHANGED <<faults, resets>>
  BY <1>2, GatewayAssumption DEF Event, Counters
<1>3. CASE Fault /\ UNCHANGED <<resets, events>>
  BY <1>3, ModemAssumption DEF Fault, Counters
<1>4. CASE Fault /\ resets' = resets + 1 /\ UNCHANGED events
  BY <1>4, ModemAssumption DEF Fault, Counters
<1>5. CASE Environment
  BY <1>1, <1>2, <1>3, <1>4, <1>5
     DEF Environment, Offer, Calls, Ring, Elapse, Writes, Arrive, ModemHangs, Hang, Reset
<1>6. CASE Turn
  BY <1>1, <1>3, <1>6
     DEF Turn, FetchOutbox, PollCalls, PollNoCalls, PollSms, PollNoSms, ReadInbox, ListSim,
         Heartbeat, Ping, PowerCycle
<1>7. CASE Task
  <2>1. CASE \E taken, confirmed \in BOOLEAN : Transmit(taken, confirmed)
    BY <1>1, <1>3, <2>1 DEF Transmit, SendChunk, Remember
  <2>2. CASE \E x \in Segment : DeleteSegment(x)
    BY <1>1, <1>3, <2>2 DEF DeleteSegment, DeleteSms
  <2>3. CASE Reassemble \/ Forward
    BY <1>1, <1>3, <2>3 DEF Reassemble, Assemble, Forward
  <2>4. CASE \E i \in Item : ReportAgain(i) \/ StartMessage(i)
    BY <1>1, <1>3, <2>4 DEF ReportAgain, StartMessage, Settle
  <2>5. CASE Boot \/ Suspend \/ Report \/ BatchDone
    BY <1>1, <1>3, <2>5 DEF Boot, Ping, Suspend, Report, Settle, BatchDone
  <2>6. CASE SendAlert \/ SendReply \/ SkipAlert \/ SkipReply
    BY <1>1, <1>3, <2>6 DEF SendAlert, SendReply, SendAbout, SkipAlert, SkipReply
  <2> QED
    BY <1>7, <2>1, <2>2, <2>3, <2>4, <2>5, <2>6 DEF Task
<1>8. CASE UNCHANGED vars
  BY <1>1, <1>8 DEF vars
<1> QED
  BY <1>5, <1>6, <1>7, <1>8 DEF Next

\* What is lost was on the SIM, in the driver, or about to be forwarded.
LEMMA NextLoop == SegmentInv /\ Loop /\ [Next]_vars => Loop'
<1> SUFFICES ASSUME SegmentInv, Loop, [Next]_vars PROVE Loop'
  OBVIOUS
<1> USE DEF task, memory, history, Goto
<1>1. InDriver \subseteq Segment /\ texts \ sim \subseteq Segment
  BY DEF SegmentInv, Places, InDriver
<1>2. CASE UNCHANGED <<pc, verdict, caller, quiet, failures, lost>>
  BY <1>2 DEF Loop
<1>3. CASE Environment
  BY <1>1, <1>3
     DEF Loop, Environment, Offer, Calls, Elapse, Writes, ModemHangs, Reset
<1>4. CASE Turn
  <2>1. CASE \E c \in Caller : PollCalls(c)
    BY <2>1 DEF Loop, PollCalls
  <2>2. CASE Heartbeat
    BY <2>2 DEF Loop, Heartbeat
  <2>3. CASE PowerCycle
    BY <1>1, <2>3 DEF Loop, PowerCycle
  <2>4. CASE \E S \in SUBSET Item : FetchOutbox(S)
    BY <2>4 DEF Loop, FetchOutbox
  <2>5. CASE PollNoCalls \/ PollSms \/ PollNoSms \/ ReadInbox
    BY <2>5 DEF Loop, PollNoCalls, PollSms, PollNoSms, ReadInbox
  <2> QED
    BY <1>4, <2>1, <2>2, <2>3, <2>4, <2>5 DEF Turn
<1>5. CASE Task
  <2>1. CASE \E taken, confirmed \in BOOLEAN : Transmit(taken, confirmed)
    <3>1. /\ pc' \in {"sending", "reporting", "replying", "idle"} /\ verdict' \in {verdict, "sent", "failed"}
          /\ UNCHANGED <<caller, quiet, failures, lost>>
      BY <2>1 DEF Transmit
    <3> QED
      BY <3>1 DEF Loop
  <2>2. CASE \E i \in Item : ReportAgain(i) \/ StartMessage(i)
    BY <2>2 DEF Loop, ReportAgain, StartMessage
  <2>3. CASE Boot \/ Suspend \/ Report \/ BatchDone
    BY <2>3 DEF Loop, Boot, Suspend, Report, BatchDone
  <2>4. CASE SendAlert \/ SendReply \/ SkipAlert \/ SkipReply
    BY <2>4 DEF Loop, SendAlert, SendReply, SendAbout, SkipAlert, SkipReply
  <2>5. CASE \E x \in Segment : DeleteSegment(x)
    BY <2>5 DEF Loop, DeleteSegment
  <2>6. CASE Reassemble
    BY <2>6 DEF Loop, Reassemble
  <2>7. CASE Forward
    BY <1>1, <2>7 DEF Loop, Forward
  <2> QED
    BY <1>5, <2>1, <2>2, <2>3, <2>4, <2>5, <2>6, <2>7 DEF Task
<1>6. CASE UNCHANGED vars
  BY <1>2, <1>6 DEF vars
<1> QED
  BY <1>3, <1>4, <1>5, <1>6 DEF Next

\* The cache does not outgrow its limit: what is recorded was not in it.
LEMMA RememberIsBounded ==
  ASSUME recent \in Seq(Item), Len(recent) <= CacheSize, NEW i \in Item, ~InCache(i), Remember(i)
  PROVE  Len(recent') <= CacheSize
<1> DEFINE longer == Append(recent, i)
<1>1. longer \in Seq(Item) /\ longer # <<>> /\ Len(longer) = Len(recent) + 1 /\ Len(recent) \in Nat
  BY AppendProperties, LenProperties
<1>2. IF Len(longer) > CacheSize THEN recent' = Tail(longer) ELSE recent' = longer
  BY DEF Remember
<1> HIDE DEF longer
<1>3. Len(Tail(longer)) = Len(longer) - 1
  BY <1>1, HeadTailProperties
<1> QED
  BY <1>1, <1>2, <1>3, GatewayAssumption

\* A chunk is cut from the text, behind what was handed over of it.
LEMMA NextTransmitted == MessageInv /\ Transmitted /\ [Next]_vars => Transmitted'
<1> SUFFICES ASSUME MessageInv, Transmitted, [Next]_vars PROVE Transmitted'
  OBVIOUS
<1> USE DEF modemVars, modemButFaults, modemButUart, sending, memory
<1>1. CASE UNCHANGED <<pos, handed, recent>>
  BY <1>1 DEF Transmitted
<1>2. CASE StartText /\ UNCHANGED recent
  BY <1>2, EmptySeq DEF StartText, Transmitted
<1>3. CASE \E taken, confirmed \in BOOLEAN : Transmit(taken, confirmed)
  <2>1. PICK taken \in BOOLEAN, confirmed \in BOOLEAN : Transmit(taken, confirmed)
    BY <1>3
  <2> DEFINE chunk == ChunkEnd(Body[job], pos)
  <2>2. /\ pc = "sending" /\ job \in Text /\ pos \in 0..Len(Body[job])
        /\ Body[job] \in Seq(Char) /\ Len(Body[job]) \in Nat
    BY <2>1, ModemAssumption DEF Transmit, MessageInv, Sending
  <2>3. chunk.last = chunk.next /\ chunk.last \in pos..Len(Body[job])
    BY <2>2, ChunkEnds
  <2>4. /\ pos' = chunk.next
        /\ handed' = handed \/ handed' = handed \o SubSeq(Body[job], pos + 1, chunk.last)
    BY <2>1 DEF Transmit, SendChunk
  <2> HIDE DEF chunk
  <2>5. pos' \in Nat
    BY <2>2, <2>3, <2>4
  <2>6. SubSeq(Body[job], pos + 1, chunk.last) \in Seq(Char)
    BY <2>2, <2>3, SubSeqProperties
  <2>7. handed' \in Seq(Char)
    BY <2>4, <2>6, ConcatProperties DEF Transmitted
  <2>8. CASE UNCHANGED recent
    BY <2>5, <2>7, <2>8 DEF Transmitted
  <2>9. CASE job \in Item /\ Remember(job)
    <3>1. Len(recent') <= CacheSize
      BY <2>2, <2>9, RememberIsBounded DEF MessageInv, Outbox, Sending, Transmitted
    <3> QED
      BY <2>5, <2>7, <3>1 DEF Transmitted
  <2> QED
    BY <2>1, <2>8, <2>9 DEF Transmit
<1>4. CASE Reset \/ PowerCycle
  <2>1. pos' = 0 /\ handed' = <<>> /\ (recent' = <<>> \/ recent' = recent)
    BY <1>4 DEF Reset, PowerCycle, NewDriver
  <2>2. handed' \in Seq(Char) /\ Len(<<>>) = 0
    BY <2>1, EmptySeq
  <2> QED
    BY <2>1, <2>2, GatewayAssumption DEF Transmitted
<1>5. CASE Environment
  BY <1>1, <1>4, <1>5
     DEF Environment, Offer, Calls, Ring, Elapse, Writes, Arrive, ModemHangs, Hang
<1>6. CASE Turn
  BY <1>1, <1>4, <1>6
     DEF Turn, FetchOutbox, PollCalls, PollNoCalls, PollSms, PollNoSms, ReadInbox, ListSim,
         Heartbeat, Ping
<1>7. CASE Task
  <2>1. CASE \E x \in Segment : DeleteSegment(x)
    BY <1>1, <2>1 DEF DeleteSegment, DeleteSms
  <2>2. CASE Reassemble \/ Forward
    BY <1>1, <2>2 DEF Reassemble, Assemble, Forward
  <2>3. CASE \E i \in Item : ReportAgain(i) \/ StartMessage(i)
    BY <1>1, <1>2, <2>3 DEF ReportAgain, StartMessage
  <2>4. CASE Boot \/ Suspend \/ Report \/ BatchDone
    BY <1>1, <2>4 DEF Boot, Ping, Suspend, Report, BatchDone
  <2>5. CASE SendAlert \/ SendReply \/ SkipAlert \/ SkipReply
    BY <1>1, <1>2, <2>5 DEF SendAlert, SendReply, SendAbout, SkipAlert, SkipReply
  <2> QED
    BY <1>3, <1>7, <2>1, <2>2, <2>3, <2>4, <2>5 DEF Task
<1>8. CASE UNCHANGED vars
  BY <1>1, <1>8 DEF vars
<1> QED
  BY <1>5, <1>6, <1>7, <1>8 DEF Next

LEMMA InitDeviceInv == Init => DeviceInv
<1> SUFFICES ASSUME Init PROVE DeviceInv
  OBVIOUS
<1>1. Uart
  BY EmptySeq DEF Init, ModemInit, Uart
<1>2. Transmitted
  <2>1. handed \in Seq(Char) /\ Len(<<>>) = 0
    BY EmptySeq DEF Init, ModemInit
  <2> QED
    BY <2>1, GatewayAssumption DEF Init, ModemInit, Transmitted
<1>3. Counters /\ Loop
  BY ModemAssumption, GatewayAssumption DEF Init, ModemInit, Counters, Loop
<1> QED
  BY <1>1, <1>2, <1>3 DEF DeviceInv

\* The state of the device is what the firmware takes it for: neither cache nor
\* counter outgrows its limit, whatever comes in and whatever fails (main.py, modem.py).
THEOREM DeviceIsTyped == Spec => []TypeOK
<1> DEFINE Inv == SegmentInv /\ MessageInv /\ DeviceInv
<1>1. Init => Inv
  BY InitSegmentInv, InitMessageInv, InitDeviceInv
<1>2. Inv /\ [Next]_vars => Inv'
  BY NextSegmentInv, NextMessageInv, NextUart, NextCounters, NextLoop, NextTransmitted
     DEF DeviceInv
<1>3. Inv => TypeOK
  <2> SUFFICES ASSUME SegmentInv, MessageInv, DeviceInv PROVE TypeOK
    OBVIOUS
  <2>1. ModemTypeOK
    BY DEF SegmentInv, Places, Reading, MessageInv, Outbox, DeviceInv, Uart, Counters,
           Transmitted, ModemTypeOK
  <2>2. resets \in 0..MaxFault
    BY ModemAssumption DEF DeviceInv, Counters
  <2> QED
    BY <2>1, <2>2 DEF SegmentInv, Places, MessageInv, Outbox, DeviceInv, Counters, Loop,
                      Transmitted, TypeOK
<1> QED
  BY <1>1, <1>2, <1>3, PTL DEF Spec

=============================================================================
