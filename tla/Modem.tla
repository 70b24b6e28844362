------------------------------- MODULE Modem -------------------------------
(***************************************************************************)
(* The driver of the cellular modem (firmware/modem.py) with the message   *)
(* splitting and reassembly it uses (firmware/sms_encoding.py), and the    *)
(* modem, its SIM card and the mobile network as the driver sees them.     *)
(*                                                                         *)
(* The definitions are the driver's operations, each one or a few exchanges*)
(* of AT commands; FirmwareGateway calls them and says what is done with   *)
(* the results.  A text is a sequence of characters, an SMS that comes in  *)
(* the set of its segments.  Every SMS has a sender and reference of its   *)
(* own, so that a buffer of the reassembler is that of an SMS.             *)
(***************************************************************************)
EXTENDS Naturals, Sequences, FiniteSets

CONSTANTS
  Text,        \* the texts the device sends
  Char, Body,  \* characters; those of each text
  Space, Wide, \* white space; a character that counts as two
  Single,      \* the width of a text that fits one SMS
  Part,        \* the width of a chunk of a longer one
  Sms, Size,   \* the SMS that come in, and how many segments each has
  Decodable,   \* the segments whose PDU decode_pdu can read
  Caller,      \* those who call; a withheld number is one of them
  Cmti,        \* the announcement of an SMS
  MaxFault     \* bound: things that go wrong

Segment == UNION {{s} \X (1..Size[s]) : s \in Sms}

ASSUME ModemAssumption ==
  /\ Body \in [Text -> Seq(Char)] /\ {Space, Wide} \subseteq Char
  /\ Single \in Nat /\ Part \in Nat /\ 2 <= Part /\ Part <= Single
  /\ Size \in [Sms -> Nat \ {0}] /\ Decodable \subseteq Segment
  /\ Cmti \notin Caller /\ MaxFault \in Nat

VARIABLES
  hung,       \* the modem does not answer
  urc,        \* announcements in the UART's input, not yet read
  smsFlag,    \* _pending_sms_urc
  callers,    \* _pending_callers
  sim,        \* segments in the SIM's storage
  coming,     \* segments the network has yet to deliver
  hand,       \* segments read and not yet given to the reassembler
  asText,     \* they were read in text mode
  todo,       \* those of them still to be deleted
  buffers,    \* segments the reassembler holds
  pos,        \* characters of the text in hand given to the modem
  handed,     \* history: what the network took of it
  delivered,  \* history: how often a text was taken whole
  unanswered, \* history: how often the confirmation of that was lost
  undeleted,  \* history: how often a segment was not deleted
  faults      \* counter for the bound

uart == <<urc, smsFlag, callers>>
reading == <<hand, asText, todo, buffers>>
sending == <<pos, handed, delivered, unanswered>>
modemVars == <<hung, uart, sim, coming, reading, sending, undeleted, faults>>

ModemInit ==
  /\ hung = FALSE /\ urc = {} /\ smsFlag = FALSE /\ callers = <<>>
  /\ sim = {} /\ coming = Segment
  /\ hand = {} /\ asText = FALSE /\ todo = {} /\ buffers = {}
  /\ pos = 0 /\ handed = <<>>
  /\ delivered = [t \in Text |-> 0] /\ unanswered = [t \in Text |-> 0]
  /\ undeleted = [x \in Segment |-> 0] /\ faults = 0

ModemTypeOK ==
  /\ hung \in BOOLEAN /\ smsFlag \in BOOLEAN /\ asText \in BOOLEAN
  /\ urc \subseteq Caller \cup {Cmti} /\ \A k \in DOMAIN callers : callers[k] \in Caller
  /\ sim \cup coming \cup hand \cup buffers \subseteq Segment /\ todo \subseteq hand
  /\ pos \in Nat /\ handed \in Seq(Char)
  /\ delivered \in [Text -> Nat] /\ unanswered \in [Text -> Nat]
  /\ undeleted \in [Segment -> Nat] /\ faults \in 0..MaxFault

Fault == faults < MaxFault /\ faults' = faults + 1

-----------------------------------------------------------------------------
(* The modem and the network.                                              *)

Hang == Fault /\ ~hung /\ hung' = TRUE /\ UNCHANGED <<uart, sim, coming, reading, sending, undeleted>>

Arrive(x) ==
  /\ ~hung /\ x \in coming
  /\ coming' = coming \ {x} /\ sim' = sim \cup {x}
  /\ urc' = urc \cup {Cmti}
  /\ UNCHANGED <<hung, smsFlag, callers, reading, sending, undeleted, faults>>

Ring(c) ==
  /\ ~hung /\ urc' = urc \cup {c}
  /\ UNCHANGED <<hung, smsFlag, callers, sim, coming, reading, sending, undeleted, faults>>

-----------------------------------------------------------------------------
(* The UART.                                                               *)

\* send_cmd discards what was announced before it writes its command; an SMS
\* announced while it waits for the answer is noticed, a call is not.
Exchange ==
  /\ urc' = {}
  /\ smsFlag' \in {smsFlag, smsFlag \/ Cmti \in urc}
  /\ UNCHANGED callers

\* check_incoming_call returns c: it asks the UART only if no caller is waiting,
\* takes all that is there, and rejects one call.
CallFrom(c) ==
  \/ /\ callers # <<>> /\ c = Head(callers) /\ callers' = Tail(callers)
     /\ UNCHANGED <<urc, smsFlag>>
  \/ /\ callers = <<>> /\ c \in urc
     /\ smsFlag' = (smsFlag \/ Cmti \in urc) /\ urc' = {}
     /\ UNCHANGED callers

\* ... or nothing, having noticed at most that there is an SMS.
NoCall ==
  /\ callers = <<>> /\ urc = {Cmti}
  /\ smsFlag' = TRUE /\ urc' = {} /\ UNCHANGED callers

\* A caller found while looking for an SMS waits for check_incoming_call.
Noticed ==
  IF urc \cap Caller = {} THEN UNCHANGED callers
  ELSE \E c \in urc \cap Caller : callers' = Append(callers, c)

\* check_incoming_sms returns True ...
SmsAnnounced ==
  /\ smsFlag' = FALSE
  /\ \/ smsFlag /\ UNCHANGED <<urc, callers>>
     \/ ~smsFlag /\ Cmti \in urc /\ urc' = {} /\ Noticed

\* ... or False.
NoSmsAnnounced ==
  /\ ~smsFlag /\ urc # {} /\ Cmti \notin urc
  /\ urc' = {} /\ Noticed /\ UNCHANGED smsFlag

-----------------------------------------------------------------------------
(* Sending: split_sms_body, send_sms, _send_single_sms                     *)

\* Of the characters from i to j.
Width(s, i, j) == Cardinality(i..j) + Cardinality({k \in i..j : s[k] = Wide})

Greatest(S) == CHOOSE m \in S : \A k \in S : k <= m

\* Mutant of ChunkEnd: a chunk ends before the space, which opens none
SpaceIsDropped(s, p) ==
  LET end == Greatest({e \in p..Len(s) : Width(s, p + 1, e) <= Part})
      spaces == {k \in (p + 2)..end : s[k] = Space}
  IN IF Width(s, 1, Len(s)) <= Single \/ end = Len(s) THEN [last |-> Len(s), next |-> Len(s)]
     ELSE IF spaces # {} THEN [last |-> Greatest(spaces) - 1, next |-> Greatest(spaces)]
     ELSE [last |-> end, next |-> end]

\* The chunk after the first p characters ends at the last white space that fits,
\* or where it is full.
ChunkEnd(s, p) ==
  LET end == Greatest({e \in p..Len(s) : Width(s, p + 1, e) <= Part})
      spaces == {k \in (p + 2)..end : s[k] = Space}
      cut == IF Width(s, 1, Len(s)) <= Single \/ end = Len(s) THEN Len(s)
             ELSE IF spaces # {} THEN Greatest(spaces)
             ELSE end
  IN [last |-> cut, next |-> cut]

\* A chunk is given to the modem: it is taken or not, and the driver learns so
\* or not (no prompt, an error, no answer in time).
SendChunk(t, taken, confirmed) ==
  LET chunk == ChunkEnd(Body[t], pos)
      got == IF taken THEN handed \o SubSeq(Body[t], pos + 1, chunk.last) ELSE handed
      whole == taken /\ chunk.next = Len(Body[t]) /\ got = Body[t]
  IN /\ hung => ~taken
     /\ confirmed => taken
     /\ IF confirmed \/ hung THEN UNCHANGED faults ELSE Fault
     /\ pos' = chunk.next /\ handed' = got
     /\ delivered' = IF whole THEN [delivered EXCEPT ![t] = @ + 1] ELSE delivered
     /\ unanswered' = IF whole /\ ~confirmed THEN [unanswered EXCEPT ![t] = @ + 1]
                      ELSE unanswered
     /\ Exchange
     /\ UNCHANGED <<hung, sim, coming, reading, undeleted>>

\* send_sms starts over with a text that failed, whatever was taken of it.
StartText == pos' = 0 /\ handed' = <<>> /\ UNCHANGED <<delivered, unanswered>>

LastChunk(t) == ChunkEnd(Body[t], pos).next = Len(Body[t])

-----------------------------------------------------------------------------
(* Reading: read_inbound_sms, delete_sms, InboundReassembler               *)

\* The listing in PDU mode, or in text mode if that is refused or shows nothing
\* readable; of a hung modem, nothing.
ListSim ==
  /\ \E pdu \in BOOLEAN :
       LET readable == IF pdu THEN sim \cap Decodable ELSE {}
       IN /\ IF pdu \/ hung THEN UNCHANGED faults ELSE Fault
          /\ hand' = CASE hung -> {} [] readable # {} -> readable [] OTHER -> sim
          /\ asText' = (~hung /\ readable = {} /\ sim # {})
  /\ todo' = hand'
  /\ Exchange
  /\ UNCHANGED <<hung, sim, coming, buffers, sending, undeleted>>

\* The result of AT+CMGD is ignored.
DeleteSms(x) ==
  /\ x \in todo /\ todo' = todo \ {x}
  /\ \/ ~hung /\ sim' = sim \ {x} /\ UNCHANGED <<undeleted, faults>>
     \/ /\ IF hung THEN UNCHANGED faults ELSE Fault
        /\ undeleted' = [undeleted EXCEPT ![x] = @ + 1] /\ UNCHANGED sim
  /\ Exchange
  /\ UNCHANGED <<hung, coming, hand, asText, buffers, sending>>

Of(s, S) == {x \in S : x[1] = s}

\* Mutant of Assemble: what was incomplete for too long is dropped
AssembleDropsPartial(texts) ==
  LET got == buffers \cup hand
      whole == {s \in Sms : Cardinality(Of(s, got)) >= Size[s]}
      old == {s \in Sms \ whole : Of(s, buffers) # {}}
  IN /\ todo = {}
     /\ \E late \in SUBSET old :
          LET gone == UNION {Of(s, got) : s \in late}
          IN /\ texts = UNION {Of(s, got) : s \in whole}
             /\ buffers' = got \ (texts \cup gone)
     /\ hand' = {} /\ asText' = FALSE
     /\ UNCHANGED <<hung, uart, sim, coming, todo, sending, undeleted, faults>>

\* The segments read join those of earlier reads.  The texts that are complete
\* come out, and of those begun in an earlier read any that took too long.  A
\* segment read in text mode may have lost the mark of a longer text: it comes
\* out at once.
Assemble(texts) ==
  /\ todo = {}
  /\ \E alone \in IF asText THEN {{}, hand} ELSE {{}} :
       LET got == buffers \cup (hand \ alone)
           whole == {s \in Sms : Cardinality(Of(s, got)) >= Size[s]}
           old == {s \in Sms \ whole : Of(s, buffers) # {}}
       IN \E late \in SUBSET old :
            /\ texts = alone \cup UNION {Of(s, got) : s \in whole \cup late}
            /\ buffers' = got \ UNION {Of(s, got) : s \in whole \cup late}
  /\ hand' = {} /\ asText' = FALSE
  /\ UNCHANGED <<hung, uart, sim, coming, todo, sending, undeleted, faults>>

-----------------------------------------------------------------------------
(* check_at, and a driver made anew.                                       *)

Ping ==
  /\ Exchange
  /\ UNCHANGED <<hung, sim, coming, reading, sending, undeleted, faults>>

\* A new ModemDriver knows nothing of what the old one held.
NewDriver ==
  /\ urc' = {} /\ smsFlag' = FALSE /\ callers' = <<>>
  /\ hand' = {} /\ asText' = FALSE /\ todo' = {} /\ buffers' = {}
  /\ pos' = 0 /\ handed' = <<>>
  /\ UNCHANGED <<sim, coming, delivered, unanswered, undeleted>>
=============================================================================
