------------------------------- MODULE MCInbox -------------------------------
\* Instances of Inbox for TLC, with two messages of up to two segments each.
EXTENDS Inbox

CONSTANTS long, short, anna, bo, txt_2

\* Two customers, whose segments carry the same reference.  The long message's first
\* segment opens and ends a sentence, and is as long as a part of a longer text; every
\* other may be read on into the next.
MCTwoEach == [s \in Sms |-> 2]
MCSize == [s \in Sms |-> IF s = long THEN 2 ELSE 1]
MCSender == [s \in Sms |-> IF s = long THEN anna ELSE bo]
MCRef == [s \in Sms |-> txt_2]
MCLength == [x \in Segment |-> IF x = <<long, 1>> THEN 153 ELSE 20]
MCOpenEnd == Segment \ {<<long, 1>>}
MCLowStart == Segment \ {<<long, 1>>}

\* The long message's segments come with an id, the other's without.
MCLongHasId == {x \in Segment : x[1] = long}
MCAllHaveIds == Segment
=============================================================================
