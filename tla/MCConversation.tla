---------------------------- MODULE MCConversation ----------------------------
\* An instance of Conversation for TLC: what the customer has booked changes
\* between lookups.
EXTENDS Conversation

CONSTANTS b1, b2

MCAnswers == {<<>>, <<b1>>, <<b1, b2>>}
=============================================================================
