\* Three messages, sent within one session or after it.
SPECIFICATION Spec
CONSTANTS
  b1 = b1  b2 = b2
  NoBooking = NoBooking
  Booking = {b1, b2}
  Answers <- MCAnswers
  Replies = {0, 2}
  Ttl = 0
  MaxTime = 1
  MaxMsg = 3
  MaxFault = 1
INVARIANTS
  TypeOK ContextConsistent PromptRetried ToldIsKept
PROPERTY
  BookingIsFinal
CHECK_DEADLOCK FALSE
