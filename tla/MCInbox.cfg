\* Two customers' messages in two segments each, from either kind of provider.
SPECIFICATION Spec
CONSTANTS
  long = long  short = short  anna = anna  bo = bo  txt_2 = txt_2
  Sms = {long, short}
  Size <- MCTwoEach
  Sender <- MCSender
  Ref <- MCRef
  Length <- MCLength
  OpenEnd <- MCOpenEnd
  LowStart <- MCLowStart
  WithId <- MCLongHasId
  Draining = {TRUE, FALSE}
  InboxLimit = 2
  MaxRow = 3
  MaxFault = 1
INVARIANTS
  TypeOK TextsAreWhole NothingDroppedQuietly ProcessedIsHeld
CHECK_DEADLOCK FALSE
