\* A message in two segments and another customer's in one, from either kind of provider.
SPECIFICATION FairSpec
CONSTANTS
  long = long  short = short  anna = anna  bo = bo  txt_2 = txt_2
  Sms = {long, short}
  Size <- MCSize
  Sender <- MCSender
  Ref <- MCRef
  Length <- MCLength
  OpenEnd <- MCOpenEnd
  LowStart <- MCLowStart
  WithId <- MCAllHaveIds
  Draining = {TRUE, FALSE}
  InboxLimit = 2
  MaxRow = 3
  MaxFault = 1
PROPERTIES
  EverySmsStored EveryRowProcessed
CHECK_DEADLOCK FALSE
