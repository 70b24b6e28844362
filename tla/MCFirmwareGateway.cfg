\* Any two of a short message, a long one, a repetition, the segments of an SMS and
\* calls, with any two of a failure, a hanging modem and a reset.
SPECIFICATION FairSpec
CONSTANTS
  short = short  long = long  letter = letter  anna = anna  plain = plain
  Space = Space  Wide = Wide  Alert = Alert  Reply = Reply
  Withheld = Withheld  NoText = NoText  Cmti = Cmti
  Text = {short, long, Alert, Reply}
  Item = {short, long}
  Char = {plain, Space, Wide}
  Body <- MCBody
  Single = 3
  Part = 3
  Sms = {letter}
  Size <- MCSize
  Decodable <- MCDecodable
  Caller = {anna, Withheld}
  BatchLimit = 2
  CacheSize = 1
  MaxFault = 2
  MaxEvent = 2
INVARIANTS
  TypeOK RepeatsNeedFaults NothingLostQuietly
PROPERTIES
  KeepsPromise EveryItemReported EverySmsForwarded
CHECK_DEADLOCK FALSE
