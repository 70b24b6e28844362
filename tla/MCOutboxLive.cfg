\* One process at a time under fairness, the daemon or `send' while it is stopped:
\* an item that may be re-offered after a failure, one that is malformed, a local
\* prompt or a direct send, and one crash.
SPECIFICATION FairSpec
CONSTANTS
  a = a  b = b  daemon = daemon
  NoItem = NoItem
  Item = {a, b}
  Malformed = {b}
  Process = {daemon}
  Syncer = {daemon}
  Dispatcher = {daemon}
  Sender = {daemon}
  BatchLimit = 1
  ReportLimit = 1
  MaxRow = 4
  MaxOffer = 3
  MaxLocal = 1
  MaxFault = 1
PROPERTIES
  EveryItemServed
