\* The daemon alone: it synchronises, dispatches and enqueues prompts itself.
SPECIFICATION Spec
CONSTANTS
  a = a  b = b  daemon = daemon
  NoItem = NoItem
  Item = {a, b}
  Malformed = {}
  Process = {daemon}
  Syncer = {daemon}
  Dispatcher = {daemon}
  Sender = {}
  BatchLimit = 2
  ReportLimit = 1
  MaxRow = 4
  MaxOffer = 3
  MaxLocal = 1
  MaxFault = 2
INVARIANTS
  StatusTruthful RemoteTruthful OneLiveRowPerItem RepeatsNeedFaults OldestFirst
PROPERTIES
  ResultIsFinal KeepsPromise
