# Formal models of the Snippen SMS service

TLA+ models of the programs in this repository, TLC configurations that check
them on small instances, and TLAPS proofs of what can be shown for every
instance. Source paths are relative to the repository; `gateway.py` and the
other bare names are files of `src/snippen_sms/`.

## 1. The system

Two programs carry SMS between the Snippen booking service and customers.

*The gateway* (`src/snippen_sms/`, Python, asyncio) is a daemon over a SQLite
database. It polls an SMS provider, puts multipart messages together, finds
the booking a message is about (and asks the customer when it cannot), reports
messages to Snippen, fetches what Snippen wants sent, sends it through a rate
limiter and reports the results. `snippen-sms send` and `snippen-sms sync` are
further processes on the same database.

*The firmware* (`firmware/`, MicroPython) is a standalone gateway on an ESP32
with a modem: one event loop, interrupt handlers for the BOOT button and BLE,
a hardware watchdog, and over-the-air updates of its own files.

| Component | State it keeps | Operations | Talks to | Hard behaviour | What makes it correct |
|---|---|---|---|---|---|
| Message store (`storage.py`) | `messages`, `conversation_contexts` tables | insert, look up, mark sent / failed / reported / processed | everybody | several processes; single statements are the only atomic unit | a status is true; one row per external id |
| Outbox dispatch (`gateway.py`) | snapshot of a batch, row in flight | `process_outbox`, `send_sms`, `enqueue_outbox` | store, limiter, provider | crash or failed write between the send and its record; lost answers | no silent duplicates, FIFO, results final |
| Synchronisation (`sync.py`, `client.py`) | the batch being reported | `sync_inbox`, `sync_outbox`, `sync_statuses` | store, Snippen | lost answers, partial acknowledgement, re-offers of the same id | Snippen is told the truth, in the end about everything |
| Rate limiter (`limiter.py`, `firmware/rate_limiter.py`) | history of sends, circuit | `can_send`, `record_send`, `reset` | dispatch | checked before, recorded after; pruning; re-trips | no window overflows; refusals end |
| Inbound reassembly (`reassembler.py`) | buffers by sender and reference | `add`, timeouts, `reassemble_stored_messages` | provider, store, sync | out-of-order and repeated segments, shared references, restarts | no text lost, split twice or mixed |
| Booking resolver (`context.py`) | booking per message, conversation context, prompt | `resolve_incoming_message` | store, Snippen, outbox | four writes, interruptible; bookings change between look-ups | context and messages agree; bookings are final |
| SMS providers (`providers/`) | what they hold | `send_sms`, `receive_sms` | carrier | drain or list; accepted but answered late | (environment) |
| Migrations (`migrations/`) | `schema_migrations`, the schema itself | `run_migrations`: baseline, look up, apply | SQLite | several processes at first start, one of them dying | recorded exactly when applied, in order |
| Self-update (`updater.py`) | the installed release, the artifact | check, download, verify, install, migrate | GitHub, pip, migrations | stale look-ups, a daemon that runs meanwhile, failure midway | the daemon finds the schema it needs; digests are heeded |
| Firmware loop (`firmware/main.py`, `snippen_api.py`) | intervals, recent-sent cache, modes | `tick`, `poll_outbox`, `process_inbox`, calls, heartbeat | modem, Snippen | power loss, full cache, lost reports | no SMS repeated or dropped silently |
| Modem driver (`firmware/modem.py`, `sms_encoding.py`) | UART buffer, SIM storage | AT commands, chunked sending, reading and deleting | modem | unsolicited result codes between answers | no URC or segment lost |
| OTA update (`firmware/ota.py`, `boot.py`) | active, `.new` and `.bak` files, `ota_pending.json`, `ota_failed.json` | stage, activate, confirm, roll back | flash, reset | power loss between any two file operations | one whole release; update settled |
| Provisioning (`ble_config.py`, `button.py`, `wifi.py`) | mode, connection, flags of handlers | button press, BLE writes, timeouts | main loop | interrupts against the loop | one press, one toggle; device returns to service |
| Logger, self-tests, scripts, web page | none of the running system | | | | |

How they interact: within a tick (`gateway.py` 492-542) the daemon polls the
provider, runs the resolver on each stored message, synchronises the three
stages and dispatches the outbox, all in one asyncio task. The resolver talks
back through the outbox, as a prompt row. Processes meet in the database only.
The firmware is one loop too; interrupts only set flags or toggle modes.

`PROJECT.json` lists the hazards, each at its line, with the properties that
would catch it.

## 2. Modules

| Module | Models | Run with |
|---|---|---|
| `Outbox` | `storage.py` (outbound), `gateway.py` dispatch, `sync.py` outbox and status stages; any number of processes | `MCOutbox` |
| `OutboxPromise` | abstract: what Snippen sees of its items | refined by `Outbox` and by `FirmwareGateway` (`KeepsPromise`) |
| `OutboxProofs` | theorems about `Outbox` | tlapm |
| `RateLimiter` | `limiter.py`, `firmware/rate_limiter.py` | itself |
| `RateLimiterProofs` | theorems about `RateLimiter` | tlapm |
| `Inbox` | `gateway.py` polling, `reassembler.py`, `sync.py` inbox stage | `MCInbox` |
| `InboxProofs` | theorems about `Inbox` | tlapm |
| `Conversation` | `context.py`, and when `gateway.py` and `sync.py` call it | `MCConversation` |
| `ConversationProofs` | theorems about `Conversation` | tlapm |
| `Modem` | `firmware/modem.py`, `sms_encoding.py`; the modem, the SIM card and the network | `FirmwareGateway` |
| `FirmwareGateway` | the loop of `firmware/main.py`, `snippen_api.py`; composes `Modem` | `MCFirmwareGateway` |
| `FirmwareGatewayProofs` | theorems about `FirmwareGateway` and `Modem` | tlapm |
| `Provisioning` | `firmware/button.py`, `ble_config.py`, `config.py`, `wifi.py` and the modes of `main.py` | itself |
| `ProvisioningProofs` | theorems about `Provisioning` | tlapm |
| `FirmwareOta` | `firmware/ota.py`, `boot.py`, and when `main.py` calls them | `MCFirmwareOta` |
| `FirmwareOtaProofs` | theorems about `FirmwareOta` | tlapm |
| `Upgrade` | `migrations/runner.py`, `updater.py`, and the processes of `main.py` that call them | itself |
| `UpgradeProofs` | theorems about `Upgrade` | tlapm |

An operator called "Mutant of X" is a changed version of X that some property
rejects; nothing else uses it. It documents which mistake the property guards
against.

### Outbox

A row is a number below `MaxRow`; its columns are the functions `status`,
`extId`, `reported` (the `reported:` prefix that frees an id). A process has a
program counter, the local variables of `process_outbox` and `sync_*`, and
takes one step per SQL statement or per request. What the carrier took is the
history variable `accepted`, which the code cannot see. `remote` is Snippen's
side of an item; Snippen offers an item again after it was told `failed`. The
limiter is `Suspend`: it may refuse before any row. Statements fail
(`StatementFails`), a result may not be recorded (`RecordingRaises`,
`ExceptRaises`), and a process dies (`Crash`), all counted by `faults`.

A faithful detail worth knowing: `update_message_status` commits its UPDATE and
then reads the row again (`storage.py` 343 and 348). What either raises lands in
the `except` around the send, which records FAILED (`RecordRaised`), over a SENT
that may be committed already. A timeout of the provider after it accepted is
recorded FAILED as well. So FAILED says nothing about the carrier; SENT does
(`StatusTruthful`). And a result is final only once the send has let go of the
row: `ResultIsFinal` allows the one step from SENT to FAILED, by the send that
recorded it, and no other.

### RateLimiter

`history`, `openUntil` and the clock are the code's; `log` and `trips` remember
what pruning forgets. The steps are `Trip` and `Permit` (the two outcomes of
`can_send`), `RecordSend` or `SendFails`, `Forget` (`reset`, restart) and
`Elapse`. A send may last any time between `Permit` and `RecordSend`. The two
copies of the algorithm differ only in their clock.

### Inbox

A customer's message is a set of segments with a sender and a reference that
other messages share. `Poll` is one `receive_sms` with the reassembly and the
timeouts that follow; `Store` steps are one look-up and INSERT each; a report
has the steps post, mark one row, end. Clocks are abstracted: any buffer may
have timed out at a poll, except one that received a segment in this poll.
Providers either hand messages out once or list them at each poll, with an id
or without one (`WithId`: `providers/http.py` 205 takes what it is given). What
has no id is never looked up, so a listing provider without ids has every
segment stored anew at each poll, and `TextsAreWhole` excepts it. `known` is what
Snippen holds under a `gateway_id`: the first text it was told.

Neighbouring rows are joined by wording: row j continues the rows joined so far
(`ReadsOn`) when these have the length of a part that was cut, or when they end
without punctuation and j begins in lower case. Where a text begins depends on
where the one before it ended, so `Primaries` is the one set of rows that agrees
with itself.

### Conversation

One customer, any number of messages at times relative to the TTL. A
resolution is a chain of writes (`db`); one cut short applies a prefix of them.
`BookingIsFinal` has an exception, the message `sync_inbox` is resolving:
messages to resolve are chosen once per report, so a message settled by an
earlier one in the same list is resolved again, from scratch, and may get
another booking. The customer may also be prompted twice for one message.
Both are what the code does; the property says that nothing else changes a
booking.

Snippen processes any part of a report and acknowledges any part of that, or its
answer is lost; of a message it has it keeps what it was told first, as in
`Inbox`. `ToldIsKept` compares that first booking with the message's own.

What an interruption may do shows in `PromptRetried`: a crash may come between
saving the context and enqueueing the prompt, and a second one after the message
was booked by an answer to the prompt that was never sent. Nobody is asked then,
and nobody needs to be.

### Modem and FirmwareGateway

`Modem` has no specification of its own: its definitions are the driver's
operations, each one or a few exchanges of AT commands, with the modem and the
network on the other side (`Arrive`, `Ring`, `Hang`). `FirmwareGateway` is the
loop that calls them. The loop is sequential; which task comes next is left
open, because every task has its own interval, and a task once begun is
finished unless the device is reset (`Reset`: power loss or watchdog). Only the
SIM card survives a reset.

The UART is kept because the code's hardest bits are in it. `send_cmd` discards
what was announced before it (`Exchange`), so an SMS may lie on the SIM
unannounced until the next listing, and a call may be missed. A text is a
sequence of characters, split when it is sent: `ChunkEnd` is one turn of
`split_sms_body`, whose result depends on the text alone. A chunk is taken or
not, and confirmed or not; whether the retry as CMGS came in between makes no
difference. Listing falls back to text mode (`ListSim`); segments are deleted
one by one; the reassembler's buffers live in the driver, which the power
cycle replaces (`PowerCycle`).

`delivered`, `unanswered`, `undeleted`, `lost` and `forgotten` are histories
that name the reasons for a repetition or a loss. The loop refines
`OutboxPromise`, the same abstract specification as the daemon's outbox, with a
message as one transmission only when its last character was taken.

Reassembly is keyed by SMS here. That several SMS may share a key, and rows may
be joined by their wording, is modelled for the daemon, in `Inbox`.

### Provisioning

Two threads of control. The callbacks of Bluetooth run to their end between two
steps of the main loop; a step of the main loop ends where it has changed what a
callback looks at, or has looked at what a callback changes. What the button has
scheduled runs on the main loop's own thread: between two ticks its change of the
mode has the same steps as the loop's (`Dispatch`, `BeginToggle`), amid one of
the loop's it is a single step. So entering the mode is `Entering`, `Starting`,
`Started` (the mode, the advertising, `is_running`), or `StartFails`, and leaving
it `Leaving`, `Parting`, `Closing`, `Forgetting` (the advertising, the central
that is known, `is_running`, `conn_handle`); `after` says what the loop goes on
with. The interrupt handler only sets the flag (`Close`). Debouncing is `steady`
(50 ms passed, or not) and, for the interrupt, left open.

The code has races here, and histories since power-on that name them.

- `crossed`: the mode was changed amid a change by the loop. `poll` looks at the
  flag and clears it later, so a dispatch in between counts one press twice; and
  APPLY_AND_EXIT or a press amid a start or a stop leaves a mode without a server,
  or a server outside the mode.
- `slipped`: a central came after `stop` had looked at the handle (248) and before
  it cleared it (255), so there is a link nobody knows of; or one went while
  `is_running` was still set, and advertising was resumed outside the mode; or one
  came and went before `start` set `is_running`, and it was not resumed.
- `serverless`: the last `start` raised (`main.py` 179), and the mode has no server.

The timeouts of `tick` repair each of them. `ReturnsToService` holds across all;
`TogglesAreClosings` and `BluetoothFollowsMode` say what holds without, and no
more than these is excepted: without any one of the exceptions TLC finds a
violation.

A contact that bounces when it is released counts as a press: the code has no
other way to tell (`closings` counts closings, not presses). TEST_WIFI leaves the
station on the network tested, whatever the docstring of `test_connection` says,
unless no network is named; the loop then sees a station that is connected.

What a central writes may leave a setting out, give it blank or give it a value.
`save_config` (`Save`) reads the file, truncates it and writes it again. A file
half written is unreadable, and `Setup` starts in provisioning mode; one that
cannot be read is taken for an empty one; one that cannot be opened stays.
`spoilt` counts the resets and the failures that destroyed the file, and
`SecretsKept` excepts exactly those. What the running program knows of its secrets
it keeps even then.

### FirmwareOta

An action is one file operation. Files hold a release number, nothing, or a
partial write. `boot.py` and `main.py` are files like any other and part of
every bundle. `Reset` (power loss, crash, watchdog) may come between any two
operations and may tear the file being written. The order of files is free:
MicroPython's dictionaries keep none.

Writes and renames may raise `OSError`. Where the code only warns the models go on
as it does: a boot that is not counted (`BootUncounted`: what the record said may
be lost), a failed release that is not written down (`RecordFails`, with the
history `unrecorded`), a file that was removed and cannot be renamed back
(`RestoreFails`). These and the resets share the bound `faults`.

The properties hold as long as no update was left half done (`cut`): a reset
during the activation or the purging of backups, a failed copy or rename (of an
activation or of a rollback), or a reset while `boot.py` is removed. The code
really loses its guarantees there: a reset between two activated files leaves a
mixture that is confirmed if it runs for 30 seconds; without `boot.py` nobody
counts the attempt. Everything else (resets while staging, while the record is
written, booting, running, and within a rollback) is covered, so a rollback that
loses power is resumed. One that could not write `ota_failed.json` restores the
release all the same, but the failed one is not remembered and may be installed
again (`RollbackRestores`).

### Upgrade

Release r comes with the migrations 1..r. A process runs the code it was
started with (`runs`) but reads the migrations from the disk, which an update
may have replaced meanwhile. `Look`, `Find`, `Baseline` and `ReadPending` are
the statements of `run_migrations` before its transactions, so that processes
interleave between them; `ApplyMigration` is one transaction, with the failure
of a record or a column that is there already. Waiting for SQLite's lock is
left out: a process that gave up waiting ends as one that died.

`Init` includes a database from before there were migrations: the table of
messages without a record. GitHub's latest release never goes back; pip
replaces the package at once or not at all (both are external to this code).
An update that looked at GitHub before another one finished may put an older
release in place of a newer one (`downgraded`): then a daemon may serve a
schema it does not know, and `ServesItsSchema` excepts that. A digest that
cannot be had is no obstacle to an installation (`unchecked`), and migrations
that fail after one are only a warning.

## 3. Runs

| Run | Instance | Shows |
|---|---|---|
| `limiter` | 2 sends per 2 ticks, 3 per 4, cooloff 2, clock up to 12 | windows never overflow, quiet while open, refusals end |
| `outbox_daemon` | one process, 2 items, 4 rows, 3 offers, 1 prompt, 2 faults | truth, FIFO, results final once a row is let go, repetitions only by faults, refinement of `OutboxPromise` |
| `outbox_live` | one process, one malformed item of two, 1 local row, 1 fault | every row tried, every item reported |
| `inbox` | 2 senders, 2 segments each, one reference, one of them without ids, both providers, 1 fault | texts whole and unmixed, never dropped silently, acknowledged when held |
| `inbox_live` | two segments and one, fair | everything stored and processed in the end |
| `conversation` | 3 messages, 2 bookings, look-ups that find 0-2 of them, the reply `2' or any other text, 1 interruption | context, prompts, reports and bookings agree |
| `firmware` | a short and a long message, an SMS in 2 segments of which one cannot be decoded, a caller and a withheld number; any 2 events, any 2 faults | no repetition or loss without a named reason; refinement of `OutboxPromise`; everything forwarded and reported in the end |
| `provisioning` | 2 settings of which one secret, any 3 events, 2 queued Bluetooth events | one press, one toggle; server follows mode; secrets kept; back in service |
| `provisioning_held` | a button held, nothing else | **violation**: a button held at power-on leaves the mode it entered |
| `ota` | 2 releases, 4 files, 2 updates, 2 resets or failures | update settled; rollback exact; whole release |
| `ota_brick` | 1 update, 1 fault | **violation**: `main.py` lost for good |
| `upgrade` | daemon and 2 commands, 2 releases, the second not repeatable, 1 crash | records match the schema; the daemon has its schema, and comes up again |

Why the bounds are enough. *Limiter*: the hourly window is longer than burst
window and cooloff, so all three interact, and twelve ticks hold several
windows. *Outbox*: two items and a prompt make three rows that overlap and a
fourth that a re-offer needs; two faults allow one to follow from the other; the
batch limit 2 and report limit 1 are reached. *Inbox*: two messages under one
reference is what mixing takes; three rows leave room for one of them broken up
by a timeout, or for a segment stored anew; in `inbox` one message comes with
ids and the other without, in `inbox_live` both come with them. *Conversation*:
one message to be asked about, one answer, and a third that arrives in between
or after; one interruption, which may lose the prompt. What a second one can add
is covered by the theorems, which hold for any number. *FirmwareGateway*: the
long text takes two chunks and breaks at a space before a wide character; the
cache holds one entry, so a second message pushes out the first; two faults let
a reset follow a lost confirmation, or a hang last until the third heartbeat
while something else fails. *Provisioning*: three events are a press, a
connection and a command, or two presses and a reset, or a press, a connection
and a save that fails; every race named above happens within them (each was
found by TLC before it was excepted). *Upgrade*: two releases make a schema that
is behind; two commands and the daemon race in pairs while one of them dies.
*FirmwareOta*: the second update replaces the backups of the first one; two
faults allow a failed first boot and then a rollback cut short, or one that
cannot write down the failed release. `CHECK_DEADLOCK FALSE` is set where the
bounds let a model come to rest (all messages handled, no updates left); the
limiter and the outbox daemon are checked for deadlock.

Fairness. The gateway's `run` starts a tick after every poll interval and
systemd restarts a daemon that died, so steps of the loop are weakly fair. A
request to Snippen, a poll or a permission by the limiter that is attempted
again and again succeeds sometimes: strong fairness, which assumes that
Snippen, the provider and the network are not down for ever; `RefusalEnds` is why
the limiter deserves it. In `FirmwareOta` a device with power goes on working. In
`FirmwareGateway` the steps of a task are weakly fair, and the tasks are
strongly fair one by one, because `tick` runs each when its interval is over,
and no task is skipped for another; a buffer of the reassembler grows too old
some day, which is strong fairness of an assembly that keeps none of the old
ones. In `Provisioning` callbacks are made, the loop goes on, and its timeouts,
once possible again and again, expire; the access point answers in the end one
who keeps asking. In `Upgrade` a running process takes its steps, and something
starts the daemon again after it ended: that is an assumption about the
installation, as `main.py` 186 makes it too ("If running as a systemd
service"). Faults, offers, calls and resets are never fair and are bounded.

## 4. Proofs

All theorems hold for every value of the constants under the ASSUMEs of the
modules.

*RateLimiter.* `IInv` relates the pruned history to the unpruned log: every
send the hourly window still holds is in `history`, and while a send is under
way both windows have room for it (`RecordFits`). `BurstBound` alone is not
inductive: it does not say that what `can_send` counted is still what the log
holds when `record_send` comes. The proof needs BurstWindow <= HourlyWindow,
because the history is pruned by the hourly window only; a configuration that
has it the other way round is accepted by the code and not covered.

*Outbox, any number of processes.* `IInv` adds what processes carry in their
locals: the row whose send succeeded was accepted, and statuses read for a
report were true. `TypeCorrect`, `StatusIsTruthful`, `RemoteIsTruthful`.

*Outbox, one process that synchronises.* `SyncInv`: the item about to be
inserted is still not stored, which is what makes SELECT-then-INSERT safe with
one synchroniser and unsafe with two. `OneRowPerItem`. That is an assumption of
the theorem (`OneSyncer`); README.md lets users run `sync` beside the daemon.

*Outbox, one process that sends.* `SendInv`: rows held for sending are pending,
and each acceptance beyond the first is paid for by a fault.
`RepeatsAreCounted`. With two senders nothing claims a row:
`snippen-sms send` saves its row PENDING before it sends it, and the daemon
takes the row too.

*Outbox, one process that dispatches and nobody else sending.* `QueueInv`: ids
grow as rows are inserted, and no pending row that is older than one of the batch
being worked through is missing from it. `OldestFirst` looks at the step of
one send only; what makes it true is what happened when the batch was read, so
the batch is in the invariant. `OldestGoesFirst`.

*Outbox, one process that both synchronises and sends (`OneGateway`), as the
daemon does.* `FreshInv`: what a report carries is at most one report behind the
table, and no report is under way while a row is sent or its result recorded.
`ResultsAreFinal`. The assumption is needed: `snippen-sms sync` beside the daemon
may read and report a committed SENT just before the daemon, whose read of the
row raised, makes FAILED of it, and then a reported result changes and Snippen
was told `sent' of a row that failed.

*Outbox as an implementation of `OutboxPromise`, under the same assumption.*
`AgreeInv`: what Snippen may be told of an item follows from the status of its
live row (`MayBeTold`: nothing of a pending row, `sent' of one that is sent or
delivered, `failed' of one that failed), and what a process read for a report
agrees with it. With `IInv`, `SyncInv`, `SendInv` and `FreshInv`, every step
then maps to a step of `OutboxPromise` or to none. `PromiseIsKept` is the
refinement the run `outbox_daemon` checks on its instance.

*Inbox, the report.* `HeldInv`, for any messages and rows: a row Snippen holds a
text of is processed or among the acknowledged ones, and each of these is held.
The first half is what the proof turns on: a batch consists of rows that are
still `received', so none of it is held under its own id, so Snippen takes the
text it is given for each instead of keeping an earlier one. `MarkedIsHeld` has
the hypothesis of `ProcessedIsHeld`, that every answer was acted upon; without it
the first half fails, as section 5 says. `SendersStayApart`: rows are joined one
by one, each with its neighbour, so a stranger's row among them would have a
first one (the least number, by well-foundedness), and its predecessor would be
of the same sender.

*Inbox, polling and storing.* A poll folds `AddMessage` over the listing. What it
yields for a listing of any length is had without an induction theorem:
`FoldTrace` turns the fold into the sequence of what it had after each segment,
and `FoldKeeps` says that what holds at its beginning and is kept by each segment
holds at its end, since otherwise there would be a first segment it failed at.
`Good` there is a set of pairs, the number of segments added and the result so
far, so that what is kept may speak of the place in the listing.

- `InboxIsTyped`: with the types of buffers (`PollTyped`: an open buffer is named
  for a segment; items are ready exactly while they are being stored) and of rows.
- `RowsAreOneCustomers`: a row has one customer's segments, that of the number it
  is reported under, without any assumption on references.
- `TextsAreKeptWhole`, `NothingIsDropped`: `WholeInv`. `Sorting`: buffers, items
  and rows have segments of one message each, the one they are named for. For a
  provider that hands a message out once, `InOnePlace`: a segment is listed,
  buffered, ready or in a row, never in two of these or in two items, and in one
  of them as long as nothing failed. For one that lists all it holds this is
  false, since every poll meets the same segments again. There `Listing`: a
  buffer has exactly the segments of its message that some beginning of the
  listing has, and everything is named for the segment its message opens with,
  so that a message that is put together again, or broken up by a timeout, has
  the id it had, and the look-up of the id, if it has one, finds the row. In the
  middle of a poll the buffer has what the listing has up to there or what an
  earlier poll found beyond it, or was filled in this poll (`Following`). Neither
  property is inductive: whether the next item repeats a row depends on where the
  segments of that row are besides, and under which id they would come again.

These two theorems assume `OneReference`: the messages a customer writes in
several segments carry different references. The code does not see to that. A
telephone numbers its messages in the UDH, modulo 256 or 65536; but an indicator
in the text gives the reference `txt_2' to all two-part texts of a sender, and
two of them that overlap, or are both listed, are mixed by `add_message`: the
second part 1 replaces the first. So the assumption is needed, and it is what the
run `inbox` has: its two messages share a reference and differ in their sender.

*Conversation.* `Outcome` says what the database may hold after any prefix of
the writes of a resolution, `Completed` what it holds after all of them; one
lemma per path shows both (`ResolverPath`). `ConvInv` adds that a message that
has not come is neither booked nor asked about, that sync_inbox resolves only
unprocessed messages, and `PromptDue`: who has not been asked about a message
without a booking has it in the list of the report under way or will have it in
the next. `PromptRetried` is not inductive without the list. Hence `TypeCorrect`,
`ContextStaysConsistent`, `PromptIsDue`, `ReportsStayTrue` and
`BookingsAreFinal`: every safety property of the module.

*Provisioning.* `ToggleInv`: while a closing may still become a toggle (seen by
the interrupt, found by the poll, or there for the poll to see), toggles and one
more are no more than closings and crossings. `TogglesAreClosings` alone is not
inductive, since it does not say that a closing already taken for a toggle does
not wait any more. `OnePressOneToggle`. `SecretsAreKept` needs no invariant, only
what merging and saving do (`MergedKeeps`, `SaveKeeps`). `ServerInv`, while
nothing was crossed: `Followed` says for each place the loop is at, between the
steps of `start` and `stop` too, what the mode and `is_running` are; and, while
nothing slipped through, `Findable` and `Hidden` say in which of these places the
device is advertising, and `Informed` that what it believes of the central is
right after the last queued event. Each step of a start or a stop breaks the
property's own wording for a while, so none of them could be left out
(`ServerFollowsMode`).

*FirmwareGateway and Modem.* `SegmentInv` counts the occurrences of a segment
over all places it may be in (not yet arrived, SIM, driver, buffers, texts being
forwarded, Snippen): one, and one more for each deletion that failed.
`LossesAreKnown` and half of `RepeatsHaveCauses` follow. `MessageInv` relates
what was transmitted to the recent-sent cache and to the causes of repetitions:
each transmission of an item has its cause, but for one while the item is in the
cache. `ChunkEnds` shows that each turn of `split_sms_body` advances and stays
in the text, with the greatest element of a finite set; so a text whose last
chunk was confirmed was taken to its last character. `PromiseIsKept` is the
refinement of `OutboxPromise`, transmissions numbered without a bound.
`DeviceIsTyped` adds what those two say nothing of (`DeviceInv`): announcements
are of callers and SMS, the place in a text and what was handed over of it have
their types, the recent-sent cache keeps to its length, failed sends are counted
up to two, and every reset is one of the faults.

*FirmwareOta.* `FlashInv`, while no update was cut short: what can be undone has
whole backups, what is settled is one whole release, staged files are complete
before the record is written, an activation has replaced exactly the files it is
done with, and what the next power-on needs is there. `FlashIsSound` alone says
nothing of backups and staged files, and so nothing of what the next step does
with them. `FlashStaysSound`, and `RollbackIsExact` from the same invariant, which
also says that a rollback past its record has written down the failed release or
has `unrecorded` set.

*Upgrade, any number of processes, releases and crashes.* `SchemaInv`: beyond
the types, a process about to record the baseline has seen the table of
messages; one that has looked for records or is applying migrations finds
records and schema equal; and no gap lies below what is pending. So the least
pending migration, applied, leaves no gap either, which is why
`SchemaMatchesLog` alone is not inductive. `SchemaIsRecorded`. `Serving`: the
daemon has no target short of the last migration, what it was started with is
still on the disk or was overtaken there (without a downgrade), and what it
needs is recorded or in its list. `DaemonServesItsSchema`. `Verifying`: what is
about to be installed was accepted. `InstallationIsVerified`.

Only model-checked: liveness under fairness, which is out of the prover's reach
(`EveryItemServed`, `EverySmsStored`, `EveryRowProcessed`, `EveryItemReported`,
`EverySmsForwarded`, `PendingIsSettled`, `ReturnsToService`, `ServesAgain`). Every
invariant and every action property that a run checks is a theorem.

## 5. Findings

Two, each with a run that shows it:

* `ota_brick`: a failed copy leaves a truncated backup that the rollback
  restores over the intact file (`firmware/ota.py` 459, against DEV_README.md
  285).
* `provisioning_held`: a button held at power-on enters provisioning mode in
  `setup`, and the first polls take the same contact for a press that leaves it
  (`firmware/main.py` 536 and `button.py` 65, against CHANGELOG.md 562).

Five more places where the code and a document disagree were met while
modelling. The models contain the behaviour; the properties except it:

* A row is sent once? `send` beside the daemon sends it twice (`gateway.py` 323:
  the row is PENDING from the start; README.md 128 and
  docs/PRODUKSJONSSETTING.md 50 present `send` as a tool to use at any time).
* Nothing is lost? An INSERT that fails drops a message a draining provider has
  handed out (`gateway.py` 437; docs/architecture.md 255).
* Deduplicated automatically? Only what has an id is looked up (`gateway.py` 398),
  and `providers/http.py` 205 accepts messages without one: a provider that lists
  them has them stored and reported again at every poll (README.md 156,
  docs/architecture.md 252).
* Zero data loss? After a lost answer another row is joined under an id Snippen
  knows and is acknowledged unread (`reassembler.py` 326;
  docs/architecture.md 382).
* A resolved booking is reported? The booking a customer chooses is written to a
  message that was reported before, and nothing reports it again (`context.py`
  193; docs/architecture.md 342).

## 6. Not modelled

Texts, formats and transports (HTTP, PDU and AT framing, JSON) are data: which
segments can be decoded, which reference they carry, what a customer answers.
Configuration and the CLI's output, logging, telemetry, self-tests, build
scripts and the web page keep no state of the running system.

Left out although they have state: `stop()` closing the store during a send;
`save_message` of the resolver beside a second process; items without an id
(each synchronisation enqueues them anew); a limiter per process; GET_STATUS,
whose AT commands run in a Bluetooth callback amid those of the main loop;
`sms_auto_delete = False`; call forwarding. Each that can go wrong is a hazard
in `PROJECT.json`, with a note.

## 7. Plan

Done: every component with state of its own has a module. What is left, in
order of importance:

1. `stop()` during a send, and the resolver beside a second process.
2. GET_STATUS in a callback: `Modem` with two users.
3. Algorithms against a reference definition: indicator parsing, semantic
   versions, groups of stored rows.
4. Proofs: what of items 1 to 3 comes in; how far `Inbox` holds where one
   sender's references coincide.
