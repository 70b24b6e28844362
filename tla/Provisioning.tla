---------------------------- MODULE Provisioning ----------------------------
(***************************************************************************)
(* The provisioning mode of the modem firmware: the BOOT button that       *)
(* enters and leaves it (firmware/button.py), the Bluetooth server that is *)
(* up in it (firmware/ble_config.py), the configuration it stores          *)
(* (firmware/config.py), the Wi-Fi connection it interferes with           *)
(* (firmware/wifi.py), and the part of the event loop that gets the        *)
(* gateway back into service (firmware/main.py).                           *)
(*                                                                         *)
(* Two threads of control: the main loop, which also runs what the button  *)
(* has scheduled, and the callbacks of Bluetooth, each of which runs to    *)
(* its end between two steps of the main loop.  A step of the main loop    *)
(* ends where it has changed what a callback looks at, or has looked at    *)
(* what a callback changes.                                                *)
(***************************************************************************)
EXTENDS Naturals, Sequences

CONSTANTS
  Key, Ssid, Secret,  \* settings; the network's name; those never overwritten by a blank
  Unknown,            \* a setting this firmware does not have
  MaxQueue,           \* bound: events of Bluetooth not yet handled
  MaxEvent            \* bound: what people do, networks lost, failures and resets

ASSUME ProvisioningAssumption ==
  /\ Unknown \notin Key /\ Ssid \in Key /\ Secret \subseteq Key \ {Ssid}
  /\ MaxQueue \in Nat /\ MaxEvent \in Nat

VARIABLES
  pc,        \* what the main loop is doing
  after,     \* what follows the change of mode under way
  mode,      \* is_provisioning_mode
  live,      \* live_operations_active
  ota,       \* pending_ota_request is set
  running, advertising,  \* the Bluetooth server; its advertising
  conn,      \* conn_handle is set
  link,      \* a central is connected
  queue,     \* events of Bluetooth on their way to _irq_handler
  down,      \* the button's contact is closed
  flag,      \* _irq_triggered
  scheduled, \* _scheduled_irq_dispatch is
  pressed,   \* _is_pressed
  sample,    \* _last_raw_val
  steady,    \* the sample has not changed for debounce_ms
  stored,    \* the settings config.json holds a value for
  config,    \* those the running program has
  wifi,      \* the Wi-Fi station: off, joining, or joined
  \* Histories, since power-on:
  closings, toggles,  \* of the contact, of the mode by the button
  crossed,   \* times the mode was changed amid a change of mode by the main loop
  slipped,   \* a central came or went unnoticed amid a start or a stop
  serverless, \* the last start of the server failed
  held,      \* the button has been held since power-on
  spoilt,    \* history of the device: times a reset or a failed access destroyed config.json
  events     \* counter for the bound

modeVars == <<mode, live>>
server == <<running, advertising, conn, link, queue>>
button == <<down, flag, scheduled, pressed, sample, steady>>
settings == <<stored, config>>
history == <<closings, toggles, crossed, slipped, serverless, held, spoilt>>
vars == <<pc, after, modeVars, ota, server, button, settings, wifi, history, events>>

Init ==
  /\ pc = "off" /\ after = "idle" /\ mode = FALSE /\ live = TRUE /\ ota = FALSE
  /\ running = FALSE /\ advertising = FALSE /\ conn = FALSE /\ link = FALSE /\ queue = <<>>
  /\ down = FALSE /\ flag = FALSE /\ scheduled = FALSE /\ pressed = FALSE
  /\ sample = FALSE /\ steady = FALSE
  /\ stored \in {{}, Key} /\ config = {} /\ wifi = "off"
  /\ closings = 0 /\ toggles = 0 /\ crossed = 0 /\ slipped = FALSE /\ serverless = FALSE
  /\ held = FALSE /\ spoilt = 0 /\ events = 0

\* What a central writes: a command, or settings of which some are blank and some absent.
Command == {[kind |-> k, given |-> {}, blank |-> {}] :
              k \in {"scan", "test", "save", "apply", "start", "stop", "ota"}}
Blanked(g) == {[kind |-> "settings", given |-> g, blank |-> b] : b \in SUBSET (Key \ g)}
Foreign == [kind |-> "settings", given |-> {Unknown}, blank |-> {}]
Known == UNION {Blanked(g) : g \in SUBSET Key}
Settings == Known \cup {Foreign}

\* That a central came or went.
Came == [kind |-> "connect", given |-> {}, blank |-> {}]
Went == [kind |-> "disconnect", given |-> {}, blank |-> {}]

TypeOK ==
  /\ pc \in {"off", "idle", "flagged", "entering", "starting", "showing", "leaving",
             "parting", "closing", "forgetting", "updating"}
  /\ after \in {"idle", "dispatched", "leaving", "updating"}
  /\ {mode, live, ota, running, advertising, conn, link} \subseteq BOOLEAN
  /\ {down, flag, scheduled, pressed, sample, steady, held} \subseteq BOOLEAN
  /\ {slipped, serverless} \subseteq BOOLEAN
  /\ \A k \in DOMAIN queue : queue[k] \in {Came, Went} \cup Command \cup Settings
  /\ stored \subseteq Key /\ config \subseteq Key \cup {Unknown} /\ wifi \in {"off", "joining", "joined"}
  /\ {closings, toggles, crossed} \subseteq Nat /\ spoilt \in 0..MaxEvent
  /\ events \in 0..MaxEvent

Goto(p) == pc' = p
Event == events < MaxEvent /\ events' = events + 1

-----------------------------------------------------------------------------
(* The mode and the Bluetooth server.                                      *)

\* enter_provisioning_mode, up to the server: a connection being made is given up.
SetMode ==
  /\ mode' = TRUE /\ live' = FALSE
  /\ wifi' = IF wifi = "joined" THEN wifi ELSE "off"

\* exit_provisioning_mode, up to the server.
ClearMode == mode' = FALSE /\ live' = TRUE /\ UNCHANGED wifi

\* Amid something else, start and stop are one step.  start may fail.
StartServer ==
  \/ running /\ UNCHANGED <<server, serverless, events>>
  \/ /\ ~running /\ running' = TRUE /\ advertising' = TRUE /\ serverless' = FALSE
     /\ UNCHANGED <<conn, link, queue, events>>
  \/ ~running /\ Event /\ serverless' = TRUE /\ UNCHANGED server

\* stop disconnects the central if it knows of one; the stack will announce that.
\* The events in q are then still to be handled.
StopServer(known, q) ==
  IF ~running THEN conn' = known /\ queue' = q /\ UNCHANGED <<running, advertising, link>>
  ELSE /\ running' = FALSE /\ advertising' = FALSE /\ conn' = FALSE
       /\ link' = (link /\ ~known)
       /\ queue' = IF link /\ known THEN Append(q, Went) ELSE q

Toggle ==
  IF mode THEN ClearMode /\ StopServer(conn, queue) /\ UNCHANGED <<serverless, events>>
          ELSE SetMode /\ StartServer

\* The main loop begins to leave the mode, to go on with a ...
BeginLeave(a) == ClearMode /\ Goto("leaving") /\ after' = a

\* ... or does what the button asks for.
BeginToggle(a) ==
  IF mode THEN BeginLeave(a) ELSE SetMode /\ Goto("entering") /\ after' = a

-----------------------------------------------------------------------------
(* The button: its contact, _on_irq, _scheduled_irq_dispatch, poll         *)

\* A contact that closes, pressed or bouncing, raises an interrupt, unless the last one
\* came within debounce_ms, which is left open; the flag stays up if the dispatch cannot
\* be scheduled.
Close ==
  /\ Event /\ ~down /\ down' = TRUE /\ closings' = closings + 1
  /\ \/ pc # "off" /\ flag' = TRUE /\ scheduled' \in {scheduled, TRUE}
     \/ UNCHANGED <<flag, scheduled>>
  /\ UNCHANGED <<pc, after, modeVars, ota, server, pressed, sample, steady, settings, wifi>>
  /\ UNCHANGED <<toggles, crossed, slipped, serverless, held, spoilt>>

Open ==
  /\ down /\ down' = FALSE /\ held' = FALSE
  /\ UNCHANGED <<pc, after, modeVars, ota, server, flag, scheduled, pressed, sample, steady>>
  /\ UNCHANGED <<settings, wifi, closings, toggles, crossed, slipped, serverless>>
  /\ UNCHANGED <<spoilt, events>>

\* debounce_ms have passed since the last change seen.
Settle ==
  /\ steady' = TRUE
  /\ UNCHANGED <<pc, after, modeVars, ota, server, down, flag, scheduled, pressed, sample>>
  /\ UNCHANGED <<settings, wifi, history, events>>

\* What the scheduled callback does is a change of mode like the main loop's, which
\* waits for it; but one that comes amid such a change is not broken into steps.
Obey ==
  /\ flag' = FALSE /\ pressed' = down /\ toggles' = toggles + 1
  /\ IF pc = "idle"
     THEN BeginToggle("dispatched") /\ UNCHANGED <<server, crossed, serverless, events>>
     ELSE Toggle /\ crossed' = crossed + 1 /\ UNCHANGED <<pc, after>>

\* Scheduled callbacks come one at a time.
Due == pc # "off" /\ after # "dispatched" /\ scheduled /\ scheduled' = FALSE

obeyed == <<ota, down, sample, steady, settings, closings, slipped, held, spoilt>>

\* Mutant of Dispatch: what poll has already handled is handled again
DispatchAlways == Due /\ Obey /\ UNCHANGED obeyed

Dispatch ==
  /\ Due
  /\ IF flag THEN Obey
     ELSE UNCHANGED <<pc, after, flag, pressed, modeVars, wifi, server, toggles, crossed>>
          /\ UNCHANGED <<serverless, events>>
  /\ UNCHANGED obeyed

\* The main loop polls: it finds the flag ...
PollFlag ==
  /\ pc = "idle" /\ flag /\ Goto("flagged")
  /\ UNCHANGED <<after, modeVars, ota, server, button, settings, wifi, history, events>>

\* ... and takes it down, although a callback may have done so in between ...
TakeFlag ==
  /\ pc = "flagged" /\ flag' = FALSE /\ pressed' = down
  /\ BeginToggle("idle") /\ toggles' = toggles + 1
  /\ UNCHANGED <<ota, server, down, scheduled, sample, steady, settings>>
  /\ UNCHANGED <<closings, crossed, slipped, serverless, held, spoilt, events>>

\* ... or the contact, which counts when it has been steady.
PollContact ==
  /\ pc = "idle" /\ ~flag /\ sample' = down /\ steady' = (steady /\ sample = down)
  /\ IF steady' /\ down # pressed THEN pressed' = down ELSE UNCHANGED pressed
  /\ IF steady' /\ down /\ ~pressed
     THEN BeginToggle("idle") /\ toggles' = toggles + 1
     ELSE UNCHANGED <<pc, after, modeVars, wifi, toggles>>
  /\ UNCHANGED <<ota, server, down, flag, scheduled, settings>>
  /\ UNCHANGED <<closings, crossed, slipped, serverless, held, spoilt, events>>

-----------------------------------------------------------------------------
(* The central and the Bluetooth stack: _irq_handler, _handle_write        *)

Connect ==
  /\ Event /\ advertising /\ ~link /\ Len(queue) < MaxQueue
  /\ link' = TRUE /\ advertising' = FALSE /\ queue' = Append(queue, Came)
  /\ UNCHANGED <<pc, after, modeVars, ota, running, conn, button, settings, wifi, history>>

Disconnect ==
  /\ link /\ link' = FALSE /\ queue' = Append(queue, Went)
  /\ UNCHANGED <<pc, after, modeVars, ota, running, advertising, conn, button, settings, wifi>>
  /\ UNCHANGED <<history, events>>

Write(w) ==
  /\ Event /\ link /\ Len(queue) < MaxQueue /\ queue' = Append(queue, w)
  /\ UNCHANGED <<pc, after, modeVars, ota, running, advertising, conn, link, button>>
  /\ UNCHANGED <<settings, wifi, history>>

\* The next event reaches its callback.
Handle(k) == pc # "off" /\ queue # <<>> /\ k = Head(queue).kind

\* What no callback of Bluetooth changes.
outside == <<pc, after, running, link, button, closings, toggles, serverless, held>>

OnConnect ==
  /\ Handle("connect") /\ queue' = Tail(queue) /\ conn' = TRUE
  /\ UNCHANGED <<advertising, modeVars, ota, settings, wifi, crossed, slipped, spoilt, events>>
  /\ UNCHANGED outside

\* Advertising is resumed where it was just stopped, or is not where it was just begun.
Slip ==
  \/ running /\ pc \in {"parting", "closing"}
  \/ ~running /\ ~advertising /\ pc = "showing"

gone == <<modeVars, ota, settings, wifi, crossed, spoilt, events, outside>>

\* Mutant of OnDisconnect: advertising is not resumed
OnDisconnectQuiet ==
  /\ Handle("disconnect") /\ queue' = Tail(queue) /\ conn' = FALSE
  /\ slipped' = (slipped \/ Slip)
  /\ UNCHANGED <<advertising, gone>>

\* Mutant of OnDisconnect: the handle is kept
OnDisconnectStale ==
  /\ Handle("disconnect") /\ queue' = Tail(queue)
  /\ advertising' = (advertising \/ running) /\ slipped' = (slipped \/ Slip)
  /\ UNCHANGED <<conn, gone>>

\* Advertising is resumed if the server is up.
OnDisconnect ==
  /\ Handle("disconnect") /\ queue' = Tail(queue) /\ conn' = FALSE
  /\ advertising' = (advertising \/ running) /\ slipped' = (slipped \/ Slip)
  /\ UNCHANGED gone

\* Mutant of Cleaned: a blank is a value like another
Uncleaned(w) == w

\* A secret given as blank is left out: by the server, the callback and save_config.
Cleaned(w) == [w EXCEPT !.blank = @ \ Secret]

Merged(old, w) == (old \ Cleaned(w).blank) \cup w.given

\* save_config stores the settings it knows.
Stored(old, w) == Merged(old, w) \cap Key

\* It rewrites config.json in place.  A file that cannot be read is taken for an empty
\* one; one that cannot be opened stays; and one that was opened and cannot be written
\* is left unreadable.
Save(w) ==
  \/ stored' = Stored(stored, w) /\ UNCHANGED <<spoilt, events>>
  \/ Event /\ UNCHANGED <<stored, spoilt>>
  \/ Event /\ stored' \in {Stored({}, w), {}} /\ spoilt' = spoilt + 1

OnSettings ==
  /\ Handle("settings") /\ queue' = Tail(queue) /\ conn' = TRUE
  /\ config' = Merged(config, Head(queue)) /\ Save(Head(queue))
  /\ UNCHANGED <<advertising, modeVars, ota, wifi, crossed, slipped, outside>>

\* scan_networks disconnects; test_connection leaves the station as it ends up, unless
\* no network is named.
OnRadio(k) ==
  /\ Handle(k) /\ queue' = Tail(queue) /\ conn' = TRUE
  /\ wifi' \in IF k = "scan" THEN {"off"}
               ELSE {"joined", "joining"} \cup (IF Ssid \in config THEN {} ELSE {wifi})
  /\ UNCHANGED <<advertising, modeVars, ota, settings, crossed, slipped, spoilt, events>>
  /\ UNCHANGED outside

\* SAVE_CONFIG and APPLY_AND_EXIT store what the program has.
Own == [kind |-> "settings", given |-> config, blank |-> Key \ config]

OnSave ==
  /\ Handle("save") /\ queue' = Tail(queue) /\ conn' = TRUE /\ Save(Own)
  /\ UNCHANGED <<advertising, modeVars, ota, config, wifi, crossed, slipped, outside>>

OnApply ==
  /\ Handle("apply") /\ Save(Own)
  /\ IF mode
     THEN /\ ClearMode /\ StopServer(TRUE, Tail(queue))
          /\ crossed' = IF pc = "idle" THEN crossed ELSE crossed + 1
     ELSE /\ conn' = TRUE /\ queue' = Tail(queue)
          /\ UNCHANGED <<modeVars, wifi, crossed, running, advertising, link>>
  /\ UNCHANGED <<pc, after, config, ota, button, closings, toggles, slipped, serverless>>
  /\ UNCHANGED <<held>>

\* START_OPERATIONS, STOP_OPERATIONS
OnOperations(k) ==
  /\ Handle(k) /\ queue' = Tail(queue) /\ conn' = TRUE
  /\ live' = (k = "start")
  /\ UNCHANGED <<advertising, mode, ota, settings, wifi, crossed, slipped, spoilt, events>>
  /\ UNCHANGED outside

\* START_OTA is left to the main loop.
OnOta ==
  /\ Handle("ota") /\ queue' = Tail(queue) /\ conn' = TRUE /\ ota' = TRUE
  /\ UNCHANGED <<advertising, modeVars, settings, wifi, crossed, slipped, spoilt, events>>
  /\ UNCHANGED outside

-----------------------------------------------------------------------------
(* The main loop: setup, tick, _process_pending_ota                        *)

\* A reset, which may come while config.json is being written.  A contact that is
\* closed at power-on counts as one that closes.
Reset ==
  /\ pc # "off" /\ Event /\ Goto("off") /\ after' = "idle"
  /\ mode' = FALSE /\ live' = TRUE /\ ota' = FALSE
  /\ running' = FALSE /\ advertising' = FALSE /\ conn' = FALSE /\ link' = FALSE /\ queue' = <<>>
  /\ flag' = FALSE /\ scheduled' = FALSE /\ pressed' = FALSE
  /\ sample' = FALSE /\ steady' = FALSE /\ wifi' = "off"
  /\ closings' = (IF down THEN 1 ELSE 0) /\ toggles' = 0
  /\ crossed' = 0 /\ slipped' = FALSE /\ serverless' = FALSE
  /\ \/ UNCHANGED <<stored, spoilt>>
     \/ \E k \in DOMAIN queue : queue[k].kind \in {"settings", "save", "apply"}
        /\ stored' = {} /\ spoilt' = spoilt + 1
  /\ UNCHANGED <<down, config, held>>

\* The stored settings are loaded.  Without them, or with the button held, the
\* device starts in provisioning mode.
Setup ==
  /\ pc = "off" /\ config' = stored /\ held' = down
  /\ IF stored # Key \/ down
     THEN SetMode /\ Goto("entering")
     ELSE Goto("idle") /\ wifi' = "joining" /\ UNCHANGED modeVars
  /\ UNCHANGED <<after, ota, server, button, stored, closings, toggles, crossed, slipped>>
  /\ UNCHANGED <<serverless, spoilt, events>>

\* What a change of mode does not touch.
apart == <<button, settings, closings, toggles, crossed, held, spoilt>>
mainOnly == <<apart, slipped, serverless, events>>

\* start: is_running is looked at first ...
Entering ==
  /\ pc = "entering"
  /\ IF running THEN Goto("idle") /\ after' = "idle" ELSE Goto("starting") /\ UNCHANGED after
  /\ UNCHANGED <<modeVars, ota, server, wifi, mainOnly>>

\* ... the device can be found ...
Starting ==
  /\ pc = "starting" /\ Goto("showing") /\ advertising' = TRUE
  /\ UNCHANGED <<after, running, conn, link, queue, modeVars, ota, wifi, mainOnly>>

\* ... and is_running is set last.
Started ==
  /\ pc = "showing" /\ Goto("idle") /\ after' = "idle"
  /\ running' = TRUE /\ serverless' = FALSE
  /\ UNCHANGED <<advertising, conn, link, queue, modeVars, ota, wifi, apart, slipped, events>>

\* What it does before may raise: the mode is entered without the server.
StartFails ==
  /\ pc = "starting" /\ Event /\ Goto("idle") /\ after' = "idle" /\ serverless' = TRUE
  /\ UNCHANGED <<server, modeVars, ota, wifi, apart, slipped>>

\* The change of mode is over; a server that timed out is stopped once more.
Return ==
  /\ Goto(IF after = "dispatched" THEN "idle" ELSE after) /\ after' = "idle"

\* stop: a server that is up cannot be found any more, ...
Leaving ==
  /\ pc = "leaving"
  /\ IF running THEN Goto("parting") /\ advertising' = FALSE /\ UNCHANGED after
     ELSE Return /\ UNCHANGED advertising
  /\ UNCHANGED <<running, conn, link, queue, modeVars, ota, wifi, mainOnly>>

\* ... the central it knows of is disconnected, ...
Parting ==
  /\ pc = "parting" /\ Goto("closing")
  /\ link' = (link /\ ~conn)
  /\ queue' = IF link /\ conn THEN Append(queue, Went) ELSE queue
  /\ UNCHANGED <<after, running, advertising, conn, modeVars, ota, wifi, mainOnly>>

\* ... and the server is down ...
Closing ==
  /\ pc = "closing" /\ Goto("forgetting") /\ running' = FALSE
  /\ UNCHANGED <<after, advertising, conn, link, queue, modeVars, ota, wifi, mainOnly>>

\* ... and without the handle, be it of a central that came in the meantime.
Forgetting ==
  /\ pc = "forgetting" /\ Return /\ conn' = FALSE
  /\ slipped' = (slipped \/ (link /\ queue = <<>>))
  /\ UNCHANGED <<running, advertising, link, queue, modeVars, ota, wifi, apart, serverless>>
  /\ UNCHANGED events

\* Five minutes pass without a central: the loop's own timeout, when the
\* gateway does not operate ...
Timeout ==
  /\ pc = "idle" /\ mode /\ ~live /\ ~conn /\ BeginLeave("idle")
  /\ UNCHANGED <<ota, server, mainOnly>>

\* ... and the server's, which leaves the mode and then stops the server, again
\* if a callback has started it in between.
ServerTimeout ==
  /\ pc = "idle" /\ mode /\ running /\ ~conn /\ BeginLeave("leaving")
  /\ UNCHANGED <<ota, server, mainOnly>>

Operating == pc = "idle" /\ (mode => live)

\* A station that is not connected is told to connect, if there is a network.
Reconnect ==
  /\ Operating /\ wifi = "off" /\ Ssid \in config /\ wifi' = "joining"
  /\ UNCHANGED <<pc, after, modeVars, ota, server, mainOnly>>

\* The access point answers, or goes away.
Join ==
  /\ wifi = "joining" /\ pc # "off" /\ wifi' = "joined"
  /\ UNCHANGED <<pc, after, modeVars, ota, server, mainOnly>>

Leave ==
  /\ Event /\ wifi = "joined" /\ wifi' = "off"
  /\ UNCHANGED <<pc, after, modeVars, ota, server, button, settings, history>>

\* A queued update is taken up: Bluetooth makes way for it, whatever the mode.
TakeOta ==
  /\ pc = "idle" /\ ota /\ ota' = FALSE /\ BeginLeave("updating")
  /\ UNCHANGED <<server, mainOnly>>

\* perform_ota fails; the restart after one that succeeds is a Reset.
Update ==
  /\ pc = "updating" /\ Goto("idle")
  /\ UNCHANGED <<after, modeVars, ota, server, wifi, mainOnly>>

-----------------------------------------------------------------------------

People ==
  \/ Close \/ Open \/ Settle \/ Connect \/ Disconnect \/ Leave
  \/ \E w \in Command \cup Settings : Write(w)

Callback ==
  \/ Dispatch \/ OnConnect \/ OnDisconnect \/ OnSettings \/ OnSave \/ OnApply \/ OnOta
  \/ \E k \in {"scan", "test"} : OnRadio(k)
  \/ \E k \in {"start", "stop"} : OnOperations(k)

Main ==
  \/ Setup \/ PollFlag \/ TakeFlag \/ PollContact
  \/ Entering \/ Starting \/ Started \/ StartFails
  \/ Leaving \/ Parting \/ Closing \/ Forgetting
  \/ Timeout \/ ServerTimeout \/ Reconnect \/ TakeOta \/ Update

Next == People \/ Callback \/ Main \/ Join \/ Reset

Spec == Init /\ [][Next]_vars

\* The main loop goes on, callbacks are made, timeouts expire, and the access
\* point answers one who keeps asking.
Fairness ==
  /\ WF_vars(Callback)
  /\ WF_vars(\/ Setup \/ TakeFlag \/ Entering \/ Starting \/ Started \/ StartFails \/ Leaving
             \/ Parting \/ Closing \/ Forgetting \/ Update)
  /\ SF_vars(Timeout) /\ SF_vars(ServerTimeout) /\ SF_vars(Reconnect) /\ SF_vars(Join)

FairSpec == Spec /\ Fairness

-----------------------------------------------------------------------------
(* Properties.                                                             *)

\* The mode changes by the button no more often than the contact closes, by a
\* press or by bouncing: the interrupt, the dispatch and the poll never take one
\* closing for two, unless a callback comes amid the main loop's own handling.
TogglesAreClosings == toggles <= closings + crossed

\* "Automatically enter provisioning mode on cold boot if BOOT button is held
\* down": while it is held on, it does not take the device out of the mode.
HeldButtonProvisions == [][held /\ held' /\ mode /\ ~mode' => toggles' = toggles]_vars

\* Between two steps of the loop the Bluetooth server is up exactly in provisioning
\* mode, unless it could not be started; it can be found only then, and then unless
\* someone is connected; and it believes someone is connected exactly when that is so.
\* The code does not keep this where the mode was changed amid a change by the main
\* loop, nor after a central came between stop's look at the handle and its clearing, or
\* went between the change of the advertising and that of is_running.
BluetoothFollowsMode ==
  (pc = "idle" /\ queue = <<>> /\ crossed = 0 /\ ~slipped) =>
    /\ running = (mode /\ ~serverless)
    /\ running => link \/ advertising
    /\ advertising => running
    /\ conn = link

\* A stored secret is never blanked by what is written over Bluetooth: only a reset amid
\* the writing of the file loses it, or a read or a write of the file that fails.  And
\* what the program itself knows of the secrets it keeps until it is loaded again, for
\* a later save.
SecretsKept ==
  [][/\ (stored \cap Secret) \subseteq stored' \/ spoilt' = spoilt + 1
     /\ (config \cap Secret) \subseteq config' \/ pc = "off"]_vars

\* However the mode is entered, and whatever callbacks came amid what, a device
\* that has its settings is back in service, connected to Wi-Fi, again and again,
\* once the centrals stay away.
Serving == (mode => live) /\ wifi = "joined"
ReturnsToService ==
  (<>[]~link /\ <>[](Ssid \in config /\ stored = Key)) => []<>Serving
=============================================================================
