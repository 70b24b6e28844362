-------------------------- MODULE ProvisioningProofs --------------------------
(***************************************************************************)
(* However many settings there are, and presses, commands, failures and    *)
(* resets: one closing of the contact is never two toggles, no secret is   *)
(* blanked, and Bluetooth is on exactly in provisioning mode.              *)
(***************************************************************************)
EXTENDS Provisioning, SequenceTheorems, TLAPS

-----------------------------------------------------------------------------
(* One closing, one toggle.                                                *)

\* A closing that may still become a toggle: it was seen by the interrupt, by the
\* poll that found the flag, or it is there for the poll to see.
Waiting == flag \/ pc = "flagged" \/ (down /\ ~pressed)

\* The counters count.
Counted == closings \in Nat /\ toggles \in Nat /\ crossed \in Nat

\* Each toggle and each closing that waits has a closing or a crossing of its own.
\* TogglesAreClosings alone does not say that a closing already taken for a toggle
\* does not wait any more.
ToggleInv ==
  /\ Counted
  /\ toggles <= closings + crossed
  /\ Waiting => toggles + 1 <= closings + crossed

\* It implies the property.
LEMMA ToggleInvSuffices == ToggleInv => TogglesAreClosings
BY DEF ToggleInv, Counted, TogglesAreClosings

\* It holds initially.
LEMMA InitToggleInv == Init => ToggleInv
BY DEF Init, ToggleInv, Counted, Waiting

\* What people do adds a closing where one begins to wait.
LEMMA PeopleToggle ==
  ASSUME ToggleInv, People
  PROVE  ToggleInv'
<1> USE DEF ToggleInv, Counted, Waiting
<1>1. CASE Close
  BY <1>1 DEF Close
<1>2. CASE Open
  BY <1>2 DEF Open
<1>3. CASE Settle
  BY <1>3 DEF Settle, history
<1>4. CASE Connect \/ Disconnect \/ \E w \in Command \cup Settings : Write(w)
  BY <1>4 DEF Connect, Disconnect, Write, history, button
<1>5. CASE Leave
  BY <1>5 DEF Leave, history, button
<1> QED
  BY <1>1, <1>2, <1>3, <1>4, <1>5 DEF People

\* A change of mode begins elsewhere than where the flag was found.
LEMMA BeginGoes ==
  ASSUME NEW a, BeginToggle(a)
  PROVE  pc' # "flagged"
BY DEF BeginToggle, BeginLeave, Goto

\* A dispatch takes the flag for a toggle; where the main loop is about to take
\* the same flag, that is counted as a crossing.
LEMMA CallbackToggle ==
  ASSUME ToggleInv, Callback
  PROVE  ToggleInv'
<1> USE DEF ToggleInv, Counted, Waiting
<1>1. CASE Dispatch
  <2>1. CASE flag
    <3>1. /\ flag' = FALSE /\ pressed' = down /\ toggles' = toggles + 1
          /\ UNCHANGED <<down, closings>>
      BY <1>1, <2>1 DEF Dispatch, Obey, obeyed
    <3>2. CASE pc = "idle"
      <4>1. pc' # "flagged" /\ crossed' = crossed
        BY <1>1, <2>1, <3>2, BeginGoes DEF Dispatch, Obey
      <4> QED
        BY <2>1, <3>1, <4>1
    <3>3. CASE pc # "idle"
      <4>1. crossed' = crossed + 1
        BY <1>1, <2>1, <3>3 DEF Dispatch, Obey
      <4> QED
        BY <2>1, <3>1, <4>1
    <3> QED
      BY <3>2, <3>3
  <2>2. CASE ~flag
    BY <1>1, <2>2 DEF Dispatch, obeyed
  <2> QED
    BY <2>1, <2>2
<1>2. CASE OnApply
  <2>1. UNCHANGED <<pc, down, flag, pressed, closings, toggles>>
    BY <1>2 DEF OnApply, button
  <2>2. crossed' = crossed \/ crossed' = crossed + 1
    BY <1>2 DEF OnApply
  <2> QED
    BY <2>1, <2>2
<1>3. CASE OnConnect \/ OnDisconnect \/ OnSettings \/ OnSave \/ OnOta
  BY <1>3 DEF OnConnect, OnDisconnect, OnSettings, OnSave, OnOta, gone, outside, button
<1>4. CASE \E k \in {"scan", "test"} : OnRadio(k)
  BY <1>4 DEF OnRadio, outside, button
<1>5. CASE \E k \in {"start", "stop"} : OnOperations(k)
  BY <1>5 DEF OnOperations, outside, button
<1> QED
  BY <1>1, <1>2, <1>3, <1>4, <1>5 DEF Callback

\* What follows a change of mode is never the taking of a flag.
Onward == after # "flagged"

\* The main loop takes a closing for one toggle: after the flag, what the contact
\* shows is what was pressed.
LEMMA MainToggle ==
  ASSUME ToggleInv, Main, Onward
  PROVE  ToggleInv'
<1> USE DEF ToggleInv, Counted, Waiting
<1>1. CASE PollFlag
  BY <1>1 DEF PollFlag, history, button
<1>2. CASE TakeFlag
  <2>1. pc' # "flagged"
    BY <1>2, BeginGoes DEF TakeFlag
  <2> QED
    BY <1>2, <2>1 DEF TakeFlag
<1>3. CASE PollContact
  <2>1. CASE steady' /\ down /\ ~pressed
    <3>1. pc' # "flagged"
      BY <1>3, <2>1, BeginGoes DEF PollContact
    <3>2. toggles' = toggles + 1 /\ pressed' = down
      BY <1>3, <2>1 DEF PollContact
    <3>3. ~flag /\ down /\ ~pressed /\ UNCHANGED <<down, flag, closings, crossed>>
      BY <1>3, <2>1 DEF PollContact
    <3> QED
      BY <3>1, <3>2, <3>3
  <2>2. CASE ~(steady' /\ down /\ ~pressed)
    BY <1>3, <2>2 DEF PollContact
  <2> QED
    BY <2>1, <2>2
<1>4. CASE Setup
  <2>1. pc' # "flagged"
    BY <1>4 DEF Setup, Goto
  <2> QED
    BY <1>4, <2>1 DEF Setup, button
<1>5. ASSUME UNCHANGED apart, pc' # "flagged" PROVE ToggleInv'
  BY <1>5 DEF apart, button
<1>6. CASE Entering \/ Starting \/ Started \/ StartFails
  BY <1>5, <1>6 DEF Entering, Starting, Started, StartFails, Goto, mainOnly
<1>7. CASE Leaving \/ Parting \/ Closing \/ Forgetting
  BY <1>5, <1>7 DEF Leaving, Parting, Closing, Forgetting, Return, Onward, Goto, mainOnly
<1>8. CASE Timeout \/ ServerTimeout \/ TakeOta
  BY <1>5, <1>8 DEF Timeout, ServerTimeout, TakeOta, BeginLeave, Goto, mainOnly
<1>9. CASE Reconnect \/ Update
  BY <1>5, <1>9 DEF Reconnect, Operating, Update, Goto, mainOnly
<1> QED
  BY <1>1, <1>2, <1>3, <1>4, <1>6, <1>7, <1>8, <1>9 DEF Main

\* It stays so.
LEMMA NextOnward ==
  ASSUME Onward, [Next]_vars
  PROVE  Onward'
<1> USE DEF Onward
<1>1. CASE People
  BY <1>1 DEF People, Close, Open, Settle, Connect, Disconnect, Write, Leave
<1>2. CASE Dispatch
  BY <1>2 DEF Dispatch, Obey, BeginToggle, BeginLeave
<1>3. CASE Callback /\ ~Dispatch
  BY <1>3 DEF Callback, OnConnect, OnDisconnect, OnSettings, OnSave, OnOta, OnApply, OnRadio,
              OnOperations, gone, outside
<1>4. CASE Setup \/ PollFlag \/ TakeFlag \/ PollContact
  BY <1>4 DEF Setup, PollFlag, TakeFlag, PollContact, BeginToggle, BeginLeave
<1>5. CASE Entering \/ Starting \/ Started \/ StartFails \/ Leaving \/ Parting \/ Closing
           \/ Forgetting
  BY <1>5 DEF Entering, Starting, Started, StartFails, Leaving, Parting, Closing, Forgetting,
              Return
<1>6. CASE Timeout \/ ServerTimeout \/ Reconnect \/ TakeOta \/ Update
  BY <1>6 DEF Timeout, ServerTimeout, Reconnect, TakeOta, Update, BeginLeave
<1>7. CASE Join \/ Reset \/ UNCHANGED vars
  BY <1>7 DEF Join, Reset, vars
<1> QED
  BY <1>1, <1>2, <1>3, <1>4, <1>5, <1>6, <1>7 DEF Next, Main

\* So it is inductive.  After a reset a contact that is held waits once more.
LEMMA NextToggleInv ==
  ToggleInv /\ Onward /\ [Next]_vars => ToggleInv' /\ Onward'
<1> SUFFICES ASSUME ToggleInv, Onward, [Next]_vars PROVE ToggleInv'
  BY NextOnward
<1>1. CASE Reset
  BY <1>1 DEF Reset, Goto, ToggleInv, Counted, Waiting
<1>2. CASE Join
  BY <1>2 DEF Join, mainOnly, apart, button, ToggleInv, Counted, Waiting
<1>3. CASE UNCHANGED vars
  BY <1>3 DEF vars, history, button, ToggleInv, Counted, Waiting
<1> QED
  BY <1>1, <1>2, <1>3, PeopleToggle, CallbackToggle, MainToggle DEF Next

\* One closing of the contact is never two toggles.
THEOREM OnePressOneToggle == Spec => []TogglesAreClosings
<1>1. Init => ToggleInv /\ Onward
  BY InitToggleInv DEF Init, Onward
<1> QED
  BY <1>1, NextToggleInv, ToggleInvSuffices, PTL DEF Spec

-----------------------------------------------------------------------------
(* Secrets.                                                                *)

\* What is merged into settings blanks no secret.
LEMMA MergedKeeps ==
  ASSUME NEW old, NEW w
  PROVE  /\ (old \cap Secret) \subseteq Merged(old, w)
         /\ (old \cap Secret) \subseteq Stored(old, w)
BY ProvisioningAssumption DEF Merged, Stored, Cleaned

\* The file keeps its secrets, or the failure of a read or a write is counted.
LEMMA SaveKeeps ==
  ASSUME NEW w, Save(w)
  PROVE  (stored \cap Secret) \subseteq stored' \/ spoilt' = spoilt + 1
BY MergedKeeps DEF Save

\* Three callbacks store settings, and one of them changes those of the program; a
\* reset that tears the file is counted.
LEMMA StepKeepsSecrets ==
  ASSUME [Next]_vars
  PROVE  /\ (stored \cap Secret) \subseteq stored' \/ spoilt' = spoilt + 1
         /\ (config \cap Secret) \subseteq config' \/ pc = "off"
<1>1. CASE OnSettings
  BY <1>1, SaveKeeps, MergedKeeps DEF OnSettings
<1>2. CASE OnSave \/ OnApply
  BY <1>2, SaveKeeps DEF OnSave, OnApply
<1>3. CASE Reset
  BY <1>3 DEF Reset
<1>4. CASE Setup
  BY <1>4 DEF Setup
<1>5. ASSUME UNCHANGED settings
      PROVE  (stored \cap Secret) \subseteq stored' /\ (config \cap Secret) \subseteq config'
  BY <1>5 DEF settings
<1>6. CASE People
  BY <1>5, <1>6 DEF People, Close, Open, Settle, Connect, Disconnect, Write, Leave
<1>7. CASE Callback /\ ~(OnSettings \/ OnSave \/ OnApply)
  BY <1>5, <1>7 DEF Callback, Dispatch, OnConnect, OnDisconnect, OnOta, OnRadio, OnOperations,
                    gone, obeyed
<1>8. CASE PollFlag \/ TakeFlag \/ PollContact
  BY <1>5, <1>8 DEF PollFlag, TakeFlag, PollContact
<1>9. CASE Main /\ ~(Setup \/ PollFlag \/ TakeFlag \/ PollContact)
  BY <1>5, <1>9 DEF Main, Entering, Starting, Started, StartFails, Leaving, Parting, Closing,
                    Forgetting, Timeout, ServerTimeout, Reconnect, TakeOta, Update, mainOnly, apart
<1>10. CASE Join \/ UNCHANGED vars
  BY <1>5, <1>10 DEF Join, mainOnly, apart, vars
<1> QED
  BY <1>1, <1>2, <1>3, <1>4, <1>6, <1>7, <1>8, <1>9, <1>10 DEF Next, Callback

\* A stored secret is never blanked by what is written over Bluetooth, and the program
\* forgets none.
THEOREM SecretsAreKept == Spec => SecretsKept
<1>1. [Next]_vars =>
        [/\ (stored \cap Secret) \subseteq stored' \/ spoilt' = spoilt + 1
         /\ (config \cap Secret) \subseteq config' \/ pc = "off"]_vars
  BY StepKeepsSecrets
<1> QED
  BY <1>1, PTL DEF Spec, SecretsKept

-----------------------------------------------------------------------------
(* The server follows the mode.                                            *)

Message == {Came, Went} \cup Command \cup Settings

ServerTypes ==
  /\ mode \in BOOLEAN /\ running \in BOOLEAN /\ advertising \in BOOLEAN
  /\ conn \in BOOLEAN /\ link \in BOOLEAN /\ queue \in Seq(Message)
  /\ slipped \in BOOLEAN /\ serverless \in BOOLEAN /\ crossed \in Nat
  /\ after \in {"idle", "dispatched", "leaving", "updating"}

\* What is believed is so, once the events in q are handled: the last tells.
AgreesAfter(q, believed, so) ==
  /\ q = <<>> => believed = so
  /\ q # <<>> => (q[Len(q)].kind = "disconnect" <=> ~so)

\* One of the events in q says that the central went.
Leaves(q) == \E k \in 1..Len(q) : q[k].kind = "disconnect"

\* What the server believes of the central is so, once it knows what happened.
Informed == AgreesAfter(queue, conn, link)

\* A server that is up, or about to be, can be found, or has a central, or is yet to
\* hear that it went; unless it is being stopped.
Findable ==
  pc = "showing" \/ (running /\ pc \notin {"parting", "closing"}) =>
    advertising \/ link \/ Leaves(queue)

\* Only such a server can be found.
Hidden ==
  advertising => pc = "showing" \/ (running /\ pc \notin {"parting", "closing"})

\* Between the steps of the main loop the server may be a step behind the mode.
Followed ==
  /\ pc \in {"idle", "flagged"} => running = (mode /\ ~serverless)
  /\ pc \in {"off", "updating", "forgetting"} => ~mode /\ ~running
  /\ pc \in {"entering", "starting", "showing"} => mode /\ ~running
  /\ pc \in {"leaving", "parting", "closing"} => ~mode

\* Findable and Hidden are what BluetoothFollowsMode says of the advertising, with the
\* windows of start and stop; Informed is what it says of the central, with the events
\* on their way.  None of them outlives an event that slipped through.
Kept == Followed /\ (~slipped => Informed /\ Findable /\ Hidden)
ServerInv == ServerTypes /\ (crossed = 0 => Kept)

\* It implies the property.
LEMMA ServerInvSuffices == ServerInv => BluetoothFollowsMode
<1> SUFFICES ASSUME ServerInv, pc = "idle", queue = <<>>, crossed = 0, ~slipped
             PROVE  /\ running = (mode /\ ~serverless) /\ (running => link \/ advertising)
                    /\ (advertising => running) /\ conn = link
  BY DEF BluetoothFollowsMode
<1>1. running => link \/ advertising
  BY EmptySeq DEF ServerInv, Kept, Findable, Leaves
<1> QED
  BY <1>1 DEF ServerInv, Kept, Informed, AgreesAfter, Followed, Hidden

\* It holds initially.
LEMMA InitServerInv == Init => ServerInv
<1> SUFFICES ASSUME Init PROVE ServerInv
  OBVIOUS
<1>1. ServerTypes
  BY EmptySeq DEF Init, ServerTypes
<1>2. Informed /\ Findable /\ Hidden /\ Followed
  BY DEF Init, Informed, AgreesAfter, Findable, Hidden, Followed
<1> QED
  BY <1>1, <1>2 DEF ServerInv, Kept

\* An event that is added is the last.
LEMMA AppendFacts ==
  ASSUME NEW q \in Seq(Message), NEW m \in Message
  PROVE  /\ Append(q, m) \in Seq(Message) /\ Append(q, m) # <<>>
         /\ Len(q) \in Nat /\ Len(Append(q, m)) = Len(q) + 1
         /\ Append(q, m)[Len(q) + 1] = m
         /\ \A k \in 1..Len(q) : Append(q, m)[k] = q[k]
BY AppendProperties, EmptySeq

\* When the first event is handled the last stays the last.
LEMMA TailFacts ==
  ASSUME NEW q \in Seq(Message), q # <<>>
  PROVE  /\ Tail(q) \in Seq(Message) /\ Len(Tail(q)) = Len(q) - 1
         /\ Len(q) \in Nat /\ Len(q) >= 1 /\ Head(q) = q[1]
         /\ \A k \in 1..Len(q) - 1 : Tail(q)[k] = q[k + 1]
         /\ Tail(q) = <<>> <=> Len(q) = 1
<1>1. Tail(q) \in Seq(Message) /\ Len(Tail(q)) = Len(q) - 1
  BY HeadTailProperties
<1>2. Len(q) \in Nat /\ Len(q) >= 1
  BY EmptySeq
<1>3. \A k \in 1..Len(q) - 1 : Tail(q)[k] = q[k + 1]
  BY HeadTailProperties
<1>4. Head(q) = q[1]
  OBVIOUS
<1>5. Tail(q) = <<>> <=> Len(Tail(q)) = 0
  BY <1>1, EmptySeq
<1> QED
  BY <1>1, <1>2, <1>3, <1>4, <1>5

\* No command and no settings say that the central went.
LEMMA Kinds ==
  /\ Came \in Message /\ Came.kind # "disconnect"
  /\ Went \in Message /\ Went.kind = "disconnect"
  /\ \A w \in Command \cup Settings : w \in Message /\ w.kind # "disconnect"
<1>1. Came.kind # "disconnect" /\ Went.kind = "disconnect"
  BY DEF Came, Went
<1>2. ASSUME NEW w \in Command PROVE w.kind # "disconnect"
  BY <1>2 DEF Command
<1>3. ASSUME NEW w \in Settings PROVE w.kind # "disconnect"
  <2>1. CASE \E g \in SUBSET Key : w \in Blanked(g)
    BY <2>1 DEF Blanked
  <2>2. CASE w = Foreign
    BY <2>2 DEF Foreign
  <2>3. w \in Known \/ w = Foreign
    BY <1>3 DEF Settings
  <2>4. w \in Known => \E g \in SUBSET Key : w \in Blanked(g)
    BY Zenon DEF Known
  <2> QED
    BY <2>1, <2>2, <2>3, <2>4
<1> QED
  BY <1>1, <1>2, <1>3 DEF Message

\* An event that tells the truth of what is so may be added.
LEMMA AppendAgrees ==
  ASSUME NEW q \in Seq(Message), NEW m \in Message, NEW believed, NEW so,
         m.kind = "disconnect" <=> ~so
  PROVE  /\ Append(q, m) \in Seq(Message) /\ AgreesAfter(Append(q, m), believed, so)
         /\ Leaves(q) \/ ~so => Leaves(Append(q, m))
<1>1. Append(q, m) # <<>> /\ Append(q, m)[Len(Append(q, m))] = m
  BY AppendFacts
<1>2. Leaves(q) => Leaves(Append(q, m))
  BY AppendFacts DEF Leaves
<1>3. ~so => Leaves(Append(q, m))
  BY AppendFacts DEF Leaves
<1> QED
  BY <1>1, <1>2, <1>3, AppendFacts DEF AgreesAfter

\* The first event may be handled: after it the server believes what it says.
LEMMA TailAgrees ==
  ASSUME NEW q \in Seq(Message), q # <<>>, NEW believed, NEW so \in BOOLEAN,
         AgreesAfter(q, believed, so)
  PROVE  /\ Tail(q) \in Seq(Message)
         /\ AgreesAfter(Tail(q), Head(q).kind # "disconnect", so)
         /\ Leaves(q) /\ Head(q).kind # "disconnect" => Leaves(Tail(q))
<1> DEFINE n == Len(q)
<1>1. CASE n = 1
  <2>1. ~Leaves(q) \/ Head(q).kind = "disconnect"
    BY <1>1, TailFacts DEF Leaves
  <2>2. AgreesAfter(Tail(q), Head(q).kind # "disconnect", so)
    BY <1>1, TailFacts DEF AgreesAfter
  <2> QED
    BY <2>1, <2>2, TailFacts
<1>2. CASE n # 1
  <2>1. Tail(q) # <<>> /\ Tail(q)[Len(Tail(q))] = q[n]
    BY <1>2, TailFacts
  <2>2. ASSUME NEW k \in 1..n, q[k].kind = "disconnect", q[1].kind # "disconnect"
        PROVE Leaves(Tail(q))
    <3>1. k - 1 \in 1..Len(Tail(q))
      BY <2>2, TailFacts
    <3>2. Tail(q)[k - 1] = q[k]
      BY <2>2, <3>1, TailFacts
    <3> QED
      BY <2>2, <3>1, <3>2 DEF Leaves
  <2>3. Leaves(q) /\ Head(q).kind # "disconnect" => Leaves(Tail(q))
    BY <2>2, TailFacts DEF Leaves
  <2> QED
    BY <2>1, <2>3, TailFacts DEF AgreesAfter
<1> QED
  BY <1>1, <1>2

\* What the types of the server need of a step that leaves its events alone.
LEMMA SameServer ==
  ASSUME ServerInv, UNCHANGED <<pc, after, mode, server, crossed, slipped, serverless>>
  PROVE  ServerInv'
BY DEF ServerInv, ServerTypes, Kept, server, Informed, Findable, Hidden, Followed

\* A server stopped in one step is down and hidden, and agrees with what is so.
LEMMA StopAgrees ==
  ASSUME ServerTypes, NEW known \in BOOLEAN, NEW q \in Seq(Message), StopServer(known, q)
  PROVE  /\ {running', advertising', conn', link'} \subseteq BOOLEAN /\ queue' \in Seq(Message)
         /\ ~running'
         /\ AgreesAfter(q, known, link) => Informed'
         /\ advertising' => ~running /\ advertising
<1>1. CASE ~running
  BY <1>1 DEF StopServer, ServerTypes, Informed
<1>2. CASE running /\ link /\ known
  <2>1. /\ running' = FALSE /\ advertising' = FALSE /\ conn' = FALSE /\ link' = FALSE
        /\ queue' = Append(q, Went)
    BY <1>2 DEF StopServer
  <2>2. queue' \in Seq(Message) /\ AgreesAfter(queue', conn', link')
    BY <2>1, Kinds, AppendAgrees
  <2> QED
    BY <2>1, <2>2 DEF Informed
<1>3. CASE running /\ ~(link /\ known)
  <2>1. /\ running' = FALSE /\ advertising' = FALSE /\ conn' = FALSE /\ link' = link
        /\ queue' = q
    BY <1>3 DEF StopServer, ServerTypes
  <2>2. AgreesAfter(q, known, link) => AgreesAfter(q, FALSE, link)
    BY <1>3 DEF AgreesAfter, ServerTypes
  <2> QED
    BY <2>1, <2>2 DEF ServerTypes, Informed
<1> QED
  BY <1>1, <1>2, <1>3 DEF ServerTypes

\* People change what is on its way, and the link with it.
LEMMA PeopleServer ==
  ASSUME ServerInv, People
  PROVE  ServerInv'
<1>1. CASE Connect
  <2>1. queue' = Append(queue, Came) /\ link' = TRUE /\ advertising' = FALSE
    BY <1>1 DEF Connect
  <2>2. queue' \in Seq(Message) /\ Informed'
    BY <2>1, Kinds, AppendAgrees DEF ServerInv, ServerTypes, Informed
  <2>3. UNCHANGED <<pc, after, mode, running, conn, crossed, slipped, serverless>>
    BY <1>1 DEF Connect, modeVars, history
  <2> QED
    BY <2>1, <2>2, <2>3 DEF ServerInv, ServerTypes, Kept, Findable, Hidden, Followed
<1>2. CASE Disconnect
  <2>1. queue' = Append(queue, Went) /\ link' = FALSE
    BY <1>2 DEF Disconnect
  <2>2. queue' \in Seq(Message) /\ Informed' /\ Leaves(queue)'
    BY <2>1, Kinds, AppendAgrees DEF ServerInv, ServerTypes, Informed
  <2>3. UNCHANGED <<pc, after, mode, running, advertising, conn, crossed, slipped, serverless>>
    BY <1>2 DEF Disconnect, modeVars, history
  <2> QED
    BY <2>1, <2>2, <2>3 DEF ServerInv, ServerTypes, Kept, Findable, Hidden, Followed
<1>3. ASSUME NEW w \in Command \cup Settings, Write(w) PROVE ServerInv'
  <2>1. queue' = Append(queue, w) /\ link /\ link' = link
    BY <1>3 DEF Write
  <2>2. queue' \in Seq(Message) /\ Informed'
    BY <2>1, Kinds, AppendAgrees DEF ServerInv, ServerTypes, Informed
  <2>3. UNCHANGED <<pc, after, mode, running, advertising, conn, crossed, slipped, serverless>>
    BY <1>3 DEF Write, modeVars, history
  <2> QED
    BY <2>1, <2>2, <2>3 DEF ServerInv, ServerTypes, Kept, Findable, Hidden, Followed
<1>4. CASE Close \/ Open \/ Settle \/ Leave
  <2>1. UNCHANGED <<pc, after, mode, server, crossed, slipped, serverless>>
    BY <1>4 DEF Close, Open, Settle, Leave, modeVars, history
  <2> QED
    BY <2>1, SameServer
<1> QED
  BY <1>1, <1>2, <1>3, <1>4 DEF People

\* A callback that does not change the mode takes one event off, and the server
\* believes what it says.
LEMMA EventServer ==
  ASSUME ServerInv, queue # <<>>, queue' = Tail(queue),
         conn' = (Head(queue).kind # "disconnect"),
         Head(queue).kind = "disconnect" =>
           /\ advertising' = (advertising \/ running)
           /\ slipped' = (slipped \/ Slip),
         Head(queue).kind # "disconnect" => UNCHANGED <<advertising, slipped>>,
         UNCHANGED <<pc, after, mode, running, link, crossed, serverless>>
  PROVE  ServerInv'
<1>1. queue \in Seq(Message) /\ Tail(queue) \in Seq(Message)
  BY TailFacts DEF ServerInv, ServerTypes
<1>2. ServerTypes'
  BY <1>1 DEF ServerInv, ServerTypes, Slip
<1>3. crossed = 0 => Followed'
  BY DEF ServerInv, Kept, Followed
<1>4. ASSUME crossed = 0, ~slipped' PROVE Informed' /\ Findable' /\ Hidden'
  <2>1. ~slipped /\ Informed /\ Findable /\ Hidden
    BY <1>4 DEF ServerInv, Kept, ServerTypes
  <2>2. /\ AgreesAfter(Tail(queue), Head(queue).kind # "disconnect", link)
        /\ Leaves(queue) /\ Head(queue).kind # "disconnect" => Leaves(Tail(queue))
    BY <1>1, <2>1, TailAgrees DEF ServerInv, ServerTypes, Informed
  <2>3. Informed'
    BY <2>2 DEF Informed
  <2>4. CASE Head(queue).kind = "disconnect"
    <3>1. advertising' = (advertising \/ running) /\ ~Slip
      BY <1>4, <2>4 DEF ServerInv, ServerTypes
    <3> QED
      BY <2>1, <3>1, <2>3 DEF Findable, Hidden, Slip
  <2>5. CASE Head(queue).kind # "disconnect"
    BY <2>1, <2>2, <2>3, <2>5 DEF Findable, Hidden
  <2> QED
    BY <2>4, <2>5
<1> QED
  BY <1>2, <1>3, <1>4 DEF ServerInv, Kept

\* A change of mode in one step keeps the types.
LEMMA ToggleTypes ==
  ASSUME ServerTypes, Toggle
  PROVE  /\ mode' \in BOOLEAN /\ {running', advertising', conn', link'} \subseteq BOOLEAN
         /\ queue' \in Seq(Message) /\ serverless' \in BOOLEAN
<1>1. CASE mode
  <2>1. mode' = FALSE /\ StopServer(conn, queue) /\ serverless' = serverless
    BY <1>1 DEF Toggle, ClearMode
  <2> QED
    BY <2>1, StopAgrees DEF ServerTypes
<1>2. CASE ~mode
  <2>1. mode' = TRUE /\ StartServer
    BY <1>2 DEF Toggle, SetMode
  <2> QED
    BY <2>1 DEF StartServer, server, ServerTypes
<1> QED
  BY <1>1, <1>2

\* The main loop may begin to change the mode when the server agrees with it.
LEMMA BeginFollows ==
  ASSUME ServerInv, pc \in {"idle", "flagged"},
         NEW a \in {"idle", "dispatched", "leaving", "updating"},
         BeginToggle(a) \/ BeginLeave(a),
         UNCHANGED <<server, crossed, slipped, serverless>>
  PROVE  ServerInv'
<1>1. CASE BeginLeave(a)
  <2>1. mode' = FALSE /\ pc' = "leaving" /\ after' = a
    BY <1>1 DEF BeginLeave, ClearMode, Goto
  <2> QED
    BY <2>1 DEF ServerInv, ServerTypes, Kept, server, Informed, Findable, Hidden, Followed
<1>2. CASE ~mode /\ SetMode /\ Goto("entering") /\ after' = a
  <2>1. mode' = TRUE /\ pc' = "entering" /\ after' = a /\ ~mode
    BY <1>2 DEF SetMode, Goto
  <2> QED
    BY <2>1 DEF ServerInv, ServerTypes, Kept, server, Informed, Findable, Hidden, Followed
<1> QED
  BY <1>1, <1>2 DEF BeginToggle

\* Callbacks keep what is so of the server; one that changes the mode amid a change by
\* the main loop is counted.
LEMMA CallbackServer ==
  ASSUME ServerInv, Callback
  PROVE  ServerInv'
<1>1. CASE Dispatch
  <2>1. CASE flag /\ pc = "idle"
    <3>1. BeginToggle("dispatched") /\ UNCHANGED <<server, crossed, slipped, serverless>>
      BY <1>1, <2>1 DEF Dispatch, Obey, obeyed
    <3> QED
      BY <2>1, <3>1, BeginFollows
  <2>2. CASE flag /\ pc # "idle"
    <3>1. Toggle /\ crossed' = crossed + 1 /\ UNCHANGED <<after, slipped>>
      BY <1>1, <2>2 DEF Dispatch, Obey, obeyed
    <3>2. crossed' \in Nat /\ crossed' # 0
      BY <3>1 DEF ServerInv, ServerTypes
    <3> QED
      BY <3>1, <3>2, ToggleTypes DEF ServerInv, ServerTypes
  <2>3. CASE ~flag
    BY <1>1, <2>3, SameServer DEF Dispatch, obeyed, modeVars
  <2> QED
    BY <2>1, <2>2, <2>3
<1>2. CASE OnApply
  <2>1. /\ queue # <<>> /\ Head(queue).kind = "apply"
        /\ UNCHANGED <<pc, after, slipped, serverless>>
    BY <1>2 DEF OnApply, Handle
  <2>2. CASE ~mode
    BY <1>2, <2>1, <2>2, EventServer DEF OnApply, modeVars
  <2>3. CASE mode
    <3>1. /\ StopServer(TRUE, Tail(queue)) /\ mode' = FALSE
          /\ crossed' = IF pc = "idle" THEN crossed ELSE crossed + 1
      BY <1>2, <2>3 DEF OnApply, ClearMode
    <3>2. Tail(queue) \in Seq(Message)
      BY <2>1, TailFacts DEF ServerInv, ServerTypes
    <3>3. /\ {running', advertising', conn', link'} \subseteq BOOLEAN /\ queue' \in Seq(Message)
          /\ ~running' /\ (AgreesAfter(Tail(queue), TRUE, link) => Informed')
          /\ (advertising' => ~running /\ advertising)
      BY <3>1, <3>2, StopAgrees DEF ServerInv
    <3>4. ServerTypes'
      <4>1. mode' \in BOOLEAN
        BY <3>1
      <4>2. crossed' \in Nat
        <5>1. crossed \in Nat
          BY DEF ServerInv, ServerTypes
        <5> QED
          BY <3>1, <5>1
      <4> QED
        BY <2>1, <3>3, <4>1, <4>2 DEF ServerInv, ServerTypes
    <3>5. ASSUME crossed' = 0 PROVE Kept'
      <4>1. pc = "idle" /\ crossed = 0
        BY <3>1, <3>5 DEF ServerInv, ServerTypes
      <4>2. Followed'
        BY <2>1, <3>1, <3>3, <4>1 DEF Followed
      <4>3. ASSUME ~slipped PROVE Informed' /\ Findable' /\ Hidden'
        <5>1. Informed /\ Hidden
          BY <4>1, <4>3 DEF ServerInv, Kept
        <5>2. AgreesAfter(Tail(queue), TRUE, link)
          BY <2>1, <5>1, TailAgrees DEF ServerInv, ServerTypes, Informed
        <5> QED
          BY <2>1, <3>3, <4>1, <5>1, <5>2 DEF Findable, Hidden
      <4> QED
        BY <2>1, <4>2, <4>3 DEF Kept
    <3> QED
      BY <3>4, <3>5 DEF ServerInv
  <2> QED
    BY <2>2, <2>3
<1>3. CASE OnConnect \/ OnSettings \/ OnSave \/ OnOta
  BY <1>3, EventServer DEF OnConnect, OnSettings, OnSave, OnOta, Handle, modeVars, outside
<1>4. CASE OnDisconnect
  BY <1>4, EventServer DEF OnDisconnect, Handle, modeVars, gone, outside
<1>5. ASSUME NEW k \in {"scan", "test"}, OnRadio(k) PROVE ServerInv'
  BY <1>5, EventServer DEF OnRadio, Handle, modeVars, outside
<1>6. ASSUME NEW k \in {"start", "stop"}, OnOperations(k) PROVE ServerInv'
  BY <1>6, EventServer DEF OnOperations, Handle, outside
<1> QED
  BY <1>1, <1>2, <1>3, <1>4, <1>5, <1>6 DEF Callback

\* Where a change of mode ends.
LEMMA ReturnGoes ==
  ASSUME ServerTypes, Return
  PROVE  pc' \in {"idle", "leaving", "updating"} /\ after' = "idle"
BY DEF ServerTypes, Return, Goto

\* The steps of start and stop.
LEMMA ChangeServer ==
  ASSUME ServerInv,
         \/ Entering \/ Starting \/ Started \/ StartFails
         \/ Leaving \/ Parting \/ Closing \/ Forgetting
  PROVE  ServerInv'
<1> USE DEF ServerInv, Kept
<1>1. CASE Entering
  <2>1. /\ pc = "entering" /\ after' \in {after, "idle"}
        /\ UNCHANGED <<mode, server, crossed, slipped, serverless>>
        /\ pc' = IF running THEN "idle" ELSE "starting"
    BY <1>1 DEF Entering, Goto, modeVars, mainOnly, apart
  <2> QED
    BY <2>1 DEF server, ServerTypes, Informed, Findable, Hidden, Followed
<1>2. CASE Starting
  <2>1. /\ pc = "starting" /\ pc' = "showing" /\ advertising' = TRUE
        /\ UNCHANGED <<after, mode, running, conn, link, queue, crossed, slipped, serverless>>
    BY <1>2 DEF Starting, Goto, modeVars, mainOnly, apart
  <2> QED
    BY <2>1 DEF ServerTypes, Informed, Findable, Hidden, Followed
<1>3. CASE Started
  <2>1. /\ pc = "showing" /\ pc' = "idle" /\ after' = "idle" /\ running' = TRUE
        /\ serverless' = FALSE
        /\ UNCHANGED <<mode, advertising, conn, link, queue, crossed, slipped>>
    BY <1>3 DEF Started, Goto, modeVars, apart
  <2> QED
    BY <2>1 DEF ServerTypes, Informed, Findable, Hidden, Followed
<1>4. CASE StartFails
  <2>1. /\ pc = "starting" /\ pc' = "idle" /\ after' = "idle" /\ serverless' = TRUE
        /\ UNCHANGED <<mode, server, crossed, slipped>>
    BY <1>4 DEF StartFails, Goto, modeVars, apart
  <2> QED
    BY <2>1 DEF server, ServerTypes, Informed, Findable, Hidden, Followed
<1>5. CASE Leaving
  <2>1. /\ pc = "leaving"
        /\ UNCHANGED <<mode, running, conn, link, queue, crossed, slipped, serverless>>
    BY <1>5 DEF Leaving, modeVars, mainOnly, apart
  <2>2. CASE running
    <3>1. pc' = "parting" /\ advertising' = FALSE /\ after' = after
      BY <1>5, <2>2 DEF Leaving, Goto
    <3> QED
      BY <2>1, <2>2, <3>1 DEF ServerTypes, Informed, Findable, Hidden, Followed
  <2>3. CASE ~running
    <3>1. pc' \in {"idle", "leaving", "updating"} /\ after' = "idle" /\ advertising' = advertising
      BY <1>5, <2>3, ReturnGoes DEF Leaving
    <3> QED
      BY <2>1, <2>3, <3>1 DEF ServerTypes, Informed, Findable, Hidden, Followed
  <2> QED
    BY <2>2, <2>3
<1>6. CASE Parting
  <2>1. /\ pc = "parting" /\ pc' = "closing" /\ link' = (link /\ ~conn)
        /\ UNCHANGED <<after, mode, running, advertising, conn, crossed, slipped, serverless>>
    BY <1>6 DEF Parting, Goto, modeVars, mainOnly, apart
  <2>2. queue' \in Seq(Message) /\ (Informed => Informed')
    <3>1. CASE link /\ conn
      <4>1. queue' = Append(queue, Went) /\ ~link'
        BY <1>6, <2>1, <3>1 DEF Parting
      <4> QED
        BY <4>1, Kinds, AppendAgrees DEF ServerTypes, Informed
    <3>2. CASE ~(link /\ conn)
      <4>1. queue' = queue /\ link' = link
        BY <1>6, <2>1, <3>2 DEF Parting, ServerTypes
      <4> QED
        BY <2>1, <4>1 DEF ServerTypes, Informed
    <3> QED
      BY <3>1, <3>2
  <2> QED
    BY <2>1, <2>2 DEF ServerTypes, Findable, Hidden, Followed
<1>7. CASE Closing
  <2>1. /\ pc = "closing" /\ pc' = "forgetting" /\ running' = FALSE
        /\ UNCHANGED <<after, mode, advertising, conn, link, queue, crossed, slipped, serverless>>
    BY <1>7 DEF Closing, Goto, modeVars, mainOnly, apart
  <2> QED
    BY <2>1 DEF ServerTypes, Informed, Findable, Hidden, Followed
<1>8. CASE Forgetting
  <2>1. /\ pc = "forgetting" /\ conn' = FALSE /\ slipped' = (slipped \/ (link /\ queue = <<>>))
        /\ UNCHANGED <<mode, running, advertising, link, queue, crossed, serverless>>
    BY <1>8 DEF Forgetting, modeVars, apart
  <2>2. pc' \in {"idle", "leaving", "updating"} /\ after' = "idle"
    BY <1>8, ReturnGoes DEF Forgetting
  <2>3. ServerTypes'
    BY <2>1, <2>2 DEF ServerTypes
  <2>4. Followed => Followed'
    BY <2>1, <2>2 DEF Followed, ServerTypes
  <2>5. ASSUME Followed, ~slipped', Informed, Hidden PROVE Informed' /\ Findable' /\ Hidden'
    <3>1. Informed'
      BY <2>1, <2>5 DEF Informed, AgreesAfter, ServerTypes
    <3>2. ~running /\ ~advertising
      BY <2>1, <2>5 DEF Followed, Hidden
    <3> QED
      BY <2>1, <2>2, <3>1, <3>2 DEF Findable, Hidden
  <2>6. ~slipped' => ~slipped
    BY <2>1 DEF ServerTypes
  <2> QED
    BY <2>1, <2>3, <2>4, <2>5, <2>6
<1> QED
  BY <1>1, <1>2, <1>3, <1>4, <1>5, <1>6, <1>7, <1>8

\* The main loop sets the mode first, the server after it.
LEMMA MainServer ==
  ASSUME ServerInv, Main
  PROVE  ServerInv'
<1>1. CASE Setup
  <2>1. pc = "off" /\ UNCHANGED <<after, server, crossed, slipped, serverless>>
    BY <1>1 DEF Setup
  <2>2. \/ pc' = "entering" /\ mode' = TRUE
        \/ pc' = "idle" /\ mode' = mode
    BY <1>1 DEF Setup, SetMode, Goto, modeVars
  <2> QED
    BY <2>1, <2>2 DEF ServerInv, ServerTypes, Kept, server, Informed, Findable, Hidden, Followed
<1>2. CASE PollFlag
  <2>1. /\ pc = "idle" /\ pc' = "flagged"
        /\ UNCHANGED <<after, mode, server, crossed, slipped, serverless>>
    BY <1>2 DEF PollFlag, Goto, modeVars, history
  <2> QED
    BY <2>1 DEF ServerInv, ServerTypes, Kept, server, Informed, Findable, Hidden, Followed
<1>3. CASE TakeFlag
  BY <1>3, BeginFollows DEF TakeFlag
<1>4. CASE PollContact
  <2>1. /\ pc = "idle" /\ UNCHANGED <<server, crossed, slipped, serverless>>
        /\ BeginToggle("idle") \/ UNCHANGED <<pc, after, modeVars>>
    BY <1>4 DEF PollContact
  <2>2. CASE BeginToggle("idle")
    BY <2>1, <2>2, BeginFollows
  <2>3. CASE UNCHANGED <<pc, after, modeVars>>
    BY <2>1, <2>3, SameServer DEF modeVars
  <2> QED
    BY <2>1, <2>2, <2>3
<1>5. CASE Timeout \/ ServerTimeout \/ TakeOta
  <2>1. pc = "idle" /\ UNCHANGED <<server, crossed, slipped, serverless>>
    BY <1>5 DEF Timeout, ServerTimeout, TakeOta, mainOnly, apart
  <2>2. \E a \in {"idle", "leaving", "updating"} : BeginLeave(a)
    BY <1>5 DEF Timeout, ServerTimeout, TakeOta
  <2> QED
    BY <2>1, <2>2, BeginFollows
<1>6. CASE Reconnect
  BY <1>6, SameServer DEF Reconnect, modeVars, mainOnly, apart
<1>7. CASE Update
  <2>1. /\ pc = "updating" /\ pc' = "idle"
        /\ UNCHANGED <<after, mode, server, crossed, slipped, serverless>>
    BY <1>7 DEF Update, Goto, modeVars, mainOnly, apart
  <2> QED
    BY <2>1 DEF ServerInv, ServerTypes, Kept, server, Informed, Findable, Hidden, Followed
<1> QED
  BY <1>1, <1>2, <1>3, <1>4, <1>5, <1>6, <1>7, ChangeServer DEF Main

\* So it is inductive.
LEMMA NextServerInv == ServerInv /\ [Next]_vars => ServerInv'
<1> SUFFICES ASSUME ServerInv, [Next]_vars PROVE ServerInv'
  OBVIOUS
<1>1. CASE Reset
  <2>1. /\ pc' = "off" /\ after' = "idle" /\ mode' = FALSE /\ running' = FALSE
        /\ advertising' = FALSE /\ conn' = FALSE /\ link' = FALSE /\ queue' = <<>>
        /\ crossed' = 0 /\ slipped' = FALSE /\ serverless' = FALSE
    BY <1>1 DEF Reset, Goto
  <2>2. queue' \in Seq(Message)
    BY <2>1, EmptySeq
  <2> QED
    BY <2>1, <2>2 DEF ServerInv, ServerTypes, Kept, Informed, AgreesAfter, Findable, Hidden,
                      Followed
<1>2. CASE Join \/ UNCHANGED vars
  <2>1. UNCHANGED <<pc, after, mode, server, crossed, slipped, serverless>>
    BY <1>2 DEF Join, mainOnly, apart, vars, modeVars, history
  <2> QED
    BY <2>1, SameServer
<1> QED
  BY <1>1, <1>2, PeopleServer, CallbackServer, MainServer DEF Next

\* The Bluetooth server follows the mode, and knows its central.
THEOREM ServerFollowsMode == Spec => []BluetoothFollowsMode
BY InitServerInv, NextServerInv, ServerInvSuffices, PTL DEF Spec
=============================================================================
