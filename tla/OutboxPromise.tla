---------------------------- MODULE OutboxPromise ----------------------------
(***************************************************************************)
(* What the gateway promises Snippen about the messages it is asked to     *)
(* send, with no gateway in it: only what Snippen is told about an item    *)
(* and which transmissions of it the carrier has taken.                    *)
(***************************************************************************)
CONSTANTS
  Item,         \* the messages Snippen may ask for
  Transmission  \* identities of transmissions

VARIABLES
  told,  \* what Snippen holds about an item
  sent   \* the transmissions of an item the carrier has taken

vars == <<told, sent>>

Init ==
  /\ told = [e \in Item |-> "absent"]
  /\ sent = [e \in Item |-> {}]

Offer(e) ==
  /\ told[e] \in {"absent", "failed"}
  /\ told' = [told EXCEPT ![e] = "pending"]
  /\ UNCHANGED sent

\* Only what Snippen asked for is transmitted, and nothing once it was told
\* that the item is sent.
Transmit(e) ==
  /\ told[e] = "pending"
  /\ \E x \in sent'[e] \ sent[e] : x \in Transmission /\ sent' = [sent EXCEPT ![e] = @ \cup {x}]
  /\ UNCHANGED told

\* One report may settle several items.  "sent" is only said of an item that
\* was transmitted, and is the last word on it.
Report ==
  /\ told' \in [Item -> {"absent", "pending", "sent", "failed"}]
  /\ \A e \in Item :
       told'[e] # told[e] =>
         /\ told[e] = "pending"
         /\ \/ told'[e] = "sent" /\ sent[e] # {}
            \/ told'[e] = "failed"
  /\ UNCHANGED sent

Next == Report \/ \E e \in Item : Offer(e) \/ Transmit(e)

Spec == Init /\ [][Next]_vars
=============================================================================
