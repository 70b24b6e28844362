----------------------------- MODULE RateLimiter -----------------------------
(***************************************************************************)
(* The sliding-window rate limiter and circuit breaker in front of every   *)
(* SMS: RateLimiter (limiter.py) in the gateway and SmsRateLimiter         *)
(* (firmware/rate_limiter.py) in the modem firmware, which are the same    *)
(* algorithm.  One sender uses it as both programs do: can_send, then a    *)
(* transmission that takes time and may fail, then record_send if it did   *)
(* not.  The limiter lives in memory, so a restart forgets like reset().   *)
(***************************************************************************)
EXTENDS Integers, FiniteSets

CONSTANTS
  MaxBurst, BurstWindow,    \* at most MaxBurst sends in BurstWindow
  MaxHourly, HourlyWindow,  \* at most MaxHourly sends in HourlyWindow
  Cooloff,                  \* how long the circuit breaker stays open
  MaxTime                   \* bound: the clock stops there

\* The configuration accepts any numbers; the defaults are 10 in 300 s, 30 in
\* 3600 s and a cooloff of 600 s.  History is pruned by the hourly window only,
\* which is why the burst window must not be the longer one.
ASSUME LimiterAssumption ==
  /\ {MaxBurst, MaxHourly} \subseteq Nat \ {0}
  /\ {BurstWindow, HourlyWindow, Cooloff, MaxTime} \subseteq Nat
  /\ BurstWindow <= HourlyWindow

VARIABLES
  now,        \* time.time()
  history,    \* RateLimiter.history: <<n, t>>, the n-th send of this life, at t
  openUntil,  \* circuit_open_until, 0 when closed
  sending,    \* the sender is between can_send and the end of its send
  log,        \* history variable: every send of this life, never pruned
  trips       \* history variable: when the circuit tripped in this life

vars == <<now, history, openUntil, sending, log, trips>>

TypeOK ==
  /\ now \in Nat /\ openUntil \in Nat /\ sending \in BOOLEAN
  /\ log \subseteq (Nat \X Nat) /\ history \subseteq log
  /\ trips \subseteq Nat

Init ==
  /\ now = 1
  /\ history = {} /\ log = {} /\ trips = {}
  /\ openUntil = 0
  /\ sending = FALSE

-----------------------------------------------------------------------------

Since(H, t) == {x \in H : x[2] >= t}

\* Mutant of Pruned: the cutoff is taken from the other window
PrunedByBurst == Since(history, now - BurstWindow)

Pruned == Since(history, now - HourlyWindow)

\* Mutant of Overrun: one more than allowed before it trips
LateOverrun ==
  \/ Cardinality(Since(Pruned, now - BurstWindow)) > MaxBurst
  \/ Cardinality(Pruned) >= MaxHourly

Overrun ==
  \/ Cardinality(Since(Pruned, now - BurstWindow)) >= MaxBurst
  \/ Cardinality(Pruned) >= MaxHourly

\* Mutant of CircuitOpen: the cooloff of a tripped circuit is not awaited
NeverOpen == FALSE

\* A check while the circuit is open is refused and changes nothing.
CircuitOpen == openUntil > now

\* Mutant of Trip: every refused check starts the cooloff anew
TripAgain ==
  /\ ~sending /\ (CircuitOpen \/ Overrun)
  /\ history' = Pruned
  /\ openUntil' = now + Cooloff
  /\ trips' = trips \cup {now}
  /\ UNCHANGED <<now, sending, log>>

\* can_send refuses: the windows are full, the circuit opens.
Trip ==
  /\ ~sending /\ ~CircuitOpen /\ Overrun
  /\ history' = Pruned
  /\ openUntil' = now + Cooloff
  /\ trips' = trips \cup {now}
  /\ UNCHANGED <<now, sending, log>>

\* can_send permits: an expired cooloff is cleared, the transmission begins.
Permit ==
  /\ ~sending /\ ~CircuitOpen /\ ~Overrun
  /\ history' = Pruned
  /\ openUntil' = 0
  /\ sending' = TRUE
  /\ UNCHANGED <<now, log, trips>>

\* self.history[-n:]: the n entries appended last
Latest(n, H) == {x \in H : Cardinality({y \in H : y[1] > x[1]}) < n}

\* The transmission succeeded: record_send, with its bound on the history.
RecordSend ==
  /\ sending
  /\ LET grown == history \cup {<<Cardinality(log), now>>}
     IN  history' = IF Cardinality(grown) > 2 * MaxHourly
                    THEN Latest(MaxHourly, grown) ELSE grown
  /\ log' = log \cup {<<Cardinality(log), now>>}
  /\ sending' = FALSE
  /\ UNCHANGED <<now, openUntil, trips>>

\* A failed transmission is not recorded.
SendFails ==
  /\ sending
  /\ sending' = FALSE
  /\ UNCHANGED <<now, history, openUntil, log, trips>>

\* A new life of the limiter: a restart, which ends the send under way, or
\* reset(), which does not.
Forget ==
  /\ history' = {} /\ openUntil' = 0
  /\ log' = {} /\ trips' = {}
  /\ sending' \in {FALSE, sending}
  /\ UNCHANGED now

Elapse ==
  /\ now < MaxTime
  /\ now' = now + 1
  /\ UNCHANGED <<history, openUntil, sending, log, trips>>

Next == Trip \/ Permit \/ RecordSend \/ SendFails \/ Forget \/ Elapse

Spec == Init /\ [][Next]_vars

-----------------------------------------------------------------------------

\* No window of BurstWindow holds more than MaxBurst sends, though the windows
\* are only looked at when a send begins and it is recorded when it ends.
BurstBound ==
  \A t \in 0..now :
    Cardinality({x \in log : t <= x[2] /\ x[2] <= t + BurstWindow}) <= MaxBurst

\* The same for the hour, although sends are dropped from the history.
HourlyBound ==
  \A t \in 0..now :
    Cardinality({x \in log : t <= x[2] /\ x[2] <= t + HourlyWindow}) <= MaxHourly

\* From the moment the circuit trips nothing is sent until the cooloff is over.
QuietWhileOpen ==
  \A t \in trips, x \in log : ~(t < x[2] /\ x[2] < t + Cooloff)

\* A refusal cannot feed itself: the circuit may trip again when a cooloff ends,
\* but it is never open longer than an hourly window and a cooloff after the
\* last send, so an outbox that waits is served again.
RefusalEnds ==
  openUntil > 0 => \E x \in log : openUntil <= x[2] + HourlyWindow + Cooloff
=============================================================================
