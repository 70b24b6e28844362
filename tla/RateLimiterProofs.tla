-------------------------- MODULE RateLimiterProofs --------------------------
(***************************************************************************)
(* The limiter keeps its bounds for every setting of the limits, windows   *)
(* and cooloff and for ever (MaxTime is any number).                       *)
(***************************************************************************)
EXTENDS RateLimiter, FiniteSetTheorems, TLAPS

Window(t, w) == {x \in log : t <= x[2] /\ x[2] <= t + w}

\* What can_send saw stays true until record_send: nobody else sends, and time
\* only takes sends out of the windows.  Pruning never drops a send that the
\* hourly window still holds, so the pruned history counts what log counts.
IInv ==
  /\ TypeOK
  /\ IsFiniteSet(log)
  /\ \A x \in log : x[2] <= now
  /\ Since(log, now - HourlyWindow) \subseteq history
  /\ Cardinality(history) <= MaxHourly
  /\ sending => Cardinality(history) < MaxHourly
  /\ sending => Cardinality(Since(log, now - BurstWindow)) < MaxBurst
  /\ \A t \in Nat : Cardinality(Window(t, BurstWindow)) <= MaxBurst
  /\ \A t \in Nat : Cardinality(Window(t, HourlyWindow)) <= MaxHourly
  /\ sending => openUntil = 0
  /\ \A t \in trips : t <= now /\ (t + Cooloff <= openUntil \/ t + Cooloff <= now)
  /\ QuietWhileOpen
  /\ RefusalEnds

\* Smaller sets count less.
LEMMA CountMonotone ==
  ASSUME NEW S, IsFiniteSet(S), NEW T, T \subseteq S
  PROVE  IsFiniteSet(T) /\ Cardinality(T) <= Cardinality(S)
         /\ Cardinality(T) \in Nat /\ Cardinality(S) \in Nat
BY FS_Subset, FS_CardinalityType

\* One element added counts one more.
LEMMA CountOneMore ==
  ASSUME NEW S, IsFiniteSet(S), NEW x
  PROVE  IsFiniteSet(S \cup {x}) /\ Cardinality(S \cup {x}) <= Cardinality(S) + 1
         /\ Cardinality(S) \in Nat /\ Cardinality(S \cup {x}) \in Nat
BY FS_AddElement, FS_CardinalityType

\* The initial state satisfies the inductive invariant.
LEMMA InitIInv == Init => IInv
<1> SUFFICES ASSUME Init PROVE IInv
  OBVIOUS
<1>1. log = {} /\ history = {} /\ trips = {} /\ openUntil = 0 /\ now = 1 /\ sending = FALSE
  BY DEF Init
<1>2. IsFiniteSet({}) /\ Cardinality({}) = 0
  BY FS_EmptySet
<1>3. \A t \in Nat : Window(t, BurstWindow) = {} /\ Window(t, HourlyWindow) = {}
  BY <1>1 DEF Window
<1>4. MaxBurst \in Nat /\ MaxHourly \in Nat
  BY LimiterAssumption
<1>5. TypeOK
  BY <1>1 DEF TypeOK
<1>6. Since(log, now - HourlyWindow) \subseteq history
  BY <1>1 DEF Since
<1>7. QuietWhileOpen /\ RefusalEnds
  BY <1>1 DEF QuietWhileOpen, RefusalEnds
<1>8. \A t \in Nat : /\ Cardinality(Window(t, BurstWindow)) <= MaxBurst
                     /\ Cardinality(Window(t, HourlyWindow)) <= MaxHourly
  BY <1>2, <1>3, <1>4
<1>9. Cardinality(history) <= MaxHourly /\ IsFiniteSet(log)
  BY <1>1, <1>2, <1>4
<1> QED
  BY <1>1, <1>5, <1>6, <1>7, <1>8, <1>9 DEF IInv

\* A window that reaches the present holds only what can_send counted, so a send
\* it permitted fits.
LEMMA RecordFits ==
  ASSUME IInv, sending, NEW x, x = <<Cardinality(log), now>>, log' = log \cup {x},
         NEW w \in Nat, NEW max \in Nat, NEW t \in Nat,
         Cardinality(Since(log, now - w)) < max,
         Cardinality(Window(t, w)) <= max
  PROVE  Cardinality(Window(t, w)') <= max
<1>0. /\ IsFiniteSet(log) /\ now \in Nat /\ log \subseteq Nat \X Nat
      /\ \A y \in log : y[2] <= now
  BY DEF IInv, TypeOK
<1>1. x[2] = now
  OBVIOUS
<1>2. CASE t + w < now
  <2>1. Window(t, w)' = Window(t, w)
    BY <1>0, <1>1, <1>2 DEF Window
  <2> QED BY <2>1
<1>3. CASE now <= t + w
  <2>1. Window(t, w) \subseteq Since(log, now - w)
    BY <1>0, <1>3 DEF Window, Since
  <2>2. Since(log, now - w) \subseteq log
    BY DEF Since
  <2>3. Cardinality(Window(t, w)) <= Cardinality(Since(log, now - w))
        /\ IsFiniteSet(Window(t, w)) /\ Cardinality(Since(log, now - w)) \in Nat
    BY <2>1, <2>2, <1>0, CountMonotone
  <2>4. Window(t, w)' \subseteq Window(t, w) \cup {x}
    BY DEF Window
  <2>5. Cardinality(Window(t, w)') <= Cardinality(Window(t, w) \cup {x})
        /\ Cardinality(Window(t, w)') \in Nat
    BY <2>3, <2>4, CountOneMore, CountMonotone
  <2>6. Cardinality(Window(t, w) \cup {x}) <= Cardinality(Window(t, w)) + 1
        /\ Cardinality(Window(t, w)) \in Nat /\ Cardinality(Window(t, w) \cup {x}) \in Nat
    BY <2>3, CountOneMore
  <2> QED BY <2>3, <2>5, <2>6
<1> QED BY <1>0, <1>2, <1>3

\* Every step preserves the inductive invariant.
LEMMA StepIInv == IInv /\ [Next]_vars => IInv'
<1> SUFFICES ASSUME IInv, [Next]_vars PROVE IInv'
  OBVIOUS
<1> USE LimiterAssumption
<1>1. /\ TypeOK /\ IsFiniteSet(log)
      /\ IsFiniteSet(history) /\ Cardinality(history) \in Nat
      /\ Pruned \subseteq history /\ IsFiniteSet(Pruned)
      /\ Cardinality(Pruned) <= Cardinality(history)
  BY CountMonotone DEF IInv, TypeOK, Pruned, Since
<1>1a. Cardinality(Pruned) \in Nat
  BY <1>1, FS_CardinalityType
<1>2. CASE Trip
  <2>1. PICK x \in Pruned : TRUE
    <3>1. Cardinality({}) = 0
      BY FS_EmptySet
    <3>2. Pruned = {} => Since(Pruned, now - BurstWindow) = {}
      BY DEF Since
    <3> QED BY <1>2, <3>1, <3>2 DEF Trip, Overrun
  <2>2. x \in log /\ now <= x[2] + HourlyWindow
    BY <1>1, <2>1 DEF TypeOK, Pruned, Since
  <2>3. RefusalEnds'
    BY <1>1, <1>2, <2>2 DEF Trip, RefusalEnds, TypeOK
  <2>4. QuietWhileOpen'
    BY <1>1, <1>2 DEF IInv, Trip, QuietWhileOpen, TypeOK
  <2>5. \A t \in trips' : t <= now' /\ (t + Cooloff <= openUntil' \/ t + Cooloff <= now')
    BY <1>1, <1>2 DEF IInv, Trip, TypeOK
  <2>6. TypeOK'
    BY <1>1, <1>2 DEF Trip, TypeOK
  <2>7. Since(log, now - HourlyWindow)' \subseteq history'
    BY <1>1, <1>2 DEF IInv, Trip, Pruned, Since
  <2>8. Cardinality(history') <= MaxHourly
    <3>1. Cardinality(history) <= MaxHourly
      BY DEF IInv
    <3>2. Cardinality(Pruned) <= MaxHourly
      BY <1>1, <1>1a, <3>1
    <3>3. history' = Pruned
      BY <1>2 DEF Trip
    <3> QED BY ONLY <3>2, <3>3
  <2> QED
    BY <1>2, <2>3, <2>4, <2>5, <2>6, <2>7, <2>8 DEF IInv, Trip, Window
<1>3. CASE Permit
  <2>1. TypeOK'
    BY <1>1, <1>3 DEF Permit, TypeOK
  <2>2. Since(log, now - HourlyWindow)' \subseteq history'
    BY <1>1, <1>3 DEF IInv, Permit, Pruned, Since
  <2>3. Cardinality(history') < MaxHourly /\ Cardinality(history') <= MaxHourly
    BY <1>1, <1>3, CountMonotone DEF Permit, Overrun
  <2>4. Cardinality(Since(log, now - BurstWindow)) < MaxBurst
    <3>1. Since(log, now - BurstWindow) \subseteq Since(log, now - HourlyWindow)
      BY <1>1 DEF Since, TypeOK
    <3>2. Since(log, now - BurstWindow) = Since(Pruned, now - BurstWindow)
      BY <1>1, <3>1 DEF IInv, Since, Pruned, TypeOK
    <3>3. Cardinality(Since(Pruned, now - BurstWindow)) \in Nat
      BY <1>1, CountMonotone DEF Since
    <3> QED BY <1>3, <3>2, <3>3 DEF Permit, Overrun
  <2>5. \A t \in trips : t + Cooloff <= now
    BY <1>1, <1>3 DEF IInv, Permit, CircuitOpen, TypeOK
  <2>6. QuietWhileOpen' /\ RefusalEnds'
    BY <1>1, <1>3 DEF IInv, Permit, QuietWhileOpen, RefusalEnds
  <2> QED
    BY <1>3, <2>1, <2>2, <2>3, <2>4, <2>5, <2>6 DEF IInv, Permit, Window, Since
<1>4. CASE RecordSend
  <2> DEFINE x == <<Cardinality(log), now>>
             grown == history \cup {x}
  <2>1. Cardinality(log) \in Nat /\ x \in Nat \X Nat
    BY <1>1, FS_CardinalityType DEF TypeOK
  <2>2. Cardinality(grown) <= MaxHourly /\ Cardinality(grown) \in Nat
    <3>1. Cardinality(history) < MaxHourly
      BY <1>4 DEF IInv, RecordSend
    <3>2. Cardinality(grown) <= Cardinality(history) + 1 /\ Cardinality(grown) \in Nat
      BY <1>1, CountOneMore
    <3> HIDE DEF grown
    <3> QED BY <1>1, <3>1, <3>2
  <2>3. history' = grown
    <3>1. history' = IF Cardinality(grown) > 2 * MaxHourly
                       THEN Latest(MaxHourly, grown) ELSE grown
      BY <1>4 DEF RecordSend
    <3> HIDE DEF grown
    <3>2. ~(Cardinality(grown) > 2 * MaxHourly)
      BY <2>2
    <3> QED BY <3>1, <3>2
  <2>4. log' = log \cup {x} /\ IsFiniteSet(log')
    BY <1>1, <1>4, CountOneMore DEF RecordSend
  <2>5. TypeOK'
    BY <1>1, <1>4, <2>1, <2>3, <2>4 DEF RecordSend, TypeOK
  <2>6. \A y \in log' : y[2] <= now'
    BY <1>1, <1>4, <2>4 DEF IInv, RecordSend, TypeOK
  <2>7. Since(log, now - HourlyWindow)' \subseteq history'
    BY <1>1, <1>4, <2>3, <2>4 DEF IInv, RecordSend, Since
  <2>8. ASSUME NEW t \in Nat PROVE Cardinality(Window(t, BurstWindow)') <= MaxBurst
    BY <1>4, <2>4, RecordFits DEF IInv, RecordSend
  <2>9. ASSUME NEW t \in Nat PROVE Cardinality(Window(t, HourlyWindow)') <= MaxHourly
    <3>1. Cardinality(Since(log, now - HourlyWindow)) < MaxHourly
      BY <1>1, <1>4, CountMonotone DEF IInv, RecordSend
    <3> QED BY <1>4, <2>4, <3>1, RecordFits DEF IInv, RecordSend
  <2>10. \A t \in trips : t + Cooloff <= now
    BY <1>1, <1>4 DEF IInv, RecordSend, TypeOK
  <2>11. QuietWhileOpen'
    BY <1>1, <1>4, <2>4, <2>10 DEF IInv, RecordSend, QuietWhileOpen, TypeOK
  <2>12. RefusalEnds'
    BY <1>4, <2>4 DEF IInv, RecordSend, RefusalEnds
  <2> QED
    BY <1>4, <2>2, <2>3, <2>4, <2>5, <2>6, <2>7, <2>8, <2>9, <2>11, <2>12
       DEF IInv, RecordSend
<1>5. CASE SendFails
  BY <1>1, <1>5 DEF IInv, SendFails, TypeOK, Since, Window, QuietWhileOpen, RefusalEnds
<1>6. CASE Forget
  <2>1. IsFiniteSet({}) /\ Cardinality({}) = 0
    BY FS_EmptySet
  <2>2. \A t \in Nat, w \in Nat : Window(t, w)' = {}
    BY <1>6 DEF Forget, Window
  <2>3. \A t : Since(log', t) = {}
    BY <1>6 DEF Forget, Since
  <2>4. TypeOK'
    BY <1>1, <1>6 DEF Forget, TypeOK
  <2>5. Cardinality(history') = 0 /\ IsFiniteSet(log')
    BY <1>6, <2>1 DEF Forget
  <2>6. Cardinality(Since(log, now - BurstWindow)') < MaxBurst
    BY <1>6, <2>1, <2>3 DEF Forget, Since
  <2>7. \A t \in Nat : /\ Cardinality(Window(t, BurstWindow)') <= MaxBurst
                       /\ Cardinality(Window(t, HourlyWindow)') <= MaxHourly
    <3>1. TAKE t \in Nat
    <3>2. Window(t, BurstWindow)' = {} /\ Window(t, HourlyWindow)' = {}
      BY <2>2
    <3>3. 0 <= MaxBurst /\ 0 <= MaxHourly
      OBVIOUS
    <3> QED BY <2>1, <3>2, <3>3
  <2>8. QuietWhileOpen' /\ RefusalEnds' /\ Since(log, now - HourlyWindow)' \subseteq history'
    BY <1>6 DEF Forget, QuietWhileOpen, RefusalEnds, Since
  <2> QED
    BY <1>6, <2>4, <2>5, <2>6, <2>7, <2>8 DEF IInv, Forget
<1>7. CASE Elapse
  <2>1. TypeOK' /\ now <= now'
    BY <1>1, <1>7 DEF Elapse, TypeOK
  <2>2. /\ Since(log, now - HourlyWindow)' \subseteq Since(log, now - HourlyWindow)
        /\ Since(log, now - BurstWindow)' \subseteq Since(log, now - BurstWindow)
        /\ Since(log, now - BurstWindow) \subseteq log
    BY <1>1, <1>7 DEF Elapse, Since, TypeOK
  <2>3. sending' => Cardinality(Since(log, now - BurstWindow)') < MaxBurst
    BY <1>1, <1>7, <2>2, CountMonotone DEF IInv, Elapse
  <2>4. \A t \in trips' : t <= now' /\ (t + Cooloff <= openUntil' \/ t + Cooloff <= now')
    BY <1>1, <1>7 DEF IInv, Elapse, TypeOK
  <2>5. \A y \in log' : y[2] <= now'
    BY <1>1, <1>7 DEF IInv, Elapse, TypeOK
  <2>6. QuietWhileOpen' /\ RefusalEnds'
    BY <1>7 DEF IInv, Elapse, QuietWhileOpen, RefusalEnds
  <2> QED
    BY <1>1, <1>7, <2>1, <2>2, <2>3, <2>4, <2>5, <2>6 DEF IInv, Elapse, Window
<1>8. CASE UNCHANGED vars
  BY <1>8 DEF IInv, vars, TypeOK, Since, Window, QuietWhileOpen, RefusalEnds
<1> QED
  BY <1>2, <1>3, <1>4, <1>5, <1>6, <1>7, <1>8 DEF Next

\* So the invariant holds in every reachable state.
LEMMA Invariant == Spec => []IInv
BY InitIInv, StepIInv, PTL DEF Spec

-----------------------------------------------------------------------------

\* Every reachable state of the limiter has the types the code gives it, and the
\* history holds nothing that was not sent.
THEOREM TypeCorrect == Spec => []TypeOK
<1>1. IInv => TypeOK
  BY DEF IInv
<1> QED BY Invariant, <1>1, PTL

\* At most MaxBurst sends in any burst window, for every limit and window.
THEOREM BurstIsBounded == Spec => []BurstBound
<1>1. IInv => BurstBound
  <2> SUFFICES ASSUME IInv, NEW t \in 0..now
               PROVE Cardinality(Window(t, BurstWindow)) <= MaxBurst
    BY DEF BurstBound, Window
  <2> QED BY DEF IInv, TypeOK
<1> QED BY Invariant, <1>1, PTL

\* At most MaxHourly sends in any hourly window.
THEOREM HourIsBounded == Spec => []HourlyBound
<1>1. IInv => HourlyBound
  <2> SUFFICES ASSUME IInv, NEW t \in 0..now
               PROVE Cardinality(Window(t, HourlyWindow)) <= MaxHourly
    BY DEF HourlyBound, Window
  <2> QED BY DEF IInv, TypeOK
<1> QED BY Invariant, <1>1, PTL

\* Nothing is sent between a trip and the end of its cooloff.
THEOREM CircuitIsQuiet == Spec => []QuietWhileOpen
<1>1. IInv => QuietWhileOpen
  BY DEF IInv
<1> QED BY Invariant, <1>1, PTL

\* The circuit is never open longer than an hourly window and a cooloff after
\* the last send.
THEOREM RefusalIsBounded == Spec => []RefusalEnds
<1>1. IInv => RefusalEnds
  BY DEF IInv
<1> QED BY Invariant, <1>1, PTL
=============================================================================
