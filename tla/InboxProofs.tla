----------------------------- MODULE InboxProofs -----------------------------
(***************************************************************************)
(* For any messages, listings, rows and faults: a row is marked only when  *)
(* Snippen holds its text, and the texts that are joined on the way are    *)
(* one customer's (the report); what a poll puts together from a listing   *)
(* of any length has its types, is stored whole and once, and is not lost  *)
(* (polling, storing).                                                     *)
(***************************************************************************)
EXTENDS Inbox, FiniteSetTheorems, SequenceTheorems, WellFoundedInduction, TLAPS

-----------------------------------------------------------------------------
(* Rows                                                                    *)

\* What reassembly puts into a row is left open: the report does not depend on it.
RowsSound ==
  /\ rows \in Seq({rows[i] : i \in DOMAIN rows})
  /\ Len(rows) <= MaxRow
  /\ \A i \in DOMAIN rows :
       rows[i] = [id |-> rows[i].id, parts |-> rows[i].parts, status |-> rows[i].status]

\* A function on 1..n is a sequence of its own values.
LEMMA SequenceOfItsValues ==
  ASSUME NEW n \in Nat, NEW a, a = [i \in 1..n |-> a[i]]
  PROVE  a \in Seq({a[i] : i \in DOMAIN a}) /\ Len(a) = n
<1> DEFINE V == {a[i] : i \in DOMAIN a}
<1>1. \A i \in 1..n : a[i] \in V
  OBVIOUS
<1> HIDE DEF V
<1>2. a \in Seq(V) /\ Len(a) = n
  BY <1>1
<1> QED
  BY <1>2 DEF V

LEMMA SequenceIsFunction ==
  ASSUME NEW U, NEW a \in Seq(U)
  PROVE  a = [i \in 1..Len(a) |-> a[i]] /\ Len(a) \in Nat
OBVIOUS

\* A row more, and none other changed.
LEMMA RowAppended ==
  ASSUME NEW s, s \in Seq({s[i] : i \in DOMAIN s}), NEW r
  PROVE  /\ Append(s, r) \in Seq({Append(s, r)[i] : i \in DOMAIN Append(s, r)})
         /\ Len(Append(s, r)) = Len(s) + 1 /\ Len(s) \in Nat
         /\ DOMAIN s = 1..Len(s)
         /\ DOMAIN Append(s, r) = 1..(Len(s) + 1)
         /\ \A i \in DOMAIN s : Append(s, r)[i] = s[i]
         /\ Append(s, r)[Len(s) + 1] = r
<1> DEFINE T == {s[i] : i \in DOMAIN s}
           U == T \cup {r}
<1>1. s \in Seq(U)
  <2>1. Len(s) \in Nat /\ DOMAIN s = 1..Len(s) /\ s = [i \in 1..Len(s) |-> s[i]]
    OBVIOUS
  <2>2. \A i \in 1..Len(s) : s[i] \in U
    BY <2>1
  <2> HIDE DEF U
  <2> QED
    BY <2>1, <2>2
<1>2. r \in U
  OBVIOUS
<1> HIDE DEF T, U
<1>3. /\ Append(s, r) \in Seq(U) /\ Len(Append(s, r)) = Len(s) + 1 /\ Len(s) \in Nat
      /\ DOMAIN s = 1..Len(s) /\ DOMAIN Append(s, r) = 1..(Len(s) + 1)
      /\ \A i \in DOMAIN s : Append(s, r)[i] = s[i]
      /\ Append(s, r)[Len(s) + 1] = r
  BY <1>1, <1>2
<1>4. Append(s, r) \in Seq({Append(s, r)[i] : i \in DOMAIN Append(s, r)})
  <2>1. Append(s, r) = [i \in 1..(Len(s) + 1) |-> Append(s, r)[i]] /\ Len(s) + 1 \in Nat
    BY <1>3, SequenceIsFunction
  <2> QED
    BY <2>1, SequenceOfItsValues
<1> QED
  BY <1>3, <1>4

\* A mark changes the status of one row.
LEMMA RowMarked ==
  ASSUME RowsSound, NEW i \in DOMAIN rows, NEW s,
         rows' = [rows EXCEPT ![i].status = s]
  PROVE  /\ RowsSound' /\ DOMAIN rows' = DOMAIN rows
         /\ rows'[i].status = s
         /\ \A j \in DOMAIN rows : /\ rows'[j].id = rows[j].id
                                   /\ rows'[j].parts = rows[j].parts
                                   /\ j # i => rows'[j].status = rows[j].status
<1>1. /\ Len(rows) \in Nat /\ DOMAIN rows = 1..Len(rows)
      /\ rows = [k \in 1..Len(rows) |-> rows[k]]
  BY DEF RowsSound
<1>2. \A j \in DOMAIN rows :
        rows[j] = [id |-> rows[j].id, parts |-> rows[j].parts, status |-> rows[j].status]
  BY DEF RowsSound
<1>3. rows' = [j \in 1..Len(rows) |-> IF j = i THEN [rows[i] EXCEPT !.status = s] ELSE rows[j]]
  BY <1>1
<1>4. [rows[i] EXCEPT !.status = s] = [id |-> rows[i].id, parts |-> rows[i].parts, status |-> s]
  BY <1>2
<1>5. /\ DOMAIN rows' = DOMAIN rows /\ Len(rows') = Len(rows)
      /\ \A j \in DOMAIN rows : rows'[j] = IF j = i THEN [id |-> rows[i].id,
                                                          parts |-> rows[i].parts, status |-> s]
                                          ELSE rows[j]
  BY <1>1, <1>3, <1>4
<1>6. rows' \in Seq({rows'[j] : j \in DOMAIN rows'})
  <2>1. PICK next : next = rows'
    OBVIOUS
  <2>2. next = [j \in 1..Len(rows) |-> next[j]]
    BY <1>3, <2>1
  <2>3. PICK n \in Nat : n = Len(rows)
    BY <1>1
  <2>4. next \in Seq({next[j] : j \in DOMAIN next})
    BY <2>2, <2>3, SequenceOfItsValues
  <2> QED
    BY <2>1, <2>4
<1>7. \A j \in DOMAIN rows :
        rows'[j] = [id |-> rows'[j].id, parts |-> rows'[j].parts, status |-> rows'[j].status]
  BY <1>2, <1>5
<1>8. RowsSound'
  BY <1>5, <1>6, <1>7 DEF RowsSound
<1> QED
  BY <1>5, <1>8

-----------------------------------------------------------------------------
(* What Snippen holds of a row that is marked.                             *)

\* What Snippen holds are texts of stored rows, under the ids of stored rows.
KnownRows ==
  /\ known \in [Row -> SUBSET (DOMAIN rows)]
  /\ \A i \in Row : known[i] # {} => i \in DOMAIN rows

\* The report under way is about stored rows, all of them unprocessed until Snippen
\* answered; what it acknowledged is one of them, unprocessed until it is marked.
Reporting ==
  /\ KnownRows
  /\ batch \subseteq DOMAIN rows /\ acked \subseteq batch
  /\ acked # {} => pc = "marking"
  /\ pc = "posting" => \A i \in batch : rows[i].status = "received"
  /\ \A i \in acked : rows[i].status = "received"

Settled(i) == i \in DOMAIN rows /\ (rows[i].status = "processed" \/ i \in acked)

\* A row Snippen holds a text of was acknowledged, so that what is reported again is
\* not held yet; and an acknowledged row is held.
HeldInv ==
  /\ RowsSound /\ Reporting
  /\ ~unheeded => \A i \in Row : known[i] # {} => Settled(i)
  /\ ~unheeded => \A i \in Row : Settled(i) => Held(i)

LEMMA RowsAreNumbered ==
  RowsSound => DOMAIN rows = 1..Len(rows) /\ Len(rows) \in Nat /\ DOMAIN rows \subseteq Row
BY InboxAssumption DEF RowsSound, Row

LEMMA HeldAtFirst == Init => HeldInv
<1> SUFFICES ASSUME Init PROVE HeldInv
  OBVIOUS
<1>1. rows = <<>> /\ acked = {} /\ batch = {} /\ pc = "off" /\ known = [i \in Row |-> {}]
  BY DEF Init
<1>2. RowsSound
  BY <1>1, InboxAssumption DEF RowsSound
<1>3. DOMAIN rows = {}
  BY <1>1
<1> QED
  BY <1>1, <1>2, <1>3 DEF HeldInv, Reporting, KnownRows, Settled

\* A step that leaves the report alone and keeps the rows there are.
LEMMA ReportStays ==
  ASSUME HeldInv, RowsSound', UNCHANGED <<batch, acked, known, unheeded>>,
         pc' = pc \/ (acked = {} /\ pc' # "posting"),
         DOMAIN rows \subseteq DOMAIN rows',
         \A i \in DOMAIN rows : rows'[i] = rows[i],
         \A i \in DOMAIN rows' : i \notin DOMAIN rows => rows'[i].status = "received"
  PROVE  HeldInv'
<1>1. Reporting'
  BY DEF HeldInv, Reporting, KnownRows
<1>2. \A i : Settled(i)' <=> Settled(i)
  BY DEF HeldInv, Reporting, KnownRows, Settled
<1>3. \A i : Held(i)' <=> Held(i)
  BY DEF Held
<1> QED
  BY <1>1, <1>2, <1>3 DEF HeldInv

\* The report ends without its marks, or with all of them; what Snippen holds may
\* have grown, but then the answer was not heeded.
LEMMA ReportEnds ==
  ASSUME HeldInv, UNCHANGED rows, batch' = {}, acked' = {}, pc' # "posting",
         \/ unheeded'
         \/ acked = {} /\ UNCHANGED known /\ (unheeded => unheeded'),
         KnownRows'
  PROVE  HeldInv'
<1>1. RowsSound' /\ Reporting'
  BY DEF HeldInv, RowsSound, Reporting, KnownRows
<1>2. CASE unheeded'
  BY <1>1, <1>2 DEF HeldInv
<1>3. CASE acked = {} /\ UNCHANGED known /\ (unheeded => unheeded')
  BY <1>1, <1>3 DEF HeldInv, Settled, Held
<1> QED
  BY <1>2, <1>3

\* Any set of numbers has a least one.
LEMMA LeastOf ==
  ASSUME NEW S \in SUBSET Nat, S # {}
  PROVE  \E m \in S : \A k \in S : m <= k
<1> DEFINE R == OpToRel(<, Nat)
<1>1. PICK m \in S : \A k \in S : <<k, m>> \notin R
  BY WFMin, NatLessThanWellFounded
<1>2. \A k \in S : ~(k < m)
  BY <1>1 DEF OpToRel
<1> QED
  BY <1>2

\* A batch is gone through in order, and a row is joined or not by what is before it:
\* so the rows reported themselves are determined, for any batch.
LEMMA PrimariesAre ==
  ASSUME RowsSound, NEW S \in SUBSET (DOMAIN rows)
  PROVE  /\ Primaries(S) \in SUBSET S
         /\ \A j \in S : j \in Primaries(S) <=> ~ReadsOn(TextBefore(S, Primaries(S), j), j)
<1> DEFINE Upto(n, P) == \A j \in S : j <= n => (j \in P <=> ~ReadsOn(TextBefore(S, P, j), j))
           Missing == {n \in Nat : \A P \in SUBSET S : P \subseteq 1..n => ~Upto(n, P)}
<1>1. /\ Len(rows) \in Nat /\ S \subseteq 1..Len(rows)
      /\ \A j \in S : j \in Nat /\ j >= 1 /\ j <= Len(rows)
  BY RowsAreNumbered
<1>2. Missing = {}
  <2> SUFFICES ASSUME Missing # {} PROVE FALSE
    OBVIOUS
  <2>1. PICK n \in Missing : \A k \in Missing : n <= k
    BY LeastOf
  <2>2. n # 0
    <3>1. {} \in SUBSET S /\ {} \subseteq 1..0 /\ Upto(0, {})
      BY <1>1
    <3> QED
      BY <3>1
  <2>3. n - 1 \in Nat /\ n - 1 \notin Missing /\ n \in Nat
    BY <2>1, <2>2
  <2>4. PICK P \in SUBSET S : P \subseteq 1..(n - 1) /\ Upto(n - 1, P)
    BY <2>3
  <2> DEFINE Q == IF n \in S /\ ~ReadsOn(TextBefore(S, P, n), n) THEN P \cup {n} ELSE P
  <2>5. Q \in SUBSET S /\ Q \subseteq 1..n
    BY <2>3, <2>4
  <2>6. \A p : p \in Q <=> p \in P \/ (p = n /\ n \in S /\ ~ReadsOn(TextBefore(S, P, n), n))
    BY <2>4
  <2>7. n \notin P
    BY <2>3, <2>4
  <2> HIDE DEF Q
  <2>8. \A j \in S : j <= n => TextBefore(S, Q, j) = TextBefore(S, P, j)
    <3> SUFFICES ASSUME NEW j \in S, j <= n, NEW i \in S
                 PROVE  (\A p \in Q : p <= i \/ j <= p) <=> (\A p \in P : p <= i \/ j <= p)
      BY DEF TextBefore
    <3>1. P \subseteq Q /\ \A p \in Q : p \in P \/ j <= p
      BY <2>6
    <3> QED
      BY <3>1
  <2>9. Upto(n, Q)
    <3> SUFFICES ASSUME NEW j \in S, j <= n
                 PROVE  j \in Q <=> ~ReadsOn(TextBefore(S, Q, j), j)
      OBVIOUS
    <3>1. TextBefore(S, Q, j) = TextBefore(S, P, j)
      BY <2>8
    <3>2. CASE j = n
      BY <2>6, <2>7, <3>1, <3>2
    <3>3. CASE j # n
      <4>1. j <= n - 1
        BY <1>1, <2>3, <3>3
      <4>2. j \in P <=> ~ReadsOn(TextBefore(S, P, j), j)
        BY <2>4, <4>1
      <4> QED
        BY <2>6, <3>1, <3>3, <4>2
    <3> QED
      BY <3>2, <3>3
  <2> QED
    BY <2>1, <2>5, <2>9
<1>3. PICK P \in SUBSET S : Upto(Len(rows), P)
  <2>1. \E P \in SUBSET S : P \subseteq 1..Len(rows) /\ Upto(Len(rows), P)
    BY <1>1, <1>2
  <2> QED
    BY <2>1
<1>4. \E Q \in SUBSET S : \A j \in S : j \in Q <=> ~ReadsOn(TextBefore(S, Q, j), j)
  BY <1>1, <1>3
<1> QED
  BY <1>4 DEF Primaries

\* The rows of a batch that are reported stand for themselves and for those joined.
LEMMA Absorbing ==
  ASSUME RowsSound, NEW S \in SUBSET (DOMAIN rows), NEW i \in Primaries(S)
  PROVE  i \in Absorbed(S, i) /\ Absorbed(S, i) \subseteq S
<1>1. S \subseteq Nat /\ Primaries(S) \subseteq S
  BY RowsAreNumbered, PrimariesAre
<1> QED
  BY <1>1 DEF Absorbed

\* What Snippen is told of is in its hands, and stays.
LEMMA TellingHolds ==
  ASSUME HeldInv, NEW S \in SUBSET Primaries(batch), known' = Told(S)
  PROVE  /\ known' \in [Row -> SUBSET (DOMAIN rows)]
         /\ \A i \in Row : known'[i] # {} => i \in DOMAIN rows
         /\ \A i : Held(i) => Held(i)'
<1>1. batch \subseteq DOMAIN rows /\ known \in [Row -> SUBSET (DOMAIN rows)] /\ RowsSound
  BY DEF HeldInv, Reporting, KnownRows
<1>2. \A i \in Primaries(batch) : Absorbed(batch, i) \subseteq DOMAIN rows
  BY <1>1, Absorbing
<1>3. \A i \in Row : known'[i] = known[i] \/ (known[i] = {} /\ i \in S
                                                /\ known'[i] = Absorbed(batch, i))
  BY DEF Told
<1>4. known' \in [Row -> SUBSET (DOMAIN rows)]
  BY <1>1, <1>2, <1>3 DEF Told
<1>5. S \subseteq DOMAIN rows /\ \A i \in Row : known[i] # {} => i \in DOMAIN rows
  BY <1>1 DEF HeldInv, Reporting, KnownRows, Primaries
<1> QED
  BY <1>3, <1>4, <1>5 DEF Held

\* Snippen acknowledges what it holds: none of the batch was held before.
LEMMA PostReportHolds ==
  ASSUME HeldInv, NEW S \in SUBSET Primaries(batch), PostReport(S)
  PROVE  HeldInv'
<1>1. /\ pc = "posting" /\ pc' = "marking" /\ known' = Told(S)
      /\ acked' = UNION {Absorbed(batch, i) : i \in S}
      /\ UNCHANGED <<rows, batch, unheeded>>
  BY DEF PostReport
<1>2. /\ known' \in [Row -> SUBSET (DOMAIN rows)]
      /\ \A i \in Row : known'[i] # {} => i \in DOMAIN rows
      /\ \A i : Held(i) => Held(i)'
  BY <1>1, TellingHolds
<1>3. /\ RowsSound /\ batch \subseteq DOMAIN rows /\ DOMAIN rows \subseteq Row /\ acked = {}
      /\ \A i \in batch : rows[i].status = "received"
  BY <1>1, RowsAreNumbered DEF HeldInv, Reporting, KnownRows
<1>4. \A i \in S : i \in Absorbed(batch, i) /\ Absorbed(batch, i) \subseteq batch
  BY <1>3, Absorbing
<1>5. S \subseteq batch /\ S \subseteq acked' /\ acked' \subseteq batch
  BY <1>1, <1>4
<1>6. RowsSound' /\ Reporting'
  BY <1>1, <1>2, <1>3, <1>5 DEF HeldInv, RowsSound, Reporting, KnownRows
<1>7. ASSUME ~unheeded' PROVE \A i \in Row : known'[i] # {} => Settled(i)'
  <2>1. \A i \in Row : i \notin S => known'[i] = known[i]
    BY <1>1 DEF Told
  <2>2. \A i \in Row : known[i] # {} => i \in DOMAIN rows /\ rows[i].status = "processed"
    BY <1>1, <1>3, <1>7 DEF HeldInv, Settled
  <2> QED
    BY <1>1, <1>3, <1>5, <2>1, <2>2 DEF Settled
<1>8. ASSUME ~unheeded', NEW j \in Row, Settled(j)' PROVE Held(j)'
  <2>1. CASE j \in acked'
    <3>1. PICK i \in S : j \in Absorbed(batch, i)
      BY <1>1, <2>1
    <3>2. i \in Row /\ known[i] = {}
      BY <1>1, <1>3, <1>5, <1>8 DEF HeldInv, Settled
    <3>3. known'[i] = Absorbed(batch, i)
      BY <1>1, <3>2 DEF Told
    <3> QED
      BY <3>1, <3>2, <3>3 DEF Held
  <2>2. CASE j \notin acked'
    <3>1. Settled(j)
      BY <1>1, <1>8, <2>2 DEF Settled
    <3> QED
      BY <1>1, <1>2, <1>8, <3>1 DEF HeldInv
  <2> QED
    BY <2>1, <2>2
<1> QED
  BY <1>6, <1>7, <1>8 DEF HeldInv

\* A mark keeps its row settled.
LEMMA MarkHolds ==
  ASSUME HeldInv, MarkProcessed
  PROVE  HeldInv'
<1>1. PICK i \in acked : /\ rows' = [rows EXCEPT ![i].status = "processed"]
                         /\ acked' = acked \ {i}
  BY DEF MarkProcessed
<1>2. pc = "marking" /\ UNCHANGED <<pc, batch, known, unheeded>>
  BY DEF MarkProcessed
<1>3. i \in DOMAIN rows
  BY DEF HeldInv, Reporting, KnownRows
<1>4. /\ RowsSound' /\ DOMAIN rows' = DOMAIN rows
      /\ rows'[i].status = "processed"
      /\ \A j \in DOMAIN rows : j # i => rows'[j].status = rows[j].status
  BY <1>1, <1>3, RowMarked DEF HeldInv
<1>5. Reporting'
  BY <1>1, <1>2, <1>4 DEF HeldInv, Reporting, KnownRows
<1>6. \A j : Settled(j)' <=> Settled(j)
  BY <1>1, <1>3, <1>4 DEF Settled
<1>7. \A j : Held(j)' <=> Held(j)
  BY <1>2 DEF Held
<1> QED
  BY <1>2, <1>4, <1>5, <1>6, <1>7 DEF HeldInv

LEMMA StoreHolds ==
  ASSUME HeldInv, Store
  PROVE  HeldInv'
<1>1. UNCHANGED <<batch, acked, known, unheeded>> /\ pc = "storing" /\ pc' \in {"idle", "storing"}
  BY DEF Store, SkipItem, StoreItem, StoreFails, LookupFails, NextItem, reportVars
<1>2. acked = {} /\ pc' # "posting"
  BY <1>1 DEF HeldInv, Reporting, KnownRows
<1>3. CASE UNCHANGED rows
  <2>1. RowsSound'
    BY <1>3 DEF HeldInv, RowsSound
  <2> QED
    BY <1>1, <1>2, <1>3, <2>1, ReportStays
<1>4. CASE StoreItem
  <2> DEFINE r == [id |-> Head(ready).id, parts |-> Head(ready).parts, status |-> "received"]
  <2>1. rows' = Append(rows, r) /\ Len(rows) < MaxRow
    BY <1>4 DEF StoreItem
  <2>2. r = [id |-> r.id, parts |-> r.parts, status |-> r.status] /\ r.status = "received"
    OBVIOUS
  <2> HIDE DEF r
  <2>3. /\ rows' \in Seq({rows'[i] : i \in DOMAIN rows'})
        /\ Len(rows') = Len(rows) + 1 /\ Len(rows) \in Nat
        /\ DOMAIN rows = 1..Len(rows)
        /\ DOMAIN rows' = 1..(Len(rows) + 1)
        /\ \A i \in DOMAIN rows : rows'[i] = rows[i]
        /\ rows'[Len(rows) + 1] = r
    BY <2>1, RowAppended DEF HeldInv, RowsSound
  <2>4. \A i \in DOMAIN rows' : i \in DOMAIN rows \/ i = Len(rows) + 1
    BY <2>3
  <2>5. RowsSound'
    BY <2>1, <2>2, <2>3, <2>4, InboxAssumption DEF HeldInv, RowsSound
  <2>6. DOMAIN rows \subseteq DOMAIN rows'
    BY <2>3
  <2> QED
    BY <1>1, <1>2, <2>2, <2>3, <2>4, <2>5, <2>6, ReportStays
<1> QED
  BY <1>3, <1>4 DEF Store, SkipItem, StoreFails, LookupFails

LEMMA ReportHolds ==
  ASSUME HeldInv, Report
  PROVE  HeldInv'
<1>1. CASE BeginReport
  <2>1. /\ pc = "idle" /\ pc' = "posting" /\ UNCHANGED <<rows, acked, known, unheeded>>
        /\ batch' \subseteq Unprocessed
    BY <1>1 DEF BeginReport, Oldest
  <2>2. RowsSound' /\ Reporting'
    BY <2>1 DEF HeldInv, RowsSound, Reporting, KnownRows, Unprocessed
  <2> QED
    BY <2>1, <2>2 DEF HeldInv, Settled, Held
<1>2. CASE MarkProcessed
  BY <1>2, MarkHolds
<1>3. CASE EndReport
  <2>1. /\ acked = {} /\ acked' = {} /\ batch' = {} /\ pc' # "posting"
        /\ UNCHANGED <<rows, known, unheeded>>
    BY <1>3 DEF EndReport
  <2> QED
    BY <2>1, ReportEnds DEF HeldInv, Reporting, KnownRows
<1>4. CASE MarkFails
  <2>1. /\ acked' = {} /\ batch' = {} /\ pc' # "posting" /\ unheeded' /\ UNCHANGED <<rows, known>>
    BY <1>4 DEF MarkFails
  <2> QED
    BY <2>1, ReportEnds DEF HeldInv, Reporting, KnownRows
<1>5. ASSUME NEW S \in SUBSET Primaries(batch), PostReport(S) PROVE HeldInv'
  BY <1>5, PostReportHolds
<1>6. ASSUME NEW S \in SUBSET Primaries(batch), PostFails(S) PROVE HeldInv'
  <2>1. /\ pc = "posting" /\ batch' = {} /\ pc' = "idle" /\ UNCHANGED <<rows, acked>>
        /\ known' = Told(S) /\ unheeded' = (unheeded \/ S # {})
    BY <1>6 DEF PostFails
  <2>2. acked = {} /\ KnownRows'
    BY <2>1, TellingHolds DEF HeldInv, Reporting, KnownRows
  <2>3. CASE unheeded'
    BY <2>1, <2>2, <2>3, ReportEnds
  <2>4. CASE ~unheeded'
    <3>1. S = {} /\ (unheeded => unheeded')
      BY <2>1, <2>4
    <3>2. known' = known
      BY <2>1, <3>1 DEF Told, HeldInv, Reporting, KnownRows
    <3> QED
      BY <2>1, <2>2, <3>1, <3>2, ReportEnds
  <2> QED
    BY <2>3, <2>4
<1> QED
  BY <1>1, <1>2, <1>3, <1>4, <1>5, <1>6 DEF Report

LEMMA CrashHolds ==
  ASSUME HeldInv, Crash
  PROVE  HeldInv'
<1>1. /\ acked' = {} /\ batch' = {} /\ pc' # "posting" /\ UNCHANGED <<rows, known>>
      /\ unheeded' = (unheeded \/ acked # {})
  BY DEF Crash, providerVars
<1>2. CASE acked # {}
  BY <1>1, <1>2, ReportEnds DEF HeldInv, Reporting, KnownRows
<1>3. CASE acked = {}
  <2>1. unheeded => unheeded'
    BY <1>1
  <2> QED
    BY <1>1, <1>3, <2>1, ReportEnds DEF HeldInv, Reporting, KnownRows
<1> QED
  BY <1>2, <1>3

LEMMA HeldPreserved == HeldInv /\ [Next]_vars => HeldInv'
<1> SUFFICES ASSUME HeldInv, [Next]_vars PROVE HeldInv'
  OBVIOUS
<1>1. CASE /\ UNCHANGED <<rows, batch, acked, known, unheeded>>
           /\ pc' = pc \/ (pc \in {"off", "idle"} /\ pc' \in {"idle", "storing"})
  <2>1. RowsSound'
    BY <1>1 DEF HeldInv, RowsSound
  <2>2. pc' = pc \/ (acked = {} /\ pc' # "posting")
    BY <1>1 DEF HeldInv, Reporting, KnownRows
  <2> QED
    BY <1>1, <2>1, <2>2, ReportStays
<1>2. CASE Store
  BY <1>2, StoreHolds
<1>3. CASE Report
  BY <1>3, ReportHolds
<1>4. CASE Crash
  BY <1>4, CrashHolds
<1>5. CASE UNCHANGED vars
  BY <1>1, <1>5 DEF vars, reportVars
<1>6. CASE \E x \in Segment : Arrive(x)
  BY <1>1, <1>6 DEF Arrive, reportVars
<1>7. CASE Poll
  BY <1>1, <1>7 DEF Poll, reportVars
<1>8. CASE Start
  BY <1>1, <1>8 DEF Start, reportVars
<1> QED
  BY <1>2, <1>3, <1>4, <1>5, <1>6, <1>7, <1>8 DEF Next

\* A row is marked processed only when Snippen holds its text, under its own id or
\* that of a row it was joined with (sync_inbox marks what ack_map lists), for any
\* messages and any number of rows, as long as every answer is acted upon.
THEOREM MarkedIsHeld == Spec => []ProcessedIsHeld
<1>1. Init => HeldInv
  BY HeldAtFirst
<1>2. HeldInv /\ [Next]_vars => HeldInv'
  BY HeldPreserved
<1>3. HeldInv => ProcessedIsHeld
  BY RowsAreNumbered DEF HeldInv, ProcessedIsHeld, Settled
<1> QED
  BY <1>1, <1>2, <1>3, PTL DEF Spec

-----------------------------------------------------------------------------
(* Rows that are joined.                                                   *)

\* Rows are joined one by one, each with the one before it: so one that is another
\* sender's would have a first such one, whose predecessor has the right sender.
LEMMA AbsorbedAreOneSenders ==
  ASSUME RowsSound, NEW S \in SUBSET (DOMAIN rows), NEW i \in Primaries(S),
         NEW j \in Absorbed(S, i)
  PROVE  SenderOf(j) = SenderOf(i)
<1> DEFINE Strangers == {k \in Absorbed(S, i) : SenderOf(k) # SenderOf(i)}
<1>1. S \subseteq Nat /\ Primaries(S) \subseteq S /\ i \in S
  BY RowsAreNumbered, PrimariesAre
<1>2. SUFFICES ASSUME Strangers # {} PROVE FALSE
  OBVIOUS
<1>3. Strangers \subseteq S /\ Strangers \subseteq Nat
  BY <1>1 DEF Absorbed
<1>4. PICK m \in Strangers : \A k \in Strangers : m <= k
  BY <1>2, <1>3, LeastOf
<1>5. m \in S /\ i <= m /\ m # i /\ m \notin Primaries(S)
  BY <1>1, <1>3, <1>4 DEF Absorbed
<1>6. PICK k \in TextBefore(S, Primaries(S), m) :
        /\ \A l \in TextBefore(S, Primaries(S), m) : l <= k
        /\ SenderOf(k) = SenderOf(m)
  BY <1>5, PrimariesAre DEF ReadsOn
<1>7. k \in S /\ k < m /\ i <= k
  BY <1>1, <1>5, <1>6 DEF TextBefore
<1>8. k \in Absorbed(S, i)
  BY <1>1, <1>3, <1>4, <1>6, <1>7 DEF Absorbed
<1>9. SenderOf(k) = SenderOf(i)
  BY <1>1, <1>3, <1>4, <1>7, <1>8
<1> QED
  BY <1>4, <1>6, <1>9

LEMMA SendersStay ==
  ASSUME HeldInv, [Next]_vars
  PROVE  \A i \in DOMAIN rows : rows'[i].id = rows[i].id
<1>1. CASE UNCHANGED rows
  BY <1>1
<1>2. CASE StoreItem
  BY <1>2, RowAppended DEF StoreItem, HeldInv, RowsSound
<1>3. CASE MarkProcessed
  BY <1>3, RowMarked DEF MarkProcessed, HeldInv, Reporting, KnownRows
<1> QED
  BY <1>1, <1>2, <1>3 DEF Next, Arrive, Poll, Store, SkipItem, StoreFails, LookupFails, Report,
     BeginReport, EndReport, MarkFails, PostReport, PostFails, Crash, Start, vars

LEMMA KnownGrows ==
  ASSUME [Next]_vars
  PROVE  \/ known' = known
         \/ \E S \in SUBSET Primaries(batch) : known' = Told(S)
<1>1. CASE \E S \in SUBSET Primaries(batch) : PostReport(S) \/ PostFails(S)
  BY <1>1 DEF PostReport, PostFails
<1> QED
  BY <1>1 DEF Next, Arrive, Poll, Store, SkipItem, StoreItem, StoreFails, LookupFails, NextItem,
     Report, BeginReport, EndReport, MarkProcessed, MarkFails, Crash, Start, vars, reportVars

\* One customer's text is never reported as part of another's, for any number of rows
\* that read as continuations of one another (reassemble_stored_messages).
THEOREM SendersStayApart == Spec => []TextsStayApart
<1>1. Init => HeldInv /\ TextsStayApart
  BY HeldAtFirst DEF Init, TextsStayApart
<1>2. HeldInv /\ TextsStayApart /\ [Next]_vars => (HeldInv /\ TextsStayApart)'
  <2> SUFFICES ASSUME HeldInv, TextsStayApart, [Next]_vars PROVE HeldInv' /\ TextsStayApart'
    OBVIOUS
  <2>1. HeldInv'
    BY HeldPreserved
  <2>2. ASSUME NEW j \in Row, NEW i \in known'[j] PROVE SenderOf(i)' = SenderOf(j)'
    <3>1. /\ RowsSound /\ batch \subseteq DOMAIN rows /\ known \in [Row -> SUBSET (DOMAIN rows)]
          /\ \A k \in Row : known[k] # {} => k \in DOMAIN rows
      BY DEF HeldInv, Reporting, KnownRows, Settled
    <3>2. CASE i \in known[j]
      BY <3>1, <3>2, SendersStay DEF TextsStayApart, SenderOf
    <3>3. CASE i \notin known[j]
      <4>1. PICK S \in SUBSET Primaries(batch) : known' = Told(S)
        BY <2>2, <3>3, KnownGrows
      <4>2. j \in S /\ i \in Absorbed(batch, j)
        BY <2>2, <3>3, <4>1 DEF Told
      <4>3. i \in DOMAIN rows /\ j \in DOMAIN rows
        BY <3>1, <4>2 DEF Absorbed, Primaries
      <4>4. SenderOf(i) = SenderOf(j)
        BY <3>1, <4>2, AbsorbedAreOneSenders
      <4> QED
        BY <4>3, <4>4, SendersStay DEF SenderOf
    <3> QED
      BY <3>2, <3>3
  <2> QED
    BY <2>1, <2>2 DEF TextsStayApart
<1> QED
  BY <1>1, <1>2, PTL DEF Spec

-----------------------------------------------------------------------------
(* Polling: the listing is added to the buffers message by message.        *)

\* A listing s, added to base.
Added(base, s) == FoldLeft(AddMessage, base, s)

\* The equation of FoldLeft over the first k segments of a listing.
Folding(g, base, s, k) ==
  g = [S \in SUBSET (1..k) |->
         IF S = {} THEN base ELSE AddMessage(g[S \ {Max(S)}], s[Max(S)])]

LEMMA FoldExpands ==
  ASSUME NEW base, NEW s, NEW k \in Nat, DOMAIN s = 1..k
  PROVE  Added(base, s) = (CHOOSE g : Folding(g, base, s, k))[1..k]
BY DEF Added, FoldLeft, MapThenFoldSet, Folding

LEMMA GreatestIsLast ==
  ASSUME NEW k \in Nat, NEW S \in SUBSET (1..k), k \in S
  PROVE  Max(S) = k
<1>1. \A x \in S : k >= x
  OBVIOUS
<1>2. \A x \in S : (\A y \in S : x >= y) => x = k
  OBVIOUS
<1> QED
  BY <1>1, <1>2 DEF Max

LEMMA FoldContinues ==
  ASSUME NEW base, NEW s, NEW k \in Nat, NEW g, Folding(g, base, s, k)
  PROVE  \E h : Folding(h, base, s, k + 1)
<1> DEFINE h == [S \in SUBSET (1..(k + 1)) |->
                  IF k + 1 \in S THEN AddMessage(g[S \ {k + 1}], s[k + 1]) ELSE g[S]]
           body(S) == IF S = {} THEN base ELSE AddMessage(h[S \ {Max(S)}], s[Max(S)])
<1>1. \A S \in SUBSET (1..k) : S \in SUBSET (1..(k + 1)) /\ k + 1 \notin S
  OBVIOUS
<1>2. \A S \in SUBSET (1..k) : h[S] = g[S]
  BY <1>1
<1>3. \A S \in SUBSET (1..(k + 1)) : h[S] = body(S)
  <2> TAKE S \in SUBSET (1..(k + 1))
  <2>1. CASE k + 1 \in S
    <3>1. Max(S) = k + 1 /\ S # {}
      BY <2>1, GreatestIsLast
    <3>2. S \ {k + 1} \in SUBSET (1..k)
      OBVIOUS
    <3>3. h[S] = AddMessage(g[S \ {k + 1}], s[k + 1])
      BY <2>1
    <3>4. h[S \ {k + 1}] = g[S \ {k + 1}]
      BY <1>2, <3>2
    <3> HIDE DEF h
    <3> QED
      BY <3>1, <3>3, <3>4
  <2>2. CASE k + 1 \notin S
    <3>1. S \in SUBSET (1..k) /\ S \ {Max(S)} \in SUBSET (1..k)
      <4>1. \A x \in S : x \in 1..(k + 1) /\ x # k + 1
        BY <2>2
      <4>2. \A x \in S : x \in 1..k
        BY <4>1
      <4> QED
        BY <4>2
    <3>2. g[S] = IF S = {} THEN base ELSE AddMessage(g[S \ {Max(S)}], s[Max(S)])
      BY <3>1 DEF Folding
    <3> HIDE DEF h
    <3> QED
      BY <1>2, <3>1, <3>2
  <2> QED
    BY <2>1, <2>2
<1>4. h = [S \in SUBSET (1..(k + 1)) |-> h[S]]
  OBVIOUS
<1> HIDE DEF h
<1>5. h = [S \in SUBSET (1..(k + 1)) |-> body(S)]
  BY <1>3, <1>4
<1> QED
  BY <1>5 DEF Folding

LEMMA FoldExists ==
  ASSUME NEW base, NEW s, NEW n \in Nat
  PROVE  \E g : Folding(g, base, s, n)
<1> DEFINE Bad == {k \in Nat : ~\E g : Folding(g, base, s, k)}
<1>1. SUFFICES ASSUME Bad # {} PROVE FALSE
  OBVIOUS
<1>2. PICK m \in Bad : \A k \in Bad : m <= k
  BY <1>1, LeastOf
<1>3. m # 0
  <2> DEFINE g == [S \in SUBSET (1..0) |-> base]
  <2>1. SUBSET (1..0) = {{}}
    OBVIOUS
  <2>2. Folding(g, base, s, 0)
    BY <2>1 DEF Folding
  <2> QED
    BY <1>2, <2>2
<1>4. m - 1 \in Nat /\ m - 1 \notin Bad
  BY <1>2, <1>3
<1>5. PICK g : Folding(g, base, s, m - 1)
  BY <1>4
<1>6. \E h : Folding(h, base, s, (m - 1) + 1)
  BY <1>4, <1>5, FoldContinues
<1> QED
  BY <1>2, <1>6

Trace(acc, base, s, n) ==
  /\ acc[0] = base
  /\ \A i \in 1..n : acc[i] = AddMessage(acc[i - 1], s[i])
  /\ Added(base, s) = acc[n]

LEMMA FoldTrace ==
  ASSUME NEW base, NEW s, NEW n \in Nat, DOMAIN s = 1..n
  PROVE  \E acc : Trace(acc, base, s, n)
<1>1. PICK g : g = (CHOOSE f : Folding(f, base, s, n))
  OBVIOUS
<1>2. Folding(g, base, s, n)
  BY <1>1, FoldExists
<1>3. \A S \in SUBSET (1..n) :
        g[S] = IF S = {} THEN base ELSE AddMessage(g[S \ {Max(S)}], s[Max(S)])
  BY <1>2 DEF Folding
<1> DEFINE acc == [i \in 0..n |-> g[1..i]]
<1>4. \A i \in 0..n : acc[i] = g[1..i]
  OBVIOUS
<1>5. acc[0] = base
  <2>1. 1..0 = {} /\ {} \in SUBSET (1..n) /\ 0 \in 0..n
    OBVIOUS
  <2> QED
    BY <1>3, <1>4, <2>1
<1>6. ASSUME NEW i \in 1..n PROVE acc[i] = AddMessage(acc[i - 1], s[i])
  <2>1. Max(1..i) = i
    BY GreatestIsLast
  <2>2. (1..i) \ {i} = 1..(i - 1)
    OBVIOUS
  <2>3. 1..i # {} /\ 1..i \in SUBSET (1..n)
    <3>1. \A x \in 1..i : x \in 1..n
      OBVIOUS
    <3> QED
      BY <3>1
  <2>4. g[1..i] = AddMessage(g[(1..i) \ {Max(1..i)}], s[Max(1..i)])
    BY <1>3, <2>3
  <2>5. acc[i] = g[1..i] /\ acc[i - 1] = g[1..(i - 1)]
    BY <1>4
  <2> HIDE DEF acc
  <2> QED
    BY <2>1, <2>2, <2>4, <2>5
<1>7. Added(base, s) = acc[n]
  BY <1>1, <1>4, FoldExpands
<1> HIDE DEF acc
<1> QED
  BY <1>5, <1>6, <1>7 DEF Trace

\* What holds of the buffers before the listing, and is kept by each of its segments,
\* holds after it.
LEMMA FoldKeeps ==
  ASSUME NEW base, NEW s, NEW n \in Nat, DOMAIN s = 1..n,
         NEW Good, <<0, base>> \in Good,
         \A i \in 1..n : \A a : <<i - 1, a>> \in Good => <<i, AddMessage(a, s[i])>> \in Good
  PROVE  <<n, Added(base, s)>> \in Good
<1>0. PICK acc : Trace(acc, base, s, n)
  BY FoldTrace
<1>1. /\ acc[0] = base
      /\ \A i \in 1..n : acc[i] = AddMessage(acc[i - 1], s[i])
      /\ Added(base, s) = acc[n]
  BY <1>0 DEF Trace
<1> DEFINE Bad == {i \in 0..n : <<i, acc[i]>> \notin Good}
<1>2. SUFFICES ASSUME Bad # {} PROVE FALSE
  BY <1>1
<1>3. Bad \in SUBSET Nat
  OBVIOUS
<1>4. PICK m \in Bad : \A k \in Bad : m <= k
  BY <1>2, <1>3, LeastOf
<1>5. m # 0
  BY <1>1, <1>4
<1>6. m \in 1..n /\ m - 1 \in 0..n /\ m - 1 \notin Bad
  BY <1>4, <1>5
<1>7. <<m - 1, acc[m - 1]>> \in Good
  BY <1>6
<1>8. <<m, AddMessage(acc[m - 1], s[m])>> \in Good
  BY <1>6, <1>7
<1>9. <<m, acc[m]>> \in Good
  BY <1>1, <1>6, <1>8
<1> QED
  BY <1>4, <1>9

Buffer == [first : Segment \cup {<<>>}, parts : SUBSET Segment, fresh : BOOLEAN]

\* The buffers that hold something.
Open(bs) == {k \in Keys : bs[k].parts # {}}

\* Only some buffers are open, and each has the segment that opened it.
BuffersTyped(bs) ==
  /\ bs \in [Keys -> Buffer]
  /\ IsFiniteSet(Open(bs))
  /\ \A k \in Open(bs) : bs[k].first \in Segment

\* What a listing is added to, segment by segment.
Typed == {acc \in [buffers : [Keys -> Buffer], ready : Seq(Incoming)] : BuffersTyped(acc.buffers)}

LEMMA SegmentIs ==
  ASSUME NEW x \in Segment
  PROVE  /\ x[1] \in Sms /\ x[2] \in 1..Size[x[1]] /\ x = <<x[1], x[2]>>
         /\ Size[x[1]] \in Nat \ {0} /\ Key(x) \in Keys
<1>1. PICK s \in Sms : x \in {s} \X (1..Size[s])
  BY DEF Segment
<1>2. Key(x) \in Keys
  BY DEF Keys
<1> QED
  BY <1>1, <1>2, InboxAssumption

\* A segment is ready itself, or joins the buffer of its key, or fills it.
Joined(b, x) == {y \in b.parts : y[2] # x[2]} \cup {x}
FirstOf(b, x) == IF b.parts = {} THEN x ELSE b.first

Alone(acc, x, after) ==
  /\ Size[x[1]] = 1
  /\ after.buffers = acc.buffers
  /\ after.ready = Append(acc.ready, [id |-> x, parts |-> {x}])

Fills(acc, x, after) ==
  LET b == acc.buffers[Key(x)]
      total == Size[x[1]]
  IN /\ total > 1 /\ Cardinality(Joined(b, x)) >= total
     /\ after.buffers = [acc.buffers EXCEPT ![Key(x)] = Empty]
     /\ after.ready = Append(acc.ready, [id    |-> FirstOf(b, x),
                                         parts |-> {y \in Joined(b, x) : y[2] <= total}])

Joins(acc, x, after) ==
  LET b == acc.buffers[Key(x)]
  IN /\ Size[x[1]] > 1 /\ ~(Cardinality(Joined(b, x)) >= Size[x[1]])
     /\ after.ready = acc.ready
     /\ after.buffers = [acc.buffers EXCEPT ![Key(x)] =
                           [first |-> FirstOf(b, x), parts |-> Joined(b, x),
                            fresh |-> b.fresh \/ b.parts = {}]]

LEMMA AddMessageCases ==
  ASSUME NEW acc \in Typed, NEW x \in Segment
  PROVE  LET after == AddMessage(acc, x)
         IN /\ after = [buffers |-> after.buffers, ready |-> after.ready]
            /\ Alone(acc, x, after) \/ Fills(acc, x, after) \/ Joins(acc, x, after)
<1> DEFINE b == acc.buffers[Key(x)]
           total == Size[x[1]]
           after == AddMessage(acc, x)
<1>1. total \in Nat \ {0} /\ acc = [buffers |-> acc.buffers, ready |-> acc.ready]
  BY SegmentIs DEF Typed
<1>2. CASE total = 1
  <2>1. after = [acc EXCEPT !.ready = Append(@, [id |-> x, parts |-> {x}])]
    BY <1>2 DEF AddMessage
  <2>2. after = [buffers |-> acc.buffers, ready |-> Append(acc.ready, [id |-> x, parts |-> {x}])]
    BY <1>1, <2>1
  <2> QED
    BY <1>2, <2>2 DEF Alone
<1>3. CASE total > 1 /\ Cardinality(Joined(b, x)) >= total
  <2>1. after = [buffers |-> [acc.buffers EXCEPT ![Key(x)] = Empty],
                 ready   |-> Append(acc.ready, [id |-> FirstOf(b, x),
                                                parts |-> {y \in Joined(b, x) : y[2] <= total}])]
    BY <1>3 DEF AddMessage, Joined, FirstOf
  <2> QED
    BY <1>3, <2>1 DEF Fills
<1>4. CASE total > 1 /\ ~(Cardinality(Joined(b, x)) >= total)
  <2>1. after = [acc EXCEPT !.buffers[Key(x)] =
                   [first |-> FirstOf(b, x), parts |-> Joined(b, x), fresh |-> b.fresh \/ b.parts = {}]]
    BY <1>4 DEF AddMessage, Joined, FirstOf
  <2>2. after = [buffers |-> [acc.buffers EXCEPT ![Key(x)] =
                                [first |-> FirstOf(b, x), parts |-> Joined(b, x),
                                 fresh |-> b.fresh \/ b.parts = {}]],
                 ready |-> acc.ready]
    BY <1>1, <2>1
  <2> QED
    BY <1>4, <2>2 DEF Joins
<1>5. total = 1 \/ total > 1
  BY <1>1
<1> QED
  BY <1>2, <1>3, <1>4, <1>5

LEMMA AddMessageTyped ==
  ASSUME NEW acc \in Typed, NEW x \in Segment
  PROVE  AddMessage(acc, x) \in Typed
<1> DEFINE after == AddMessage(acc, x)
           b == acc.buffers[Key(x)]
<1>1. /\ after = [buffers |-> after.buffers, ready |-> after.ready]
      /\ Alone(acc, x, after) \/ Fills(acc, x, after) \/ Joins(acc, x, after)
  BY AddMessageCases
<1>2. /\ Key(x) \in Keys /\ x[2] \in 1..Size[x[1]] /\ Size[x[1]] \in Nat
      /\ acc.ready \in Seq(Incoming) /\ acc.buffers \in [Keys -> Buffer] /\ BuffersTyped(acc.buffers)
  BY SegmentIs DEF Typed
<1>3. b.parts \subseteq Segment /\ b.fresh \in BOOLEAN /\ (b.parts # {} => b.first \in Segment)
  BY <1>2 DEF BuffersTyped, Buffer, Open
<1>4. Joined(b, x) \subseteq Segment /\ x \in Joined(b, x) /\ FirstOf(b, x) \in Segment
  BY <1>3 DEF Joined, FirstOf
<1> SUFFICES after \in Typed
  OBVIOUS
<1> HIDE DEF after, b
<1>5. CASE Alone(acc, x, after)
  <2>1. [id |-> x, parts |-> {x}] \in Incoming
    BY DEF Incoming
  <2>2. after.ready \in Seq(Incoming)
    BY <1>2, <1>5, <2>1, AppendProperties DEF Alone
  <2> QED
    BY <1>1, <1>2, <1>5, <2>2 DEF Alone, Typed
<1>6. CASE Fills(acc, x, after)
  <2> DEFINE item == [id    |-> FirstOf(b, x),
                      parts |-> {y \in Joined(b, x) : y[2] <= Size[x[1]]}]
  <2>1. item \in Incoming
    BY <1>2, <1>4 DEF Incoming
  <2>2. after.ready = Append(acc.ready, item) /\ after.buffers = [acc.buffers EXCEPT ![Key(x)] = Empty]
    BY <1>6 DEF Fills, b
  <2> HIDE DEF item
  <2>3. after.ready \in Seq(Incoming)
    BY <1>2, <2>1, <2>2, AppendProperties
  <2>4. Empty \in Buffer /\ Empty.parts = {}
    BY DEF Empty, Buffer
  <2>5. after.buffers \in [Keys -> Buffer]
    BY <1>2, <2>2, <2>4
  <2>6. Open(after.buffers) = Open(acc.buffers) \ {Key(x)}
    BY <1>2, <2>2, <2>4 DEF Open
  <2>7. IsFiniteSet(Open(after.buffers))
    BY <1>2, <2>6, FS_RemoveElement DEF BuffersTyped
  <2>8. BuffersTyped(after.buffers)
    BY <1>2, <2>2, <2>5, <2>6, <2>7 DEF BuffersTyped
  <2> QED
    BY <1>1, <2>3, <2>5, <2>8 DEF Typed
<1>7. CASE Joins(acc, x, after)
  <2> DEFINE c == [first |-> FirstOf(b, x), parts |-> Joined(b, x), fresh |-> b.fresh \/ b.parts = {}]
  <2>1. c \in Buffer /\ c.parts # {} /\ c.first \in Segment
    BY <1>3, <1>4 DEF Buffer
  <2>2. after.ready = acc.ready /\ after.buffers = [acc.buffers EXCEPT ![Key(x)] = c]
    BY <1>7 DEF Joins, b
  <2> HIDE DEF c
  <2>5. after.buffers \in [Keys -> Buffer]
    BY <1>2, <2>1, <2>2
  <2>6. Open(after.buffers) = Open(acc.buffers) \cup {Key(x)}
    BY <1>2, <2>1, <2>2 DEF Open
  <2>7. IsFiniteSet(Open(after.buffers))
    BY <1>2, <2>6, FS_AddElement DEF BuffersTyped
  <2>8. BuffersTyped(after.buffers)
    BY <1>2, <2>1, <2>2, <2>5, <2>6, <2>7 DEF BuffersTyped
  <2> QED
    BY <1>1, <1>2, <2>2, <2>5, <2>8 DEF Typed
<1> QED
  BY <1>1, <1>5, <1>6, <1>7

LEMMA ListingIs ==
  ASSUME NEW s \in Seq(Segment)
  PROVE  Len(s) \in Nat /\ DOMAIN s = 1..Len(s) /\ \A i \in 1..Len(s) : s[i] \in Segment
BY LenProperties

LEMMA AddedTyped ==
  ASSUME NEW base \in Typed, NEW s \in Seq(Segment)
  PROVE  Added(base, s) \in Typed
<1> DEFINE Good == Nat \X Typed
<1>1. PICK n \in Nat : n = Len(s) /\ DOMAIN s = 1..n /\ \A i \in 1..n : s[i] \in Segment
  BY ListingIs
<1>2. \A i \in 1..n : \A a : <<i - 1, a>> \in Good => <<i, AddMessage(a, s[i])>> \in Good
  BY <1>1, AddMessageTyped
<1>3. <<0, base>> \in Good
  OBVIOUS
<1> HIDE DEF Good
<1>4. <<n, Added(base, s)>> \in Good
  BY <1>1, <1>2, <1>3, FoldKeeps, Z3T(60)
<1> QED
  BY <1>4 DEF Good

\* Every order of a finite set has each of its elements once.
LEMMA OrderOfSet ==
  ASSUME NEW S, IsFiniteSet(S), NEW late \in SetToSeqs(S)
  PROVE  /\ late \in Seq(S)
         /\ \A i, j \in DOMAIN late : i # j => late[i] # late[j]
         /\ \A x \in S : \E j \in DOMAIN late : late[j] = x
<1>1. PICK n \in Nat : n = Cardinality(S)
  BY FS_CardinalityType
<1>2. late \in [1..n -> S] /\ \A i, j \in 1..n : i # j => late[i] # late[j]
  BY <1>1 DEF SetToSeqs
<1>3. late \in Injection(1..n, S)
  BY <1>2 DEF Injection, IsInjective
<1>4. Cardinality(1..n) = n
  BY FS_Interval
<1>5. late \in Surjection(1..n, S)
  BY <1>1, <1>3, <1>4, FS_Injection
<1>6. \A x \in S : \E j \in 1..n : late[j] = x
  BY <1>5 DEF Surjection
<1> QED
  BY <1>2, <1>6

\* The buffers a poll begins with; nothing is ready then.
Begun == [buffers |-> Aged, ready |-> <<>>]

LEMMA BegunTyped ==
  ASSUME BuffersTyped(buffers)
  PROVE  /\ Begun \in Typed /\ Begun.buffers \in [Keys -> Buffer] /\ Begun.ready = <<>>
         /\ \A k \in Keys : Begun.buffers[k].parts = buffers[k].parts
                            /\ Begun.buffers[k].first = buffers[k].first
<1>1. /\ buffers \in [Keys -> Buffer] /\ IsFiniteSet(Open(buffers))
      /\ \A k \in Open(buffers) : buffers[k].first \in Segment
  BY DEF BuffersTyped
<1>2. \A b \in Buffer : /\ [b EXCEPT !.fresh = FALSE] \in Buffer
                        /\ [b EXCEPT !.fresh = FALSE].parts = b.parts
                        /\ [b EXCEPT !.fresh = FALSE].first = b.first
  BY DEF Buffer
<1>3. /\ Aged \in [Keys -> Buffer]
      /\ \A k \in Keys : Aged[k].parts = buffers[k].parts /\ Aged[k].first = buffers[k].first
  BY <1>1, <1>2 DEF Aged
<1>4. Open(Aged) = Open(buffers)
  BY <1>3 DEF Open
<1>5. BuffersTyped(Aged)
  BY <1>1, <1>3, <1>4 DEF BuffersTyped, Open
<1>6. <<>> \in Seq(Incoming)
  BY EmptySeq
<1> QED
  BY <1>3, <1>5, <1>6 DEF Begun, Typed

\* What times out is released in some order.
LEMMA LateAre ==
  ASSUME NEW acc \in Typed, NEW expired \in SUBSET Open(acc.buffers),
         NEW late \in SetToSeqs(Released(acc.buffers, expired))
  PROVE  /\ late \in Seq(Incoming)
         /\ \A i, j \in DOMAIN late : i # j => late[i] # late[j]
         /\ \A j \in DOMAIN late : \E k \in expired :
              late[j].id = acc.buffers[k].first /\ late[j].parts = acc.buffers[k].parts
         /\ \A k \in expired : \E j \in DOMAIN late : late[j].parts = acc.buffers[k].parts
<1> DEFINE S == Released(acc.buffers, expired)
           item(k) == [id |-> acc.buffers[k].first, parts |-> acc.buffers[k].parts]
<1>1. /\ acc.buffers \in [Keys -> Buffer] /\ IsFiniteSet(Open(acc.buffers))
      /\ \A k \in Open(acc.buffers) : acc.buffers[k].first \in Segment
  BY DEF Typed, BuffersTyped
<1>2. IsFiniteSet(expired) /\ \A k \in expired : k \in Keys /\ acc.buffers[k].parts # {}
  BY <1>1, FS_Subset DEF Open
<1>3. S = {item(k) : k \in expired}
  BY DEF Released
<1>4. IsFiniteSet(S)
  <2> DEFINE f == [k \in expired |-> item(k)]
  <2>1. f \in Surjection(expired, S)
    BY <1>3 DEF Surjection
  <2> HIDE DEF f, S
  <2> QED
    BY <1>2, <2>1, FS_Surjection
<1>5. S \subseteq Incoming
  <2>1. \A k \in expired : item(k) \in Incoming
    BY <1>1, <1>2 DEF Incoming, Buffer
  <2> QED
    BY <1>3, <2>1
<1>6. /\ late \in Seq(S)
      /\ \A i, j \in DOMAIN late : i # j => late[i] # late[j]
      /\ \A x \in S : \E j \in DOMAIN late : late[j] = x
  BY <1>4, OrderOfSet
<1>7. late \in Seq(Incoming) /\ \A j \in DOMAIN late : late[j] \in S
  <2> HIDE DEF S
  <2> QED
    BY <1>5, <1>6
<1>8. \A j \in DOMAIN late : \E k \in expired :
        late[j].id = acc.buffers[k].first /\ late[j].parts = acc.buffers[k].parts
  BY <1>3, <1>7
<1>9. \A k \in expired : \E j \in DOMAIN late : late[j].parts = acc.buffers[k].parts
  <2> TAKE k \in expired
  <2>1. item(k) \in S /\ item(k).parts = acc.buffers[k].parts
    BY <1>3
  <2> HIDE DEF S, item
  <2> QED
    BY <1>6, <2>1
<1> QED
  BY <1>6, <1>7, <1>8, <1>9

\* A poll, step by step: what it adds, what times out, what is ready then.
LEMMA PollSteps ==
  ASSUME BuffersTyped(buffers), held \in Seq(Segment), Poll
  PROVE  \E acc \in Typed : \E expired \in SUBSET Open(acc.buffers) :
           \E late \in SetToSeqs(Released(acc.buffers, expired)) :
             /\ acc = Added(Begun, held)
             /\ ready' = acc.ready \o late
             /\ buffers' = [k \in Keys |-> IF k \in expired THEN Empty ELSE acc.buffers[k]]
<1>1. PICK acc : acc = Added(Begun, held)
  OBVIOUS
<1>2. acc \in Typed
  BY <1>1, BegunTyped, AddedTyped
<1>3. acc = FoldLeft(AddMessage, [buffers |-> Aged, ready |-> <<>>], held)
  BY <1>1 DEF Added, Begun
<1>4. PICK expired \in SUBSET {k \in Keys : acc.buffers[k].parts # {} /\ ~acc.buffers[k].fresh} :
        /\ \E late \in SetToSeqs(Released(acc.buffers, expired)) : ready' = acc.ready \o late
        /\ buffers' = [k \in Keys |-> IF k \in expired THEN Empty ELSE acc.buffers[k]]
  BY <1>3 DEF Poll
<1>5. expired \in SUBSET Open(acc.buffers)
  BY <1>4 DEF Open
<1> QED
  BY <1>1, <1>2, <1>4, <1>5

-----------------------------------------------------------------------------
(* Types and bounds.                                                       *)

\* What the provider and the reassembler hold; while messages are stored some are left.
PollTyped ==
  /\ drains \in BOOLEAN /\ sent \subseteq Segment /\ held \in Seq(Segment)
  /\ BuffersTyped(buffers) /\ ready \in Seq(Incoming)
  /\ pc = "storing" <=> ready # <<>>

\* What is in a row, and the rest.
RowsTyped ==
  /\ \A i \in DOMAIN rows : /\ rows[i].id \in Segment
                            /\ rows[i].parts \in (SUBSET Segment) \ {{}}
                            /\ rows[i].status \in {"received", "processed"}
  /\ pc \in {"off", "idle", "storing", "posting", "marking"}
  /\ unheeded \in BOOLEAN /\ faults \in 0..MaxFault

LEMMA EmptyBuffers ==
  BuffersTyped([k \in Keys |-> Empty]) /\ \A k \in Keys : [l \in Keys |-> Empty][k].parts = {}
<1>1. Empty \in Buffer /\ Empty.parts = {}
  BY DEF Empty, Buffer
<1>2. Open([k \in Keys |-> Empty]) = {}
  BY <1>1 DEF Open
<1> QED
  BY <1>1, <1>2, FS_EmptySet DEF BuffersTyped

LEMMA NextPollTyped == PollTyped /\ [Next]_vars => PollTyped'
<1> SUFFICES ASSUME PollTyped, [Next]_vars PROVE PollTyped'
  OBVIOUS
<1> USE DEF providerVars, pollVars, reportVars
<1>1. CASE /\ UNCHANGED <<drains, sent, held, buffers, ready>>
           /\ pc' = pc \/ (pc # "storing" /\ pc' # "storing")
  BY <1>1 DEF PollTyped
<1>2. CASE \E x \in Segment : Arrive(x)
  <2>1. PICK x \in Segment : Arrive(x)
    BY <1>2
  <2>2. held' \in Seq(Segment)
    BY <2>1, AppendProperties DEF Arrive, PollTyped
  <2> QED
    BY <2>1, <2>2 DEF Arrive, PollTyped
<1>3. CASE Poll
  <2>0. PICK acc \in Typed : \E expired \in SUBSET Open(acc.buffers) :
          \E late \in SetToSeqs(Released(acc.buffers, expired)) :
            /\ ready' = acc.ready \o late
            /\ buffers' = [k \in Keys |-> IF k \in expired THEN Empty ELSE acc.buffers[k]]
    BY <1>3, PollSteps DEF PollTyped
  <2>1. PICK expired \in SUBSET Open(acc.buffers) :
          \E late \in SetToSeqs(Released(acc.buffers, expired)) :
            /\ ready' = acc.ready \o late
            /\ buffers' = [k \in Keys |-> IF k \in expired THEN Empty ELSE acc.buffers[k]]
    BY <2>0
  <2>2. ready' \in Seq(Incoming)
    <3>1. PICK late \in SetToSeqs(Released(acc.buffers, expired)) : ready' = acc.ready \o late
      BY <2>1
    <3> QED
      BY <3>1, LateAre, ConcatProperties DEF Typed
  <2>3. BuffersTyped(buffers')
    <3>1. Empty \in Buffer /\ Empty.parts = {}
      BY DEF Empty, Buffer
    <3>2. acc.buffers \in [Keys -> Buffer] /\ BuffersTyped(acc.buffers)
      BY DEF Typed
    <3>3. buffers' \in [Keys -> Buffer]
      BY <2>1, <3>1, <3>2
    <3>4. \A k \in Keys : buffers'[k] = IF k \in expired THEN Empty ELSE acc.buffers[k]
      BY <2>1
    <3>5. Open(buffers') = Open(acc.buffers) \ expired
      BY <3>1, <3>4 DEF Open
    <3>6. IsFiniteSet(Open(buffers'))
      BY <3>2, <3>5, FS_Subset DEF BuffersTyped
    <3>7. \A k \in Open(buffers') : buffers'[k].first \in Segment
      <4> TAKE k \in Open(buffers')
      <4>1. k \in Open(acc.buffers) /\ k \notin expired /\ k \in Keys
        BY <3>5 DEF Open
      <4> QED
        BY <3>2, <3>4, <4>1 DEF BuffersTyped
    <3> QED
      BY <3>3, <3>6, <3>7 DEF BuffersTyped
  <2>4. held' \in Seq(Segment) /\ (pc' = "storing" <=> ready' # <<>>) /\ UNCHANGED <<drains, sent>>
    BY <1>3, EmptySeq DEF Poll, PollTyped
  <2> QED
    BY <2>2, <2>3, <2>4 DEF PollTyped
<1>4. CASE NextItem /\ pc = "storing"
  <2>1. ready' \in Seq(Incoming)
    BY <1>4, HeadTailProperties DEF NextItem, PollTyped
  <2> QED
    BY <1>4, <2>1 DEF NextItem, PollTyped
<1>5. CASE LookupFails
  BY <1>5, EmptySeq DEF LookupFails, PollTyped
<1>6. CASE Crash
  BY <1>6, EmptySeq, EmptyBuffers DEF Crash, PollTyped
<1>7. CASE Report
  BY <1>1, <1>7 DEF Report, BeginReport, PostReport, PostFails, MarkProcessed, EndReport, MarkFails
<1> QED
  BY <1>1, <1>2, <1>3, <1>4, <1>5, <1>6, <1>7
     DEF Next, Store, SkipItem, StoreItem, StoreFails, Start, vars

LEMMA NextRowsTyped == HeldInv /\ PollTyped /\ RowsTyped /\ [Next]_vars => RowsTyped'
<1> SUFFICES ASSUME HeldInv, PollTyped, RowsTyped, [Next]_vars PROVE RowsTyped'
  OBVIOUS
<1> USE DEF providerVars, pollVars, reportVars
<1>1. CASE UNCHANGED rows
  <2>1. faults' = faults \/ Fault
    BY <1>1 DEF Next, Arrive, Poll, Store, SkipItem, StoreItem, StoreFails, LookupFails, NextItem,
       Report, BeginReport, PostReport, PostFails, MarkProcessed, EndReport, MarkFails, Crash,
       Start, vars
  <2>2. faults' \in 0..MaxFault
    BY <2>1, InboxAssumption DEF Fault, RowsTyped
  <2>3. unheeded' \in BOOLEAN /\ pc' \in {"off", "idle", "storing", "posting", "marking"}
    BY DEF RowsTyped, Next, Arrive, Poll, Store, SkipItem, StoreItem, StoreFails, LookupFails,
       NextItem, Report, BeginReport, PostReport, PostFails, MarkProcessed, EndReport, MarkFails,
       Crash, Start, vars
  <2> QED
    BY <1>1, <2>2, <2>3 DEF RowsTyped
<1>2. CASE StoreItem
  <2>1. PICK item : item = Head(ready)
    OBVIOUS
  <2>2. item \in Incoming
    BY <1>2, <2>1, HeadTailProperties DEF StoreItem, PollTyped
  <2> DEFINE r == [id |-> item.id, parts |-> item.parts, status |-> "received"]
  <2>3. rows' = Append(rows, r) /\ UNCHANGED <<faults, unheeded>> /\ pc' \in {"idle", "storing"}
    BY <1>2, <2>1 DEF StoreItem, NextItem
  <2>4. r.id \in Segment /\ r.parts \in (SUBSET Segment) \ {{}} /\ r.status = "received"
    BY <2>2 DEF Incoming
  <2> HIDE DEF r
  <2>5. /\ DOMAIN rows = 1..Len(rows) /\ Len(rows) \in Nat
        /\ DOMAIN rows' = 1..(Len(rows) + 1)
        /\ \A i \in DOMAIN rows : rows'[i] = rows[i]
        /\ rows'[Len(rows) + 1] = r
    BY <2>3, RowAppended DEF HeldInv, RowsSound
  <2>6. \A i \in DOMAIN rows' : i \in DOMAIN rows \/ i = Len(rows) + 1
    BY <2>5
  <2> QED
    BY <2>3, <2>4, <2>5, <2>6 DEF RowsTyped
<1>3. CASE MarkProcessed
  <2>1. PICK i \in acked : rows' = [rows EXCEPT ![i].status = "processed"]
    BY <1>3 DEF MarkProcessed
  <2>2. i \in DOMAIN rows
    BY DEF HeldInv, Reporting, KnownRows
  <2>3. /\ DOMAIN rows' = DOMAIN rows /\ rows'[i].status = "processed"
        /\ \A j \in DOMAIN rows : /\ rows'[j].id = rows[j].id
                                  /\ rows'[j].parts = rows[j].parts
                                  /\ j # i => rows'[j].status = rows[j].status
    BY <2>1, <2>2, RowMarked DEF HeldInv
  <2> QED
    BY <1>3, <2>2, <2>3 DEF MarkProcessed, RowsTyped
<1> QED
  BY <1>1, <1>2, <1>3
     DEF Next, Arrive, Poll, Store, SkipItem, StoreFails, LookupFails, Report, BeginReport,
         PostReport, PostFails, EndReport, MarkFails, Crash, Start, vars

LEMMA TypedAtFirst == Init => PollTyped /\ RowsTyped
<1> SUFFICES ASSUME Init PROVE PollTyped /\ RowsTyped
  OBVIOUS
<1>1. DOMAIN rows = {} /\ pc = "off" /\ faults = 0
  BY DEF Init
<1>2. RowsTyped
  <2>1. faults \in 0..MaxFault
    BY <1>1, InboxAssumption
  <2>2. unheeded \in BOOLEAN
    BY Zenon DEF Init
  <2> QED
    BY <1>1, <2>1, <2>2 DEF RowsTyped
<1>3. held \in Seq(Segment) /\ ready \in Seq(Incoming) /\ BuffersTyped(buffers)
  BY EmptySeq, EmptyBuffers DEF Init
<1>4. drains \in BOOLEAN /\ sent = {} /\ ready = <<>>
  BY InboxAssumption DEF Init
<1> QED
  BY <1>1, <1>2, <1>3, <1>4 DEF PollTyped

StoredRow == [id : Segment, parts : (SUBSET Segment) \ {{}}, status : {"received", "processed"}]

LEMMA RowsAreStored == HeldInv /\ RowsTyped => rows \in Seq(StoredRow)
<1> SUFFICES ASSUME HeldInv, RowsTyped PROVE rows \in Seq(StoredRow)
  OBVIOUS
<1>1. DOMAIN rows = 1..Len(rows) /\ Len(rows) \in Nat
  BY RowsAreNumbered DEF HeldInv
<1>2. \A i \in DOMAIN rows : rows[i] \in StoredRow
  BY DEF HeldInv, RowsSound, RowsTyped, StoredRow
<1>3. rows = [i \in 1..Len(rows) |-> rows[i]]
  BY SequenceIsFunction DEF HeldInv, RowsSound
<1> QED
  BY <1>1, <1>2, <1>3

\* What is read from the provider, the buffers and the store is what was put there, and
\* every row a report is about is stored, for any listing and any number of rows
\* (reassembler.py, storage.py, sync.py).
THEOREM InboxIsTyped == Spec => []TypeOK
<1> DEFINE Inv == HeldInv /\ PollTyped /\ RowsTyped
<1>1. Init => Inv
  BY HeldAtFirst, TypedAtFirst
<1>2. Inv /\ [Next]_vars => Inv'
  BY HeldPreserved, NextPollTyped, NextRowsTyped
<1>3. Inv => TypeOK
  <2> SUFFICES ASSUME HeldInv, PollTyped, RowsTyped PROVE TypeOK
    OBVIOUS
  <2>1. DOMAIN rows = 1..Len(rows) /\ Len(rows) \in Nat /\ Len(rows) <= MaxRow
    BY RowsAreNumbered DEF HeldInv, RowsSound
  <2>2. rows \in Seq(StoredRow)
    BY RowsAreStored
  <2>3. buffers \in [Keys -> Buffer]
    BY DEF PollTyped, BuffersTyped
  <2>4. /\ batch \subseteq 1..Len(rows) /\ acked \subseteq batch
        /\ \A i \in acked : rows[i].status = "received"
        /\ known \in [Row -> SUBSET (1..Len(rows))]
    BY <2>1 DEF HeldInv, Reporting, KnownRows
  <2> QED
    BY <2>1, <2>2, <2>3, <2>4 DEF PollTyped, RowsTyped, TypeOK, Buffer, StoredRow
<1> QED
  BY <1>1, <1>2, <1>3, PTL DEF Spec

-----------------------------------------------------------------------------
(* The segments of messages.                                               *)

KeyOf(s) == <<Sender[s], Ref[s]>>
Whole(s) == {s} \X (1..Size[s])

\* The messages a customer writes in several segments carry different references.
\* Under equal ones the reassembler takes segments of one for those of another.
OneReference ==
  \A s, t \in Sms : Size[s] > 1 /\ Size[t] > 1 /\ KeyOf(s) = KeyOf(t) => s = t

\* The segments of a sequence of items, and of all buffers.
Within(items) == UNION {items[i].parts : i \in DOMAIN items}
Buffered(bs) == UNION {bs[k].parts : k \in Keys}

Disjoint(items) == \A i, j \in DOMAIN items : i # j => items[i].parts \cap items[j].parts = {}

\* An item is of one message, that of the segment it has its id from.
OfOne(items) ==
  \A i \in DOMAIN items :
    items[i].id \in items[i].parts /\ \A x \in items[i].parts : x[1] = items[i].id[1]

\* A buffer has segments of its key, and is named for one of them.
Sorted(bs) ==
  \A k \in Keys :
    /\ \A x \in bs[k].parts : x \in Segment /\ Key(x) = k /\ Size[x[1]] > 1
    /\ bs[k].parts # {} => bs[k].first \in bs[k].parts

\* An item more.
LEMMA ItemAppended ==
  ASSUME NEW U, NEW q \in Seq(U), NEW it \in U
  PROVE  /\ DOMAIN Append(q, it) = DOMAIN q \cup {Len(q) + 1} /\ Len(q) + 1 \notin DOMAIN q
         /\ \A i \in DOMAIN q : Append(q, it)[i] = q[i]
         /\ Append(q, it)[Len(q) + 1] = it
<1>1. /\ DOMAIN q = 1..Len(q) /\ Len(q) \in Nat
      /\ DOMAIN Append(q, it) = 1..(Len(q) + 1)
  BY AppendProperties, LenProperties
<1>2. 1..(Len(q) + 1) = (1..Len(q)) \cup {Len(q) + 1} /\ Len(q) + 1 \notin 1..Len(q)
  BY <1>1
<1>3. /\ \A i \in 1..Len(q) : Append(q, it)[i] = q[i]
      /\ Append(q, it)[Len(q) + 1] = it
  BY AppendProperties
<1> QED
  BY <1>1, <1>2, <1>3

LEMMA WithinAppended ==
  ASSUME NEW U, NEW q \in Seq(U), NEW it \in U
  PROVE  /\ Within(Append(q, it)) = Within(q) \cup it.parts
         /\ Disjoint(q) /\ Within(q) \cap it.parts = {} => Disjoint(Append(q, it))
         /\ OfOne(q) /\ it.id \in it.parts /\ (\A x \in it.parts : x[1] = it.id[1])
              => OfOne(Append(q, it))
<1> DEFINE n == Len(q) + 1
<1>1. PICK l : l = Append(q, it)
  OBVIOUS
<1>2. /\ DOMAIN l = DOMAIN q \cup {n} /\ n \notin DOMAIN q
      /\ (\A i \in DOMAIN q : l[i] = q[i]) /\ l[n] = it
  BY <1>1, ItemAppended
<1> HIDE DEF n
<1>3. Within(l) = Within(q) \cup it.parts
  BY <1>2 DEF Within
<1>4. Disjoint(q) /\ Within(q) \cap it.parts = {} => Disjoint(l)
  BY <1>2 DEF Within, Disjoint
<1>5. OfOne(q) /\ it.id \in it.parts /\ (\A x \in it.parts : x[1] = it.id[1]) => OfOne(l)
  BY <1>2 DEF OfOne
<1> QED
  BY <1>1, <1>3, <1>4, <1>5

\* Items of one sequence behind those of another.
LEMMA WithinJoined ==
  ASSUME NEW U, NEW q \in Seq(U), NEW r \in Seq(U)
  PROVE  /\ Within(q \o r) = Within(q) \cup Within(r)
         /\ Disjoint(q) /\ Disjoint(r) /\ Within(q) \cap Within(r) = {} => Disjoint(q \o r)
         /\ OfOne(q) /\ OfOne(r) => OfOne(q \o r)
<1>1. PICK l : l = q \o r
  OBVIOUS
<1>2. PICK m \in Nat, n \in Nat : m = Len(q) /\ n = Len(r)
  BY LenProperties
<1>3. /\ DOMAIN q = 1..m /\ DOMAIN r = 1..n /\ DOMAIN l = 1..(m + n)
      /\ \A i \in 1..(m + n) : l[i] = IF i <= m THEN q[i] ELSE r[i - m]
  BY <1>1, <1>2, ConcatProperties, LenProperties
<1>4. \A i \in DOMAIN l : \/ i \in DOMAIN q /\ l[i] = q[i]
                          \/ i \notin DOMAIN q /\ i - m \in DOMAIN r /\ l[i] = r[i - m]
  BY <1>3
<1>5. \A i \in DOMAIN q : i \in DOMAIN l /\ l[i] = q[i]
  BY <1>3
<1>6. \A i \in DOMAIN r : i + m \in DOMAIN l /\ l[i + m] = r[i]
  BY <1>3
<1>7. Within(l) = Within(q) \cup Within(r)
  BY <1>4, <1>5, <1>6 DEF Within
<1>8. ASSUME Disjoint(q), Disjoint(r), Within(q) \cap Within(r) = {} PROVE Disjoint(l)
  <2> SUFFICES ASSUME NEW i \in DOMAIN l, NEW j \in DOMAIN l, i # j
               PROVE  l[i].parts \cap l[j].parts = {}
    BY DEF Disjoint
  <2>1. CASE i \in DOMAIN q /\ j \in DOMAIN q
    BY <1>5, <1>8, <2>1 DEF Disjoint
  <2>2. CASE i \notin DOMAIN q /\ j \notin DOMAIN q
    <3>1. i - m \in DOMAIN r /\ j - m \in DOMAIN r /\ l[i] = r[i - m] /\ l[j] = r[j - m]
      BY <1>4, <2>2
    <3>2. i - m # j - m
      BY <1>3
    <3> QED
      BY <1>8, <3>1, <3>2 DEF Disjoint
  <2>3. CASE i \in DOMAIN q /\ j \notin DOMAIN q
    <3>1. l[i].parts \subseteq Within(q) /\ l[j].parts \subseteq Within(r)
      BY <1>4, <2>3 DEF Within
    <3> QED
      BY <1>8, <3>1
  <2>4. CASE i \notin DOMAIN q /\ j \in DOMAIN q
    <3>1. l[j].parts \subseteq Within(q) /\ l[i].parts \subseteq Within(r)
      BY <1>4, <2>4 DEF Within
    <3> QED
      BY <1>8, <3>1
  <2> QED
    BY <2>1, <2>2, <2>3, <2>4
<1>9. OfOne(q) /\ OfOne(r) => OfOne(l)
  BY <1>4 DEF OfOne
<1> QED
  BY <1>1, <1>7, <1>8, <1>9

\* The first item is taken away.
LEMMA WithinRest ==
  ASSUME NEW U, NEW q \in Seq(U), q # <<>>
  PROVE  /\ Within(q) = Head(q).parts \cup Within(Tail(q))
         /\ Disjoint(q) => Disjoint(Tail(q)) /\ Head(q).parts \cap Within(Tail(q)) = {}
         /\ OfOne(q) => /\ OfOne(Tail(q)) /\ Head(q).id \in Head(q).parts
                        /\ \A x \in Head(q).parts : x[1] = Head(q).id[1]
         /\ \A i \in DOMAIN Tail(q) : i + 1 \in DOMAIN q /\ Tail(q)[i] = q[i + 1]
         /\ 1 \in DOMAIN q /\ Head(q) = q[1]
<1>1. PICK r, h : r = Tail(q) /\ h = Head(q)
  OBVIOUS
<1>2. PICK n \in Nat : n = Len(q)
  BY LenProperties
<1>3. /\ DOMAIN q = 1..n /\ n # 0 /\ h = q[1] /\ DOMAIN r = 1..(n - 1)
      /\ \A i \in 1..(n - 1) : r[i] = q[i + 1]
  BY <1>1, <1>2, HeadTailProperties, LenProperties, EmptySeq
<1>4. \A i \in DOMAIN r : i + 1 \in DOMAIN q /\ r[i] = q[i + 1] /\ i + 1 # 1
  BY <1>3
<1>5. \A i \in DOMAIN q : \/ i = 1
                          \/ i - 1 \in DOMAIN r /\ r[i - 1] = q[i]
  BY <1>3
<1>6. 1 \in DOMAIN q /\ h = q[1]
  BY <1>3
<1>7. Within(q) = h.parts \cup Within(r)
  BY <1>4, <1>5, <1>6 DEF Within
<1>8. ASSUME Disjoint(q) PROVE Disjoint(r) /\ h.parts \cap Within(r) = {}
  <2>1. Disjoint(r)
    <3> SUFFICES ASSUME NEW i \in DOMAIN r, NEW j \in DOMAIN r, i # j
                 PROVE  r[i].parts \cap r[j].parts = {}
      BY DEF Disjoint
    <3>1. i + 1 # j + 1
      BY <1>3
    <3> QED
      BY <1>4, <1>8, <3>1 DEF Disjoint
  <2>2. \A i \in DOMAIN r : h.parts \cap r[i].parts = {}
    BY <1>4, <1>6, <1>8 DEF Disjoint
  <2> QED
    BY <2>1, <2>2 DEF Within
<1>9. OfOne(q) => OfOne(r) /\ h.id \in h.parts /\ \A x \in h.parts : x[1] = h.id[1]
  BY <1>4, <1>6 DEF OfOne
<1> QED
  BY <1>1, <1>4, <1>6, <1>7, <1>8, <1>9

LEMMA KeyIsOne ==
  ASSUME OneReference, NEW x \in Segment, NEW y \in Segment,
         Key(x) = Key(y), Size[x[1]] > 1, Size[y[1]] > 1
  PROVE  x[1] = y[1]
<1>1. x[1] \in Sms /\ y[1] \in Sms /\ KeyOf(x[1]) = KeyOf(y[1])
  BY SegmentIs DEF Key, KeyOf
<1> QED
  BY <1>1 DEF OneReference

\* What is in the buffer of a key is of the message that uses the key.
LEMMA BufferIsOne ==
  ASSUME OneReference, NEW bs, Sorted(bs), NEW x \in Segment, Size[x[1]] > 1
  PROVE  /\ Joined(bs[Key(x)], x) = bs[Key(x)].parts \cup {x}
         /\ {y \in Joined(bs[Key(x)], x) : y[2] <= Size[x[1]]} = bs[Key(x)].parts \cup {x}
         /\ \A y \in bs[Key(x)].parts : y[1] = x[1]
<1> DEFINE P == bs[Key(x)].parts
<1>1. /\ Key(x) \in Keys /\ x[1] \in Sms /\ x = <<x[1], x[2]>> /\ x[2] \in 1..Size[x[1]]
      /\ Size[x[1]] \in Nat
  BY SegmentIs
<1>2. ASSUME NEW y \in P PROVE y[1] = x[1] /\ y = <<y[1], y[2]>> /\ y[2] \in 1..Size[y[1]]
  <2>1. y \in Segment /\ Key(y) = Key(x) /\ Size[y[1]] > 1
    BY <1>1 DEF Sorted
  <2>2. y = <<y[1], y[2]>> /\ y[2] \in 1..Size[y[1]]
    BY <2>1, SegmentIs
  <2> QED
    BY <2>1, <2>2, KeyIsOne
<1>3. \A y \in P : y[2] = x[2] => y = x
  BY <1>1, <1>2
<1>4. Joined(bs[Key(x)], x) = P \cup {x}
  BY <1>3 DEF Joined
<1>5. \A y \in P \cup {x} : y[2] <= Size[x[1]]
  BY <1>1, <1>2
<1> QED
  BY <1>2, <1>4, <1>5

\* Then a segment is ready itself, or joins those there are of its message, which are
\* ready when they are as many as they should be.
JoinsBuffer(acc, x, after) ==
  LET b == acc.buffers[Key(x)]
      c == after.buffers[Key(x)]
  IN /\ after.ready = acc.ready /\ after.buffers = [acc.buffers EXCEPT ![Key(x)] = c]
     /\ c.parts = b.parts \cup {x} /\ c.first = FirstOf(b, x)
     /\ ~(Cardinality(c.parts) >= Size[x[1]])

FillsBuffer(acc, x, after) ==
  LET b == acc.buffers[Key(x)]
  IN /\ after.buffers = [acc.buffers EXCEPT ![Key(x)] = Empty]
     /\ after.ready = Append(acc.ready, [id |-> FirstOf(b, x), parts |-> b.parts \cup {x}])
     /\ Cardinality(b.parts \cup {x}) >= Size[x[1]]

LEMMA SortedCases ==
  ASSUME OneReference, NEW acc \in Typed, Sorted(acc.buffers), NEW x \in Segment
  PROVE  LET after == AddMessage(acc, x)
         IN \/ Alone(acc, x, after)
            \/ Size[x[1]] > 1 /\ FillsBuffer(acc, x, after)
            \/ Size[x[1]] > 1 /\ JoinsBuffer(acc, x, after)
<1> DEFINE b == acc.buffers[Key(x)]
<1>1. PICK after : after = AddMessage(acc, x)
  OBVIOUS
<1>2. Alone(acc, x, after) \/ Fills(acc, x, after) \/ Joins(acc, x, after)
  BY <1>1, AddMessageCases
<1>3. Key(x) \in Keys /\ acc.buffers \in [Keys -> Buffer]
  BY SegmentIs DEF Typed
<1>4. CASE Fills(acc, x, after)
  <2>1. Size[x[1]] > 1
    BY <1>4 DEF Fills
  <2>2. /\ Joined(b, x) = b.parts \cup {x}
        /\ {y \in Joined(b, x) : y[2] <= Size[x[1]]} = b.parts \cup {x}
    BY <2>1, BufferIsOne
  <2> QED
    BY <1>1, <1>4, <2>1, <2>2 DEF Fills, FillsBuffer
<1>5. CASE Joins(acc, x, after)
  <2> DEFINE c == [first |-> FirstOf(b, x), parts |-> Joined(b, x), fresh |-> b.fresh \/ b.parts = {}]
  <2>1. /\ Size[x[1]] > 1 /\ ~(Cardinality(Joined(b, x)) >= Size[x[1]])
        /\ after.ready = acc.ready /\ after.buffers = [acc.buffers EXCEPT ![Key(x)] = c]
    BY <1>5 DEF Joins
  <2>2. Joined(b, x) = b.parts \cup {x}
    BY <2>1, BufferIsOne
  <2>3. c.parts = b.parts \cup {x} /\ c.first = FirstOf(b, x)
    BY <2>2
  <2> HIDE DEF c
  <2>4. after.buffers[Key(x)] = c
    BY <1>3, <2>1
  <2> QED
    BY <1>1, <2>1, <2>2, <2>3, <2>4 DEF JoinsBuffer
<1> QED
  BY <1>1, <1>2, <1>4, <1>5

LEMMA AddMessageSorted ==
  ASSUME OneReference, NEW acc \in Typed, Sorted(acc.buffers), OfOne(acc.ready),
         NEW x \in Segment
  PROVE  Sorted(AddMessage(acc, x).buffers) /\ OfOne(AddMessage(acc, x).ready)
<1> DEFINE b == acc.buffers[Key(x)]
<1>1. PICK after : after = AddMessage(acc, x)
  OBVIOUS
<1>2. \/ Alone(acc, x, after)
      \/ Size[x[1]] > 1 /\ FillsBuffer(acc, x, after)
      \/ Size[x[1]] > 1 /\ JoinsBuffer(acc, x, after)
  BY <1>1, SortedCases
<1>3. /\ Key(x) \in Keys /\ acc.buffers \in [Keys -> Buffer] /\ acc.ready \in Seq(Incoming)
      /\ after.ready \in Seq(Incoming)
  BY <1>1, SegmentIs, AddMessageTyped DEF Typed
<1>4. CASE Alone(acc, x, after)
  <2> DEFINE it == [id |-> x, parts |-> {x}]
  <2>1. it \in Incoming
    BY DEF Incoming
  <2>2. OfOne(Append(acc.ready, it))
    BY <1>3, <2>1, WithinAppended
  <2> QED
    BY <1>1, <1>4, <2>2 DEF Alone
<1>5. CASE Size[x[1]] > 1 /\ (FillsBuffer(acc, x, after) \/ JoinsBuffer(acc, x, after))
  <2>1. /\ \A y \in b.parts : y[1] = x[1]
        /\ \A y \in b.parts : y \in Segment /\ Key(y) = Key(x) /\ Size[y[1]] > 1
        /\ b.parts # {} => b.first \in b.parts
    BY <1>3, <1>5, BufferIsOne DEF Sorted
  <2>2. FirstOf(b, x) \in b.parts \cup {x} /\ FirstOf(b, x)[1] = x[1]
    BY <2>1 DEF FirstOf
  <2>3. CASE FillsBuffer(acc, x, after)
    <3> DEFINE it == [id |-> FirstOf(b, x), parts |-> b.parts \cup {x}]
    <3>1. after.ready = Append(acc.ready, it) /\ after.buffers = [acc.buffers EXCEPT ![Key(x)] = Empty]
      BY <2>3 DEF FillsBuffer
    <3>2. it \in Incoming
      BY <2>1, <2>2 DEF Incoming
    <3>3. it.id \in it.parts /\ \A y \in it.parts : y[1] = it.id[1]
      BY <2>1, <2>2
    <3> HIDE DEF it
    <3>4. OfOne(after.ready)
      BY <1>3, <3>1, <3>2, <3>3, WithinAppended
    <3>5. Sorted(after.buffers)
      BY <1>3, <3>1 DEF Sorted, Empty
    <3> QED
      BY <1>1, <3>4, <3>5
  <2>4. CASE JoinsBuffer(acc, x, after)
    <3> DEFINE c == after.buffers[Key(x)]
    <3>1. /\ after.ready = acc.ready /\ after.buffers = [acc.buffers EXCEPT ![Key(x)] = c]
          /\ c.parts = b.parts \cup {x} /\ c.first = FirstOf(b, x)
      BY <2>4 DEF JoinsBuffer
    <3>2. \A k \in Keys : k # Key(x) => after.buffers[k] = acc.buffers[k]
      BY <1>3, <3>1
    <3> HIDE DEF c, b
    <3>3. Sorted(after.buffers)
      <4> SUFFICES ASSUME NEW k \in Keys
                   PROVE  /\ \A y \in after.buffers[k].parts :
                               y \in Segment /\ Key(y) = k /\ Size[y[1]] > 1
                          /\ after.buffers[k].parts # {} => after.buffers[k].first \in after.buffers[k].parts
        BY DEF Sorted
      <4>1. CASE k = Key(x)
        BY <1>5, <2>1, <2>2, <3>1, <4>1 DEF c
      <4>2. CASE k # Key(x)
        BY <3>2, <4>2 DEF Sorted
      <4> QED
        BY <4>1, <4>2
    <3> QED
      BY <1>1, <3>1, <3>3
  <2> QED
    BY <1>5, <2>3, <2>4
<1> QED
  BY <1>1, <1>2, <1>4, <1>5

SortedTyped == {acc \in Typed : Sorted(acc.buffers) /\ OfOne(acc.ready)}

LEMMA AddedSorted ==
  ASSUME OneReference, NEW base \in SortedTyped, NEW s \in Seq(Segment)
  PROVE  Added(base, s) \in SortedTyped
<1> DEFINE Good == Nat \X SortedTyped
<1>1. PICK n \in Nat : n = Len(s) /\ DOMAIN s = 1..n /\ \A i \in 1..n : s[i] \in Segment
  BY ListingIs
<1>2. \A i \in 1..n : \A a : <<i - 1, a>> \in Good => <<i, AddMessage(a, s[i])>> \in Good
  BY <1>1, AddMessageTyped, AddMessageSorted DEF SortedTyped
<1>3. <<0, base>> \in Good
  OBVIOUS
<1> HIDE DEF Good
<1>4. <<n, Added(base, s)>> \in Good
  BY <1>1, <1>2, <1>3, FoldKeeps, Z3T(60)
<1> QED
  BY <1>4 DEF Good

\* One buffer changes.
LEMMA BufferedChanges ==
  ASSUME NEW bs \in [Keys -> Buffer], Sorted(bs), NEW k \in Keys, NEW c
  PROVE  Buffered([bs EXCEPT ![k] = c]) = (Buffered(bs) \ bs[k].parts) \cup c.parts
<1>1. PICK cs : cs = [bs EXCEPT ![k] = c]
  OBVIOUS
<1>2. cs[k] = c /\ \A l \in Keys : l # k => cs[l] = bs[l]
  BY <1>1
<1>3. \A l \in Keys : l # k => bs[l].parts \cap bs[k].parts = {}
  BY DEF Sorted
<1>4. Buffered(cs) = (Buffered(bs) \ bs[k].parts) \cup c.parts
  BY <1>2, <1>3 DEF Buffered
<1> QED
  BY <1>1, <1>4

\* A segment that is in none of the buffers, and not ready, goes to one place.
LEMMA AddMessageMoves ==
  ASSUME OneReference, NEW acc \in SortedTyped, NEW x \in Segment,
         Disjoint(acc.ready), Buffered(acc.buffers) \cap Within(acc.ready) = {},
         x \notin Buffered(acc.buffers) \cup Within(acc.ready)
  PROVE  LET after == AddMessage(acc, x)
         IN /\ Disjoint(after.ready)
            /\ Buffered(after.buffers) \cap Within(after.ready) = {}
            /\ Buffered(after.buffers) \cup Within(after.ready)
                 = Buffered(acc.buffers) \cup Within(acc.ready) \cup {x}
<1> DEFINE b == acc.buffers[Key(x)]
           B == Buffered(acc.buffers)
           R == Within(acc.ready)
<1>1. PICK after : after = AddMessage(acc, x)
  OBVIOUS
<1>2. /\ acc \in Typed /\ Sorted(acc.buffers) /\ Key(x) \in Keys
      /\ acc.buffers \in [Keys -> Buffer] /\ acc.ready \in Seq(Incoming)
      /\ \A y \in b.parts : y \in Segment
      /\ b.parts # {} => b.first \in b.parts
      /\ b.parts \subseteq B
  BY SegmentIs DEF SortedTyped, Typed, Sorted, Buffered
<1>3. \/ Alone(acc, x, after)
      \/ FillsBuffer(acc, x, after)
      \/ JoinsBuffer(acc, x, after)
  BY <1>1, <1>2, SortedCases
<1>4. CASE Alone(acc, x, after)
  <2> DEFINE it == [id |-> x, parts |-> {x}]
  <2>1. it \in Incoming /\ it.parts = {x}
    BY DEF Incoming
  <2>2. after.buffers = acc.buffers /\ after.ready = Append(acc.ready, it)
    BY <1>4 DEF Alone
  <2> HIDE DEF it
  <2>3. Within(after.ready) = R \cup {x} /\ Disjoint(after.ready)
    BY <1>2, <2>1, <2>2, WithinAppended
  <2> QED
    BY <1>1, <2>2, <2>3
<1>5. CASE FillsBuffer(acc, x, after)
  <2> DEFINE it == [id |-> FirstOf(b, x), parts |-> b.parts \cup {x}]
  <2>1. it \in Incoming /\ it.parts = b.parts \cup {x}
    BY <1>2 DEF Incoming, FirstOf
  <2>2. after.buffers = [acc.buffers EXCEPT ![Key(x)] = Empty] /\ after.ready = Append(acc.ready, it)
    BY <1>5 DEF FillsBuffer
  <2> HIDE DEF it
  <2>3. R \cap it.parts = {}
    BY <1>2, <2>1
  <2>4. Within(after.ready) = R \cup it.parts /\ Disjoint(after.ready)
    BY <1>2, <2>1, <2>2, <2>3, WithinAppended
  <2>5. Buffered(after.buffers) = (B \ b.parts) \cup Empty.parts /\ Empty.parts = {}
    BY <1>2, <2>2, BufferedChanges DEF Empty
  <2> HIDE DEF b, B, R
  <2> QED
    BY <1>1, <1>2, <2>1, <2>4, <2>5 DEF B, R
<1>6. CASE JoinsBuffer(acc, x, after)
  <2>1. PICK c : /\ after.buffers = [acc.buffers EXCEPT ![Key(x)] = c]
                 /\ c.parts = b.parts \cup {x} /\ after.ready = acc.ready
    BY <1>6 DEF JoinsBuffer
  <2>2. Buffered(after.buffers) = (B \ b.parts) \cup c.parts
    BY <1>2, <2>1, BufferedChanges
  <2> HIDE DEF b, B, R
  <2> QED
    BY <1>1, <1>2, <2>1, <2>2 DEF B, R
<1> QED
  BY <1>3, <1>4, <1>5, <1>6

NoneTwice(h) == \A i, j \in DOMAIN h : i # j => h[i] # h[j]

\* A listing without repetition, of segments that are not in the buffers: each is in one
\* place then, and nothing that was there is gone.
LEMMA AddedMoves ==
  ASSUME OneReference, NEW base \in SortedTyped, base.ready = <<>>,
         NEW s \in Seq(Segment), NoneTwice(s), ToSet(s) \cap Buffered(base.buffers) = {}
  PROVE  LET a == Added(base, s)
         IN /\ Disjoint(a.ready)
            /\ Buffered(a.buffers) \cap Within(a.ready) = {}
            /\ Buffered(a.buffers) \cup Within(a.ready) = Buffered(base.buffers) \cup ToSet(s)
<1> DEFINE B == Buffered(base.buffers)
           Placed(i, a) == /\ Disjoint(a.ready)
                           /\ Buffered(a.buffers) \cap Within(a.ready) = {}
                           /\ Buffered(a.buffers) \cup Within(a.ready) = B \cup {s[j] : j \in 1..i}
           Good == {p \in Nat \X SortedTyped : Placed(p[1], p[2])}
<1>1. PICK n \in Nat : n = Len(s) /\ DOMAIN s = 1..n /\ \A i \in 1..n : s[i] \in Segment
  BY ListingIs
<1>2. <<0, base>> \in Good
  <2>1. Within(base.ready) = {} /\ Disjoint(base.ready)
    BY EmptySeq DEF Within, Disjoint
  <2>2. {s[j] : j \in 1..0} = {}
    OBVIOUS
  <2> QED
    BY <2>1, <2>2
<1>3. ASSUME NEW i \in 1..n, NEW a, <<i - 1, a>> \in Good
      PROVE  <<i, AddMessage(a, s[i])>> \in Good
  <2>1. a \in SortedTyped /\ Placed(i - 1, a)
    BY <1>3
  <2>2. s[i] \in Segment /\ s[i] \in ToSet(s)
    BY <1>1 DEF ToSet
  <2>3. s[i] \notin B /\ s[i] \notin {s[j] : j \in 1..(i - 1)}
    <3>1. \A j \in 1..(i - 1) : j \in 1..n /\ j # i
      OBVIOUS
    <3> QED
      BY <1>1, <2>2, <3>1 DEF NoneTwice
  <2>4. {s[j] : j \in 1..i} = {s[j] : j \in 1..(i - 1)} \cup {s[i]}
    <3>1. 1..i = (1..(i - 1)) \cup {i}
      OBVIOUS
    <3> QED
      BY <3>1
  <2>5. PICK after : after = AddMessage(a, s[i])
    OBVIOUS
  <2>6. after \in SortedTyped
    BY <2>1, <2>2, <2>5, AddMessageTyped, AddMessageSorted DEF SortedTyped
  <2>7. Placed(i, after)
    BY <2>1, <2>2, <2>3, <2>4, <2>5, AddMessageMoves
  <2> HIDE DEF Placed
  <2>8. <<i, after>> \in Good
    BY <2>6, <2>7
  <2> QED
    BY <2>5, <2>8
<1> HIDE DEF Good
<1>4. <<n, Added(base, s)>> \in Good
  BY <1>1, <1>2, <1>3, FoldKeeps, Z3T(60)
<1>5. Placed(n, Added(base, s))
  BY <1>4 DEF Good
<1>6. {s[j] : j \in 1..n} = ToSet(s)
  BY <1>1 DEF ToSet
<1> QED
  BY <1>5, <1>6

\* Of the buffers that time out each is released whole.
LEMMA ReleasedAre ==
  ASSUME OneReference, NEW acc \in SortedTyped, NEW expired \in SUBSET Open(acc.buffers),
         NEW late \in SetToSeqs(Released(acc.buffers, expired))
  PROVE  /\ late \in Seq(Incoming) /\ OfOne(late) /\ Disjoint(late)
         /\ Within(late) = UNION {acc.buffers[k].parts : k \in expired}
         /\ \A j \in DOMAIN late : \E k \in expired : late[j].id = acc.buffers[k].first
<1>1. /\ late \in Seq(Incoming)
      /\ \A i, j \in DOMAIN late : i # j => late[i] # late[j]
      /\ \A j \in DOMAIN late : \E k \in expired :
           late[j].id = acc.buffers[k].first /\ late[j].parts = acc.buffers[k].parts
      /\ \A k \in expired : \E j \in DOMAIN late : late[j].parts = acc.buffers[k].parts
  BY LateAre DEF SortedTyped
<1>2. /\ \A k \in expired : k \in Keys /\ acc.buffers[k].parts # {}
      /\ \A k \in Keys : acc.buffers[k].parts # {} => acc.buffers[k].first \in acc.buffers[k].parts
      /\ \A k, l \in Keys : k # l => acc.buffers[k].parts \cap acc.buffers[l].parts = {}
  BY DEF SortedTyped, Sorted, Open
<1>3. \A j \in DOMAIN late : late[j] \in Incoming
  BY <1>1, LenProperties
<1>4. Disjoint(late)
  <2> SUFFICES ASSUME NEW i \in DOMAIN late, NEW j \in DOMAIN late, i # j
               PROVE  late[i].parts \cap late[j].parts = {}
    BY DEF Disjoint
  <2>1. PICK k \in expired : late[i].id = acc.buffers[k].first /\ late[i].parts = acc.buffers[k].parts
    BY <1>1
  <2>2. PICK l \in expired : late[j].id = acc.buffers[l].first /\ late[j].parts = acc.buffers[l].parts
    BY <1>1
  <2>3. k # l
    <3>1. late[i] # late[j] /\ late[i] \in Incoming /\ late[j] \in Incoming
      BY <1>1, <1>3
    <3> QED
      BY <2>1, <2>2, <3>1 DEF Incoming
  <2> QED
    BY <1>2, <2>1, <2>2, <2>3
<1>5. OfOne(late)
  <2> SUFFICES ASSUME NEW i \in DOMAIN late
               PROVE  late[i].id \in late[i].parts /\ \A x \in late[i].parts : x[1] = late[i].id[1]
    BY DEF OfOne
  <2>1. PICK k \in expired : late[i].id = acc.buffers[k].first /\ late[i].parts = acc.buffers[k].parts
    BY <1>1
  <2>2. late[i].id \in late[i].parts
    BY <1>2, <2>1
  <2>3. \A x \in late[i].parts : x \in Segment /\ Key(x) = k /\ Size[x[1]] > 1
    BY <1>2, <2>1 DEF SortedTyped, Sorted
  <2> QED
    BY <2>2, <2>3, KeyIsOne
<1>6. Within(late) = UNION {acc.buffers[k].parts : k \in expired}
  BY <1>1 DEF Within
<1> QED
  BY <1>1, <1>4, <1>5, <1>6

\* Segments of one message are together, wherever they are, and none is listed twice.
Sorting ==
  /\ Sorted(buffers) /\ OfOne(ready) /\ OfOne(rows)
  /\ NoneTwice(held) /\ ToSet(held) \subseteq sent

\* A poll, as it places segments: some of the buffers there are after the listing time out.
LEMMA PollPlaces ==
  ASSUME OneReference, PollTyped, Sorting, Poll
  PROVE  \E acc \in SortedTyped : \E expired \in SUBSET Open(acc.buffers) : \E late \in Seq(Incoming) :
           /\ acc = Added(Begun, held)
           /\ ready' = acc.ready \o late
           /\ OfOne(late) /\ Disjoint(late)
           /\ Within(late) = UNION {acc.buffers[k].parts : k \in expired}
           /\ \A j \in DOMAIN late : \E k \in expired : late[j].id = acc.buffers[k].first
           /\ buffers' = [k \in Keys |-> IF k \in expired THEN Empty ELSE acc.buffers[k]]
<1>1. PICK acc \in Typed : \E expired \in SUBSET Open(acc.buffers) :
        \E late \in SetToSeqs(Released(acc.buffers, expired)) :
          /\ acc = Added(Begun, held)
          /\ ready' = acc.ready \o late
          /\ buffers' = [k \in Keys |-> IF k \in expired THEN Empty ELSE acc.buffers[k]]
  BY PollSteps DEF PollTyped
<1>2. PICK expired \in SUBSET Open(acc.buffers) :
        \E late \in SetToSeqs(Released(acc.buffers, expired)) :
          /\ acc = Added(Begun, held)
          /\ ready' = acc.ready \o late
          /\ buffers' = [k \in Keys |-> IF k \in expired THEN Empty ELSE acc.buffers[k]]
  BY <1>1
<1>3. PICK late \in SetToSeqs(Released(acc.buffers, expired)) :
        /\ acc = Added(Begun, held)
        /\ ready' = acc.ready \o late
        /\ buffers' = [k \in Keys |-> IF k \in expired THEN Empty ELSE acc.buffers[k]]
  BY <1>2
<1>4. Begun \in SortedTyped
  <2>1. /\ Begun \in Typed /\ Begun.ready = <<>>
        /\ \A k \in Keys : Begun.buffers[k].parts = buffers[k].parts
                           /\ Begun.buffers[k].first = buffers[k].first
    BY BegunTyped DEF PollTyped
  <2>2. Sorted(Begun.buffers)
    BY <2>1 DEF Sorting, Sorted
  <2>3. OfOne(<<>>)
    BY EmptySeq DEF OfOne
  <2> QED
    BY <2>1, <2>2, <2>3 DEF SortedTyped
<1>5. acc \in SortedTyped
  BY <1>3, <1>4, AddedSorted DEF PollTyped
<1>6. /\ late \in Seq(Incoming) /\ OfOne(late) /\ Disjoint(late)
      /\ Within(late) = UNION {acc.buffers[k].parts : k \in expired}
      /\ \A j \in DOMAIN late : \E k \in expired : late[j].id = acc.buffers[k].first
  BY <1>5, ReleasedAre
<1> QED
  BY <1>3, <1>5, <1>6

\* The buffers that do not time out stay.
LEMMA RestOpen ==
  ASSUME NEW bs \in [Keys -> Buffer], Sorted(bs), NEW expired \in SUBSET Keys
  PROVE  LET rest == [k \in Keys |-> IF k \in expired THEN Empty ELSE bs[k]]
         IN Sorted(rest) /\ Buffered(rest) = Buffered(bs) \ UNION {bs[k].parts : k \in expired}
<1>1. PICK rest : rest = [k \in Keys |-> IF k \in expired THEN Empty ELSE bs[k]]
  OBVIOUS
<1>2. \A k \in Keys : rest[k] = IF k \in expired THEN Empty ELSE bs[k]
  BY <1>1
<1>3. Empty.parts = {}
  BY DEF Empty
<1>4. \A k, l \in Keys : k # l => bs[k].parts \cap bs[l].parts = {}
  BY DEF Sorted
<1>5. Sorted(rest)
  BY <1>2, <1>3 DEF Sorted
<1>6. Buffered(rest) = Buffered(bs) \ UNION {bs[k].parts : k \in expired}
  BY <1>2, <1>3, <1>4 DEF Buffered
<1> QED
  BY <1>1, <1>5, <1>6

LEMMA ListingGrows ==
  ASSUME NEW h \in Seq(Segment), NEW x \in Segment
  PROVE  /\ ToSet(Append(h, x)) = ToSet(h) \cup {x}
         /\ NoneTwice(h) /\ x \notin ToSet(h) => NoneTwice(Append(h, x))
<1>1. PICK n, l : n = Len(h) + 1 /\ l = Append(h, x)
  OBVIOUS
<1>2. /\ DOMAIN l = DOMAIN h \cup {n} /\ n \notin DOMAIN h
      /\ (\A i \in DOMAIN h : l[i] = h[i]) /\ l[n] = x
  BY <1>1, ItemAppended
<1>3. ToSet(l) = ToSet(h) \cup {x}
  BY <1>2 DEF ToSet
<1>4. NoneTwice(h) /\ x \notin ToSet(h) => NoneTwice(l)
  BY <1>2 DEF NoneTwice, ToSet
<1> QED
  BY <1>1, <1>3, <1>4

\* Rows with the same ids and parts.
LEMMA SameItems ==
  ASSUME NEW q, NEW r, DOMAIN q = DOMAIN r,
         \A i \in DOMAIN q : q[i].id = r[i].id /\ q[i].parts = r[i].parts
  PROVE  Within(q) = Within(r) /\ (Disjoint(q) => Disjoint(r)) /\ (OfOne(q) => OfOne(r))
BY DEF Within, Disjoint, OfOne

LEMMA NoItems == Within(<<>>) = {} /\ Disjoint(<<>>) /\ OfOne(<<>>) /\ ToSet(<<>>) = {}
                 /\ NoneTwice(<<>>)
BY EmptySeq DEF Within, Disjoint, OfOne, ToSet, NoneTwice

LEMMA NothingBuffered == Buffered([k \in Keys |-> Empty]) = {} /\ Sorted([k \in Keys |-> Empty])
BY EmptyBuffers DEF Buffered, Sorted

\* Only the storing of an item changes what rows are made of.
LEMMA RowsKept ==
  ASSUME HeldInv, [Next]_vars, ~StoreItem
  PROVE  /\ DOMAIN rows' = DOMAIN rows
         /\ \A i \in DOMAIN rows : rows'[i].id = rows[i].id /\ rows'[i].parts = rows[i].parts
         /\ Within(rows') = Within(rows)
         /\ Disjoint(rows) => Disjoint(rows')
         /\ OfOne(rows) => OfOne(rows')
<1>1. /\ DOMAIN rows' = DOMAIN rows
      /\ \A i \in DOMAIN rows : rows'[i].id = rows[i].id /\ rows'[i].parts = rows[i].parts
  <2>1. CASE UNCHANGED rows
    BY <2>1
  <2>2. CASE MarkProcessed
    BY <2>2, RowMarked DEF MarkProcessed, HeldInv, Reporting, KnownRows
  <2> QED
    BY <2>1, <2>2 DEF Next, Arrive, Poll, Store, SkipItem, StoreFails, LookupFails, Report,
       BeginReport, EndReport, MarkFails, PostReport, PostFails, Crash, Start, vars
<1>2. PICK q, r : q = rows /\ r = rows'
  OBVIOUS
<1>3. Within(q) = Within(r) /\ (Disjoint(q) => Disjoint(r)) /\ (OfOne(q) => OfOne(r))
  BY <1>1, <1>2, SameItems
<1> QED
  BY <1>1, <1>2, <1>3

LEMMA RowStored ==
  ASSUME HeldInv, PollTyped, RowsTyped, StoreItem
  PROVE  /\ Head(ready) \in Incoming
         /\ DOMAIN rows' = DOMAIN rows \cup {Len(rows) + 1} /\ Len(rows) + 1 \notin DOMAIN rows
         /\ \A i \in DOMAIN rows : rows'[i] = rows[i]
         /\ rows'[Len(rows) + 1].id = Head(ready).id
         /\ Within(rows') = Within(rows) \cup Head(ready).parts
         /\ Disjoint(rows) /\ Within(rows) \cap Head(ready).parts = {} => Disjoint(rows')
         /\ OfOne(rows) /\ Head(ready).id \in Head(ready).parts
              /\ (\A x \in Head(ready).parts : x[1] = Head(ready).id[1]) => OfOne(rows')
<1>1. PICK item, q, n : item = Head(ready) /\ q = rows /\ n = Len(rows) + 1
  OBVIOUS
<1>2. item \in Incoming
  BY <1>1, HeadTailProperties DEF StoreItem, PollTyped
<1> DEFINE r == [id |-> item.id, parts |-> item.parts, status |-> "received"]
<1>3. rows' = Append(q, r)
  BY <1>1 DEF StoreItem
<1>4. r \in StoredRow /\ q \in Seq(StoredRow) /\ r.id = item.id /\ r.parts = item.parts
  BY <1>1, <1>2, RowsAreStored DEF Incoming, StoredRow
<1> HIDE DEF r
<1>5. PICK l : l = rows'
  OBVIOUS
<1>6. /\ DOMAIN l = DOMAIN q \cup {n} /\ n \notin DOMAIN q
      /\ (\A i \in DOMAIN q : l[i] = q[i]) /\ l[n] = r
  BY <1>1, <1>3, <1>4, <1>5, ItemAppended
<1>7. /\ Within(l) = Within(q) \cup r.parts
      /\ Disjoint(q) /\ Within(q) \cap r.parts = {} => Disjoint(l)
      /\ OfOne(q) /\ r.id \in r.parts /\ (\A x \in r.parts : x[1] = r.id[1]) => OfOne(l)
  BY <1>3, <1>4, <1>5, WithinAppended
<1> QED
  BY <1>1, <1>2, <1>4, <1>5, <1>6, <1>7

LEMMA NextSorting ==
  ASSUME OneReference, HeldInv, PollTyped, RowsTyped, Sorting, [Next]_vars
  PROVE  Sorting'
<1> USE DEF providerVars, pollVars, reportVars
<1>1. CASE UNCHANGED <<sent, held, buffers, ready>> /\ ~StoreItem
  <2>1. OfOne(rows')
    BY <1>1, RowsKept DEF Sorting
  <2> QED
    BY <1>1, <2>1 DEF Sorting
<1>2. CASE \E x \in Segment : Arrive(x)
  <2>1. PICK x \in Segment : Arrive(x)
    BY <1>2
  <2>2. /\ x \notin sent /\ sent' = sent \cup {x} /\ held' = Append(held, x)
        /\ UNCHANGED <<buffers, ready, rows>>
    BY <2>1 DEF Arrive
  <2>3. ToSet(held') \subseteq sent' /\ NoneTwice(held')
    BY <2>2, ListingGrows DEF Sorting, PollTyped
  <2> QED
    BY <2>2, <2>3 DEF Sorting
<1>3. CASE Poll
  <2>1. PICK acc \in SortedTyped : \E expired \in SUBSET Open(acc.buffers) : \E late \in Seq(Incoming) :
           /\ ready' = acc.ready \o late /\ OfOne(late)
           /\ buffers' = [k \in Keys |-> IF k \in expired THEN Empty ELSE acc.buffers[k]]
    BY <1>3, PollPlaces
  <2>2. PICK expired \in SUBSET Open(acc.buffers), late \in Seq(Incoming) :
           /\ ready' = acc.ready \o late /\ OfOne(late)
           /\ buffers' = [k \in Keys |-> IF k \in expired THEN Empty ELSE acc.buffers[k]]
    BY <2>1
  <2>3. /\ acc.ready \in Seq(Incoming) /\ OfOne(acc.ready) /\ Sorted(acc.buffers)
        /\ acc.buffers \in [Keys -> Buffer] /\ expired \subseteq Keys
    BY DEF SortedTyped, Typed, Open
  <2>4. OfOne(ready')
    BY <2>2, <2>3, WithinJoined
  <2>5. Sorted(buffers')
    BY <2>2, <2>3, RestOpen
  <2>6. UNCHANGED <<sent, rows>> /\ ToSet(held') \subseteq sent /\ NoneTwice(held')
    BY <1>3, NoItems DEF Poll, Sorting
  <2> QED
    BY <2>4, <2>5, <2>6 DEF Sorting
<1>4. CASE NextItem /\ pc = "storing" /\ (StoreItem \/ UNCHANGED rows)
  <2>1. ready # <<>> /\ ready \in Seq(Incoming) /\ ready' = Tail(ready)
    BY <1>4 DEF NextItem, PollTyped
  <2>2. /\ OfOne(ready') /\ Head(ready).id \in Head(ready).parts
        /\ \A x \in Head(ready).parts : x[1] = Head(ready).id[1]
    BY <2>1, WithinRest DEF Sorting
  <2>3. OfOne(rows')
    <3>1. CASE StoreItem
      BY <2>2, <3>1, RowStored DEF Sorting
    <3>2. CASE UNCHANGED rows
      BY <3>2 DEF Sorting
    <3> QED
      BY <1>4, <3>1, <3>2
  <2> QED
    BY <1>4, <2>2, <2>3 DEF NextItem, Sorting
<1>5. CASE LookupFails
  BY <1>5, NoItems DEF LookupFails, Sorting
<1>6. CASE Crash
  BY <1>6, NoItems, NothingBuffered DEF Crash, Sorting
<1>7. CASE Report /\ ~StoreItem
  BY <1>1, <1>7 DEF Report, BeginReport, PostReport, PostFails, MarkProcessed, EndReport, MarkFails
<1>8. CASE UNCHANGED vars /\ ~StoreItem
  BY <1>1, <1>8 DEF vars
<1>9. CASE Start /\ ~StoreItem
  BY <1>1, <1>9 DEF Start
<1>10. CASE Store
  BY <1>4, <1>5, <1>10 DEF Store, SkipItem, StoreItem, StoreFails
<1> QED
  BY <1>2, <1>3, <1>6, <1>7, <1>8, <1>9, <1>10 DEF Next, Store

-----------------------------------------------------------------------------
(* A provider that hands a message out once: a segment is in one place.    *)

Apart(h, b, r, w) ==
  /\ h \cap b = {} /\ h \cap r = {} /\ h \cap w = {}
  /\ b \cap r = {} /\ b \cap w = {} /\ r \cap w = {}

\* With the provider, in a buffer, ready or in a row; without a fault it is in one.
InOnePlace ==
  LET h == ToSet(held)
      b == Buffered(buffers)
      r == Within(ready)
      w == Within(rows)
  IN /\ Apart(h, b, r, w) /\ Disjoint(ready) /\ Disjoint(rows)
     /\ h \cup b \cup r \cup w \subseteq sent
     /\ faults = 0 => sent \subseteq h \cup b \cup r \cup w

LEMMA PollInOnePlace ==
  ASSUME OneReference, HeldInv, PollTyped, Sorting, drains, InOnePlace, Poll
  PROVE  InOnePlace'
<1>1. PICK acc \in SortedTyped : \E expired \in SUBSET Open(acc.buffers) : \E late \in Seq(Incoming) :
         /\ acc = Added(Begun, held)
         /\ ready' = acc.ready \o late
         /\ Disjoint(late)
         /\ Within(late) = UNION {acc.buffers[k].parts : k \in expired}
         /\ buffers' = [k \in Keys |-> IF k \in expired THEN Empty ELSE acc.buffers[k]]
  BY PollPlaces
<1>2. PICK expired \in SUBSET Open(acc.buffers), late \in Seq(Incoming) :
         /\ acc = Added(Begun, held)
         /\ ready' = acc.ready \o late
         /\ Disjoint(late)
         /\ Within(late) = UNION {acc.buffers[k].parts : k \in expired}
         /\ buffers' = [k \in Keys |-> IF k \in expired THEN Empty ELSE acc.buffers[k]]
  BY <1>1
<1>3. /\ acc.ready \in Seq(Incoming) /\ Sorted(acc.buffers)
      /\ acc.buffers \in [Keys -> Buffer] /\ expired \subseteq Keys
  BY DEF SortedTyped, Typed, Open
<1>4. held' = <<>> /\ UNCHANGED <<sent, rows, faults>>
  BY DEF Poll, reportVars
<1>5. /\ Begun \in SortedTyped /\ Begun.ready = <<>> /\ Buffered(Begun.buffers) = Buffered(buffers)
  <2>1. /\ Begun \in Typed /\ Begun.ready = <<>>
        /\ \A k \in Keys : Begun.buffers[k].parts = buffers[k].parts
                           /\ Begun.buffers[k].first = buffers[k].first
    BY BegunTyped DEF PollTyped
  <2>2. Sorted(Begun.buffers)
    BY <2>1 DEF Sorting, Sorted
  <2>3. Buffered(Begun.buffers) = Buffered(buffers)
    BY <2>1 DEF Buffered
  <2> QED
    BY <2>1, <2>2, <2>3, NoItems DEF SortedTyped
<1> DEFINE B == Buffered(acc.buffers)
           R == Within(acc.ready)
           L == UNION {acc.buffers[k].parts : k \in expired}
<1>6. /\ Disjoint(acc.ready) /\ B \cap R = {}
      /\ B \cup R = Buffered(buffers) \cup ToSet(held)
  <2>1. held \in Seq(Segment) /\ NoneTwice(held) /\ ToSet(held) \cap Buffered(Begun.buffers) = {}
    BY <1>5 DEF PollTyped, Sorting, InOnePlace, Apart
  <2> QED
    BY <1>2, <1>5, <2>1, AddedMoves
<1>7. L \subseteq B
  BY <1>3 DEF Buffered
<1>8. Within(ready') = R \cup L /\ Disjoint(ready')
  <2>1. R \cap Within(late) = {}
    BY <1>2, <1>6, <1>7
  <2> QED
    BY <1>2, <1>3, <1>6, <2>1, WithinJoined
<1>9. Buffered(buffers') = B \ L
  BY <1>2, <1>3, RestOpen
<1>10. Within(rows') = Within(rows) /\ (Disjoint(rows) => Disjoint(rows')) /\ ToSet(held') = {}
  BY <1>4, NoItems
<1>11. Within(ready) = {}
  BY NoItems DEF Poll, PollTyped
<1> HIDE DEF B, R, L
<1>12. PICK h, b, w, s : h = ToSet(held) /\ b = Buffered(buffers) /\ w = Within(rows) /\ s = sent
  OBVIOUS
<1>13. PICK h2, b2, r2, w2, s2 : /\ h2 = ToSet(held') /\ b2 = Buffered(buffers')
                                /\ r2 = Within(ready') /\ w2 = Within(rows') /\ s2 = sent'
  OBVIOUS
<1>14. /\ h \cap w = {} /\ b \cap w = {} /\ Disjoint(rows) /\ h \cup b \cup w \subseteq s
       /\ faults = 0 => s \subseteq h \cup b \cup w
  BY <1>11, <1>12 DEF InOnePlace, Apart
<1>15. h2 = {} /\ w2 = w /\ s2 = s /\ r2 = R \cup L /\ b2 = B \ L /\ B \cup R = b \cup h /\ B \cap R = {}
  BY <1>4, <1>6, <1>8, <1>9, <1>10, <1>12, <1>13
<1>16. /\ Apart(h2, b2, r2, w2) /\ h2 \cup b2 \cup r2 \cup w2 \subseteq s2
       /\ faults = 0 => s2 \subseteq h2 \cup b2 \cup r2 \cup w2
  BY <1>7, <1>14, <1>15 DEF Apart
<1> QED
  BY <1>4, <1>8, <1>10, <1>13, <1>14, <1>16 DEF InOnePlace

LEMMA NextInOnePlace ==
  ASSUME OneReference, HeldInv, PollTyped, RowsTyped, Sorting, drains, InOnePlace, [Next]_vars
  PROVE  InOnePlace'
<1> USE DEF providerVars, pollVars, reportVars
<1>1. CASE UNCHANGED <<sent, held, buffers, ready>> /\ ~StoreItem /\ (faults' = faults \/ faults' # 0)
  BY <1>1, RowsKept DEF InOnePlace
<1>2. CASE \E x \in Segment : Arrive(x)
  <2>1. PICK x \in Segment : Arrive(x)
    BY <1>2
  <2>2. /\ x \notin sent /\ sent' = sent \cup {x} /\ held' = Append(held, x)
        /\ UNCHANGED <<buffers, ready, rows, faults>>
    BY <2>1 DEF Arrive
  <2>3. ToSet(held') = ToSet(held) \cup {x}
    BY <2>2, ListingGrows DEF PollTyped
  <2> QED
    BY <2>2, <2>3 DEF InOnePlace, Apart
<1>3. CASE Poll
  BY <1>3, PollInOnePlace
<1>4. ASSUME NextItem, pc = "storing"
      PROVE  /\ ready # <<>> /\ UNCHANGED <<sent, held, buffers>>
             /\ Head(ready).id \in Head(ready).parts
             /\ Within(ready) = Head(ready).parts \cup Within(ready') /\ Disjoint(ready')
             /\ Head(ready).parts \cap Within(ready') = {}
  <2>1. ready # <<>> /\ ready \in Seq(Incoming) /\ ready' = Tail(ready)
    BY <1>4 DEF NextItem, PollTyped
  <2> QED
    BY <1>4, <2>1, WithinRest DEF NextItem, Sorting, InOnePlace
<1>5. CASE SkipItem
  <2>1. PICK i \in DOMAIN rows : rows[i].id = Head(ready).id
    BY <1>5 DEF SkipItem, Duplicate
  <2>2. Head(ready).id \in Within(rows) /\ Head(ready).id \in Within(ready)
    BY <1>4, <1>5, <2>1 DEF SkipItem, Sorting, OfOne, Within
  <2> QED
    BY <2>2 DEF InOnePlace, Apart
<1>6. CASE StoreItem
  <2>1. /\ Within(rows') = Within(rows) \cup Head(ready).parts
        /\ Disjoint(rows) /\ Within(rows) \cap Head(ready).parts = {} => Disjoint(rows')
        /\ faults' = faults
    BY <1>6, RowStored DEF StoreItem
  <2> QED
    BY <1>4, <1>6, <2>1 DEF StoreItem, InOnePlace, Apart
<1>7. CASE StoreFails
  <2>1. UNCHANGED rows /\ faults' # 0
    BY <1>7 DEF StoreFails, Fault, RowsTyped
  <2> QED
    BY <1>4, <1>7, <2>1 DEF StoreFails, InOnePlace, Apart
<1>8. CASE LookupFails
  <2>1. UNCHANGED <<sent, held, buffers, rows>> /\ faults' # 0 /\ ready' = <<>>
    BY <1>8 DEF LookupFails, Fault, RowsTyped
  <2> QED
    BY <2>1, NoItems DEF InOnePlace, Apart
<1>9. CASE Crash
  <2>1. /\ UNCHANGED <<sent, held, rows>> /\ faults' # 0 /\ ready' = <<>>
        /\ buffers' = [k \in Keys |-> Empty]
    BY <1>9 DEF Crash, Fault, RowsTyped
  <2> QED
    BY <2>1, NoItems, NothingBuffered DEF InOnePlace, Apart
<1>10. CASE Report /\ ~StoreItem
  <2>1. UNCHANGED <<sent, held, buffers, ready>>
    BY <1>10 DEF Report, BeginReport, PostReport, PostFails, MarkProcessed, EndReport, MarkFails
  <2>2. faults' = faults \/ Fault
    BY <1>10 DEF Report, BeginReport, PostReport, PostFails, MarkProcessed, EndReport, MarkFails
  <2>3. faults' = faults \/ faults' # 0
    BY <2>2 DEF Fault, RowsTyped
  <2> QED
    BY <1>1, <1>10, <2>1, <2>3
<1>11. CASE (UNCHANGED vars \/ Start) /\ ~StoreItem
  BY <1>1, <1>11 DEF vars, Start
<1> QED
  BY <1>2, <1>3, <1>5, <1>6, <1>7, <1>8, <1>9, <1>10, <1>11 DEF Next, Store

-----------------------------------------------------------------------------
(* A provider that lists all it holds: every poll puts the same messages   *)
(* together in the same order, so that a message opens with the same       *)
(* segment, and has the same id, each time.                                *)

\* The segments of message s among the first m of a listing.
Heard(h, s, m) == {h[j] : j \in {l \in 1..m : h[l][1] = s}}

\* Segment x is the first of its message in the listing: the message has its id.
Opens(h, x) == \E j \in DOMAIN h : h[j] = x /\ \A k \in 1..(j - 1) : h[k][1] # x[1]

\* Buffer b of message s has what an earlier poll, or the first i segments of this
\* one, found of it, and not all of it; or it was completed by this poll.
Following(h, i, s, b) ==
  \/ /\ b.parts # Whole(s)
     /\ \E m \in i..Len(h) : b.parts = Heard(h, s, m)
     /\ b.parts # {} => Opens(h, b.first)
  \/ b.parts = {} /\ Heard(h, s, i) = Whole(s)

Followed(h, i, acc) ==
  /\ \A s \in Sms : Size[s] > 1 => Following(h, i, s, acc.buffers[KeyOf(s)])
  /\ \A j \in DOMAIN acc.ready : Opens(h, acc.ready[j].id)

LEMMA HeardNext ==
  ASSUME NEW h, NEW s, NEW i \in Nat \ {0}
  PROVE  /\ Heard(h, s, 0) = {}
         /\ h[i][1] = s => Heard(h, s, i) = Heard(h, s, i - 1) \cup {h[i]}
         /\ h[i][1] # s => Heard(h, s, i) = Heard(h, s, i - 1)
<1>1. 1..i = (1..(i - 1)) \cup {i} /\ 1..0 = {}
  OBVIOUS
<1> QED
  BY <1>1 DEF Heard

LEMMA HeardWithin ==
  ASSUME NEW h \in Seq(Segment), NEW s \in Sms, NEW m \in 0..Len(h)
  PROVE  Heard(h, s, m) \subseteq Whole(s)
<1>1. \A l \in 1..m : h[l] \in Segment
  BY ListingIs
<1>2. \A x \in Segment : x[1] = s => x \in Whole(s)
  <2> TAKE x \in Segment
  <2>1. x = <<x[1], x[2]>> /\ x[2] \in 1..Size[x[1]]
    BY SegmentIs
  <2> QED
    BY <2>1 DEF Whole
<1> QED
  BY <1>1, <1>2 DEF Heard

\* As many segments of a message as it has are all of it.
LEMMA WholeIs ==
  ASSUME NEW s \in Sms, NEW P \in SUBSET Whole(s)
  PROVE  (Cardinality(P) >= Size[s] <=> P = Whole(s)) /\ Whole(s) # {} /\ KeyOf(s) \in Keys
<1>1. PICK n \in Nat \ {0} : n = Size[s]
  BY InboxAssumption
<1>2. IsFiniteSet({s}) /\ Cardinality({s}) = 1 /\ IsFiniteSet(1..n) /\ Cardinality(1..n) = n
  <2>1. IsFiniteSet(1..n) /\ Cardinality(1..n) = n
    BY FS_Interval
  <2> QED
    BY <2>1, FS_Singleton
<1>3. IsFiniteSet({s} \X (1..n)) /\ Cardinality({s} \X (1..n)) = 1 * n
  BY <1>2, FS_Product
<1>4. IsFiniteSet(Whole(s)) /\ Cardinality(Whole(s)) = n
  BY <1>1, <1>3 DEF Whole
<1>5. /\ IsFiniteSet(P) /\ Cardinality(P) <= Cardinality(Whole(s))
      /\ Cardinality(Whole(s)) = Cardinality(P) => Whole(s) = P
  BY <1>4, FS_Subset
<1>6. Cardinality(P) \in Nat
  BY <1>5, FS_CardinalityType
<1>7. <<s, 1>> \in Whole(s) /\ <<s, 1>> \in Segment
  BY <1>1 DEF Whole, Segment
<1>8. KeyOf(s) \in Keys
  <2>1. Key(<<s, 1>>) = KeyOf(s)
    BY DEF Key, KeyOf
  <2> QED
    BY <1>7, <2>1 DEF Keys
<1> QED
  BY <1>1, <1>4, <1>5, <1>6, <1>7, <1>8

\* The next segment of a listing is of another message than s.
LEMMA OthersFollow ==
  ASSUME NEW h \in Seq(Segment), NEW i \in 1..Len(h), NEW s \in Sms, NEW b,
         Following(h, i - 1, s, b), h[i][1] # s
  PROVE  Following(h, i, s, b)
<1>1. i \in Nat /\ Len(h) \in Nat
  BY ListingIs
<1>2. Heard(h, s, i) = Heard(h, s, i - 1)
  <2>1. PICK k \in Nat \ {0} : k = i
    BY <1>1
  <2>2. h[k][1] # s => Heard(h, s, k) = Heard(h, s, k - 1)
    BY HeardNext
  <2> QED
    BY <2>1, <2>2
<1>3. ASSUME NEW m \in (i - 1)..Len(h), b.parts = Heard(h, s, m)
      PROVE  \E l \in i..Len(h) : b.parts = Heard(h, s, l)
  <2>1. CASE m = i - 1
    BY <1>1, <1>2, <1>3, <2>1
  <2>2. CASE m # i - 1
    BY <1>1, <1>3, <2>2
  <2> QED
    BY <2>1, <2>2
<1> QED
  BY <1>2, <1>3 DEF Following

\* It is of s: it is there already, or the next; and the buffer it makes is named for
\* the segment s opens with.
LEMMA SameFollows ==
  ASSUME NEW h \in Seq(Segment), NoneTwice(h), NEW i \in 1..Len(h), NEW s \in Sms, NEW b,
         Following(h, i - 1, s, b), h[i][1] = s
  PROVE  /\ b.parts # Whole(s) /\ b.parts \cup {h[i]} \subseteq Whole(s)
         /\ \E m \in i..Len(h) : b.parts \cup {h[i]} = Heard(h, s, m)
         /\ b.parts \cup {h[i]} = Whole(s) => Heard(h, s, i) = Whole(s)
         /\ Opens(h, FirstOf(b, h[i]))
<1>1. i - 1 \in Nat /\ Len(h) \in Nat /\ DOMAIN h = 1..Len(h)
  BY ListingIs
<1>2. Heard(h, s, i) = Heard(h, s, i - 1) \cup {h[i]}
  <2>1. PICK k \in Nat \ {0} : k = i
    BY <1>1
  <2>2. h[k][1] = s => Heard(h, s, k) = Heard(h, s, k - 1) \cup {h[k]}
    BY HeardNext
  <2> QED
    BY <2>1, <2>2
<1>3. h[i] \notin Heard(h, s, i - 1)
  <2>1. \A l \in 1..(i - 1) : l \in DOMAIN h /\ l # i
    BY <1>1
  <2> QED
    BY <1>1, <2>1 DEF Heard, NoneTwice
<1>4. Heard(h, s, i) \subseteq Whole(s) /\ i \in 0..Len(h)
  <2>1. i \in 0..Len(h)
    BY <1>1
  <2> QED
    BY <2>1, HeardWithin
<1>5. ~(Heard(h, s, i - 1) = Whole(s))
  BY <1>2, <1>3, <1>4
<1>6. PICK m \in (i - 1)..Len(h) : b.parts = Heard(h, s, m)
  BY <1>5 DEF Following
<1>7. b.parts # Whole(s) /\ (b.parts # {} => Opens(h, b.first))
  BY <1>5 DEF Following
<1>8. CASE m = i - 1
  <2>1. b.parts \cup {h[i]} = Heard(h, s, i)
    BY <1>2, <1>6, <1>8
  <2>2. Opens(h, FirstOf(b, h[i]))
    <3>1. CASE b.parts # {}
      BY <1>7, <3>1 DEF FirstOf
    <3>2. CASE b.parts = {}
      <4>1. \A k \in 1..(i - 1) : h[k][1] # s
        BY <1>6, <1>8, <3>2 DEF Heard
      <4> QED
        BY <1>1, <3>2, <4>1 DEF FirstOf, Opens
    <3> QED
      BY <3>1, <3>2
  <2>3. i \in i..Len(h)
    BY <1>1
  <2> QED
    BY <1>4, <1>7, <2>1, <2>2, <2>3
<1>9. CASE m # i - 1
  <2>1. m \in i..Len(h) /\ m \in 0..Len(h) /\ i \in 1..m
    BY <1>1, <1>9
  <2>2. h[i] \in Heard(h, s, m)
    BY <2>1 DEF Heard
  <2>3. Heard(h, s, m) \subseteq Whole(s)
    BY <2>1, HeardWithin
  <2> QED
    BY <1>6, <1>7, <2>1, <2>2, <2>3 DEF FirstOf
<1> QED
  BY <1>8, <1>9

LEMMA AloneOpens ==
  ASSUME NEW h \in Seq(Segment), NoneTwice(h), NEW i \in 1..Len(h), Size[h[i][1]] = 1
  PROVE  Opens(h, h[i])
<1>1. DOMAIN h = 1..Len(h) /\ Len(h) \in Nat /\ \A k \in 1..Len(h) : h[k] \in Segment
  BY ListingIs
<1>2. ASSUME NEW k \in 1..(i - 1), h[k][1] = h[i][1] PROVE FALSE
  <2>1. k \in 1..Len(h) /\ k # i
    BY <1>1
  <2>2. h[k] = <<h[k][1], h[k][2]>> /\ h[k][2] \in 1..1
    BY <1>1, <1>2, <2>1, SegmentIs
  <2>3. h[i] = <<h[i][1], h[i][2]>> /\ h[i][2] \in 1..1
    BY <1>1, SegmentIs
  <2>4. h[k] = h[i]
    BY <1>2, <2>2, <2>3
  <2> QED
    BY <1>1, <2>1, <2>4 DEF NoneTwice
<1> QED
  BY <1>1, <1>2 DEF Opens

LEMMA OpensAppended ==
  ASSUME NEW h, NEW q \in Seq(Incoming), NEW it \in Incoming,
         \A j \in DOMAIN q : Opens(h, q[j].id), Opens(h, it.id)
  PROVE  \A j \in DOMAIN Append(q, it) : Opens(h, Append(q, it)[j].id)
BY ItemAppended

LEMMA AddMessageFollows ==
  ASSUME OneReference, NEW h \in Seq(Segment), NoneTwice(h), NEW i \in 1..Len(h),
         NEW acc \in SortedTyped, Followed(h, i - 1, acc)
  PROVE  Followed(h, i, AddMessage(acc, h[i]))
<1>1. PICK x, after, s : x = h[i] /\ after = AddMessage(acc, x) /\ s = x[1]
  OBVIOUS
<1>2. x \in Segment /\ s \in Sms /\ Key(x) = KeyOf(s) /\ Key(x) \in Keys
  BY <1>1, ListingIs, SegmentIs DEF Key, KeyOf
<1>3. /\ acc \in Typed /\ Sorted(acc.buffers) /\ acc.ready \in Seq(Incoming)
      /\ acc.buffers \in [Keys -> Buffer]
  BY DEF SortedTyped, Typed
<1>4. \/ Alone(acc, x, after)
      \/ Size[x[1]] > 1 /\ FillsBuffer(acc, x, after)
      \/ Size[x[1]] > 1 /\ JoinsBuffer(acc, x, after)
  BY <1>1, <1>2, <1>3, SortedCases
<1>5. ASSUME NEW t \in Sms, t # s, Size[t] > 1 PROVE Following(h, i, t, acc.buffers[KeyOf(t)])
  BY <1>1, <1>5, OthersFollow DEF Followed
<1>6. \A j \in DOMAIN acc.ready : Opens(h, acc.ready[j].id)
  BY DEF Followed
<1>7. CASE Alone(acc, x, after)
  <2> DEFINE it == [id |-> x, parts |-> {x}]
  <2>1. it \in Incoming /\ it.id = x
    BY <1>2 DEF Incoming
  <2>2. Size[s] = 1 /\ after.buffers = acc.buffers /\ after.ready = Append(acc.ready, it)
    BY <1>1, <1>7 DEF Alone
  <2> HIDE DEF it
  <2>3. Opens(h, it.id)
    BY <1>1, <2>1, <2>2, AloneOpens
  <2>4. \A j \in DOMAIN after.ready : Opens(h, after.ready[j].id)
    BY <1>3, <1>6, <2>1, <2>2, <2>3, OpensAppended
  <2>5. \A t \in Sms : Size[t] > 1 => Following(h, i, t, after.buffers[KeyOf(t)])
    BY <1>5, <2>2
  <2> QED
    BY <1>1, <2>4, <2>5 DEF Followed
<1>8. ASSUME Size[s] > 1, NEW c, after.buffers = [acc.buffers EXCEPT ![Key(x)] = c],
             Following(h, i, s, c)
      PROVE  \A t \in Sms : Size[t] > 1 => Following(h, i, t, after.buffers[KeyOf(t)])
  <2> SUFFICES ASSUME NEW t \in Sms, Size[t] > 1 PROVE Following(h, i, t, after.buffers[KeyOf(t)])
    OBVIOUS
  <2>1. CASE t = s
    BY <1>2, <1>3, <1>8, <2>1
  <2>2. CASE t # s
    <3>1. KeyOf(t) # KeyOf(s)
      BY <1>2, <1>8, <2>2 DEF OneReference
    <3>2. KeyOf(t) \in Keys
      BY WholeIs
    <3>3. after.buffers[KeyOf(t)] = acc.buffers[KeyOf(t)]
      BY <1>2, <1>3, <1>8, <3>1, <3>2
    <3> QED
      BY <1>5, <2>2, <3>3
  <2> QED
    BY <2>1, <2>2
<1> DEFINE b == acc.buffers[Key(x)]
<1>9. ASSUME Size[s] > 1
      PROVE  /\ b.parts # Whole(s) /\ b.parts \cup {x} \subseteq Whole(s)
             /\ \E m \in i..Len(h) : b.parts \cup {x} = Heard(h, s, m)
             /\ b.parts \cup {x} = Whole(s) => Heard(h, s, i) = Whole(s)
             /\ Opens(h, FirstOf(b, x))
  <2>1. Following(h, i - 1, s, b)
    BY <1>2, <1>9 DEF Followed
  <2> HIDE DEF b
  <2> QED
    BY <1>1, <1>2, <2>1, SameFollows
<1>10. CASE Size[s] > 1 /\ FillsBuffer(acc, x, after)
  <2> DEFINE it == [id |-> FirstOf(b, x), parts |-> b.parts \cup {x}]
  <2>1. it \in Incoming /\ it.id = FirstOf(b, x)
    <3>1. b.parts \subseteq Segment /\ (b.parts # {} => b.first \in Segment)
      BY <1>2, <1>3 DEF Sorted
    <3> QED
      BY <1>2, <3>1 DEF Incoming, FirstOf
  <2>2. /\ after.buffers = [acc.buffers EXCEPT ![Key(x)] = Empty]
        /\ after.ready = Append(acc.ready, it)
        /\ Cardinality(b.parts \cup {x}) >= Size[s]
    BY <1>1, <1>10 DEF FillsBuffer
  <2> HIDE DEF it, b
  <2>3. \A j \in DOMAIN after.ready : Opens(h, after.ready[j].id)
    BY <1>3, <1>6, <1>9, <1>10, <2>1, <2>2, OpensAppended
  <2>4. b.parts \cup {x} = Whole(s)
    BY <1>2, <1>9, <1>10, <2>2, WholeIs
  <2>5. Following(h, i, s, Empty)
    BY <1>9, <1>10, <2>4 DEF Following, Empty
  <2>6. \A t \in Sms : Size[t] > 1 => Following(h, i, t, after.buffers[KeyOf(t)])
    BY <1>8, <1>10, <2>2, <2>5
  <2> QED
    BY <1>1, <2>3, <2>6 DEF Followed
<1>11. CASE Size[s] > 1 /\ JoinsBuffer(acc, x, after)
  <2>1. PICK c : /\ after.buffers = [acc.buffers EXCEPT ![Key(x)] = c] /\ after.ready = acc.ready
                 /\ c.parts = b.parts \cup {x} /\ c.first = FirstOf(b, x)
                 /\ ~(Cardinality(c.parts) >= Size[s])
    BY <1>1, <1>11 DEF JoinsBuffer
  <2> HIDE DEF b
  <2>2. c.parts # Whole(s)
    BY <1>2, <1>9, <1>11, <2>1, WholeIs
  <2>3. Following(h, i, s, c)
    BY <1>9, <1>11, <2>1, <2>2 DEF Following
  <2>4. \A t \in Sms : Size[t] > 1 => Following(h, i, t, after.buffers[KeyOf(t)])
    BY <1>8, <1>11, <2>1, <2>3
  <2> QED
    BY <1>1, <1>6, <2>1, <2>4 DEF Followed
<1> QED
  BY <1>1, <1>4, <1>7, <1>10, <1>11

\* So a whole listing is put together as an earlier poll put together its beginning.
LEMMA AddedFollows ==
  ASSUME OneReference, NEW base \in SortedTyped, NEW h \in Seq(Segment), NoneTwice(h),
         Followed(h, 0, base)
  PROVE  Followed(h, Len(h), Added(base, h))
<1> DEFINE Good == {p \in Nat \X SortedTyped : Followed(h, p[1], p[2])}
<1>1. PICK n \in Nat : n = Len(h) /\ DOMAIN h = 1..n /\ \A i \in 1..n : h[i] \in Segment
  BY ListingIs
<1>2. <<0, base>> \in Good
  OBVIOUS
<1>3. ASSUME NEW i \in 1..n, NEW a, <<i - 1, a>> \in Good
      PROVE  <<i, AddMessage(a, h[i])>> \in Good
  <2>1. a \in SortedTyped /\ Followed(h, i - 1, a)
    BY <1>3
  <2>2. PICK after : after = AddMessage(a, h[i])
    OBVIOUS
  <2>3. after \in SortedTyped
    BY <1>1, <2>1, <2>2, AddMessageTyped, AddMessageSorted DEF SortedTyped
  <2>4. Followed(h, i, after)
    BY <1>1, <2>1, <2>2, AddMessageFollows
  <2>5. <<i, after>> \in Good
    BY <2>3, <2>4
  <2> QED
    BY <2>2, <2>5
<1> HIDE DEF Good
<1>4. <<n, Added(base, h)>> \in Good
  BY <1>1, <1>2, <1>3, FoldKeeps, Z3T(60)
<1> QED
  BY <1>1, <1>4 DEF Good

\* Every buffer has what some beginning of the listing has of its message, and every item
\* and row has its id from the segment that its message opens with, another than any
\* other row's if the provider gave that segment one.
Listing ==
  /\ sent = ToSet(held)
  /\ \A s \in Sms : Size[s] > 1 => Following(held, 0, s, buffers[KeyOf(s)])
  /\ \A i \in DOMAIN ready : Opens(held, ready[i].id)
  /\ \A i \in DOMAIN rows : Opens(held, rows[i].id)
  /\ \A i, j \in DOMAIN rows : i # j /\ rows[i].id \in WithId => rows[i].id # rows[j].id

\* A message more is listed behind the others.
LEMMA FollowingGrows ==
  ASSUME NEW h \in Seq(Segment), NEW x \in Segment
  PROVE  /\ \A s, b : Following(h, 0, s, b) => Following(Append(h, x), 0, s, b)
         /\ \A y : Opens(h, y) => Opens(Append(h, x), y)
<1>1. PICK n, l : n = Len(h) /\ l = Append(h, x)
  OBVIOUS
<1>2. /\ n \in Nat /\ DOMAIN h = 1..n /\ DOMAIN l = 1..(n + 1) /\ Len(l) = n + 1
      /\ \A i \in 1..n : l[i] = h[i]
  BY <1>1, ListingIs, AppendProperties
<1>3. ASSUME NEW s, NEW m \in 0..n PROVE Heard(l, s, m) = Heard(h, s, m)
  <2>1. \A i \in 1..m : l[i] = h[i]
    BY <1>2
  <2> QED
    BY <2>1 DEF Heard
<1>4. ASSUME NEW s, NEW b, Following(h, 0, s, b) PROVE Following(l, 0, s, b)
  <2>1. \A m \in 0..n : m \in 0..(n + 1)
    BY <1>2
  <2>2. 0 \in 0..n
    BY <1>2
  <2>3. CASE b.parts = {} /\ Heard(h, s, 0) = Whole(s)
    BY <1>3, <2>2, <2>3 DEF Following
  <2>4. CASE ~(b.parts = {} /\ Heard(h, s, 0) = Whole(s))
    <3>1. /\ b.parts # Whole(s) /\ (b.parts # {} => Opens(h, b.first))
          /\ \E m \in 0..n : b.parts = Heard(h, s, m)
      BY <1>1, <1>4, <2>4 DEF Following
    <3>2. \E m \in 0..(n + 1) : b.parts = Heard(l, s, m)
      BY <1>3, <2>1, <3>1
    <3>3. b.parts # {} => Opens(l, b.first)
      <4> SUFFICES ASSUME Opens(h, b.first) PROVE Opens(l, b.first)
        BY <3>1
      <4>1. PICK j \in DOMAIN h : h[j] = b.first /\ \A k \in 1..(j - 1) : h[k][1] # b.first[1]
        BY DEF Opens
      <4>2. \A k \in 1..(j - 1) : k \in 1..n
        BY <1>2, <4>1
      <4>3. j \in DOMAIN l
        BY <1>2, <4>1
      <4> QED
        BY <1>2, <4>1, <4>2, <4>3 DEF Opens
    <3> QED
      BY <1>2, <3>1, <3>2, <3>3 DEF Following
  <2> QED
    BY <2>3, <2>4
<1>5. ASSUME NEW y, Opens(h, y) PROVE Opens(l, y)
  <2>1. PICK j \in DOMAIN h : h[j] = y /\ \A k \in 1..(j - 1) : h[k][1] # y[1]
    BY <1>5 DEF Opens
  <2>2. \A k \in 1..(j - 1) : k \in 1..n
    BY <1>2, <2>1
  <2>3. j \in DOMAIN l
    BY <1>2, <2>1
  <2> QED
    BY <1>2, <2>1, <2>2, <2>3 DEF Opens
<1> QED
  BY <1>1, <1>4, <1>5

\* The end of a listing is the beginning of the next, and a buffer may be empty then.
LEMMA FollowsAgain ==
  ASSUME NEW h \in Seq(Segment), NEW s \in Sms
  PROVE  /\ Following(h, 0, s, Empty)
         /\ \A b : Following(h, Len(h), s, b) => Following(h, 0, s, b)
<1>1. Len(h) \in Nat /\ 0 \in 0..Len(h) /\ Heard(h, s, 0) = {} /\ Whole(s) # {}
  <2>1. Len(h) \in Nat
    BY ListingIs
  <2>2. Heard(h, s, 0) = {}
    <3>1. 1..0 = {}
      OBVIOUS
    <3> QED
      BY <3>1 DEF Heard
  <2>3. Whole(s) # {}
    BY WholeIs
  <2> QED
    BY <2>1, <2>2, <2>3
<1>2. \A b : b.parts = {} => Following(h, 0, s, b)
  BY <1>1 DEF Following
<1>3. Empty.parts = {}
  BY DEF Empty
<1>4. \A m \in Len(h)..Len(h) : m \in 0..Len(h)
  BY <1>1
<1>5. ASSUME NEW b, Following(h, Len(h), s, b) PROVE Following(h, 0, s, b)
  <2>1. CASE b.parts = {}
    BY <1>2, <2>1
  <2>2. CASE b.parts # {}
    BY <1>4, <1>5, <2>2 DEF Following
  <2> QED
    BY <2>1, <2>2
<1> QED
  BY <1>2, <1>3, <1>5

LEMMA PollLists ==
  ASSUME OneReference, HeldInv, PollTyped, Sorting, ~drains, Listing, Poll
  PROVE  Listing'
<1>1. PICK acc \in SortedTyped : \E expired \in SUBSET Open(acc.buffers) : \E late \in Seq(Incoming) :
         /\ acc = Added(Begun, held)
         /\ ready' = acc.ready \o late
         /\ \A j \in DOMAIN late : \E k \in expired : late[j].id = acc.buffers[k].first
         /\ buffers' = [k \in Keys |-> IF k \in expired THEN Empty ELSE acc.buffers[k]]
  BY PollPlaces
<1>2. PICK expired \in SUBSET Open(acc.buffers), late \in Seq(Incoming) :
         /\ acc = Added(Begun, held)
         /\ ready' = acc.ready \o late
         /\ \A j \in DOMAIN late : \E k \in expired : late[j].id = acc.buffers[k].first
         /\ buffers' = [k \in Keys |-> IF k \in expired THEN Empty ELSE acc.buffers[k]]
  BY <1>1
<1>3. UNCHANGED <<held, sent, rows>>
  BY DEF Poll
<1>4. held \in Seq(Segment) /\ NoneTwice(held) /\ \A s \in Sms : KeyOf(s) \in Keys
  BY WholeIs DEF PollTyped, Sorting
<1>5. Begun \in SortedTyped /\ Followed(held, 0, Begun)
  <2>1. /\ Begun \in Typed /\ Begun.ready = <<>>
        /\ \A k \in Keys : Begun.buffers[k].parts = buffers[k].parts
                           /\ Begun.buffers[k].first = buffers[k].first
    BY BegunTyped DEF PollTyped
  <2>2. Begun \in SortedTyped
    BY <2>1, NoItems DEF SortedTyped, Sorting, Sorted
  <2>3. \A s \in Sms : Size[s] > 1 => Following(held, 0, s, Begun.buffers[KeyOf(s)])
    BY <1>4, <2>1 DEF Listing, Following
  <2> QED
    BY <2>1, <2>2, <2>3 DEF Followed
<1>6. Followed(held, Len(held), acc)
  BY <1>2, <1>4, <1>5, AddedFollows
<1>7. acc.ready \in Seq(Incoming) /\ Sorted(acc.buffers) /\ expired \subseteq Keys
  BY DEF SortedTyped, Typed, Open
<1>8. \A j \in DOMAIN late : Opens(held, late[j].id)
  <2> TAKE j \in DOMAIN late
  <2>1. PICK k \in expired : late[j].id = acc.buffers[k].first
    BY <1>2
  <2>2. k \in Keys /\ acc.buffers[k].parts # {}
    BY DEF Open
  <2>3. PICK x \in acc.buffers[k].parts : x \in Segment /\ Key(x) = k /\ Size[x[1]] > 1
    BY <1>7, <2>2 DEF Sorted
  <2>4. x[1] \in Sms /\ k = KeyOf(x[1])
    BY <2>3, SegmentIs DEF Key, KeyOf
  <2>5. Following(held, Len(held), x[1], acc.buffers[k])
    BY <1>6, <2>3, <2>4 DEF Followed
  <2> QED
    BY <2>1, <2>2, <2>5 DEF Following
<1>9. \A j \in DOMAIN ready' : Opens(held, ready'[j].id)
  <2>1. PICK q, m : q = acc.ready \o late /\ m = Len(acc.ready)
    OBVIOUS
  <2>2. \A j \in DOMAIN q : \/ j \in DOMAIN acc.ready /\ q[j] = acc.ready[j]
                            \/ j - m \in DOMAIN late /\ q[j] = late[j - m]
    BY <1>7, <2>1, ConcatProperties, LenProperties
  <2>3. \A j \in DOMAIN q : Opens(held, q[j].id)
    BY <1>6, <1>8, <2>2 DEF Followed
  <2> QED
    BY <1>2, <2>1, <2>3
<1>10. \A s \in Sms : Size[s] > 1 => Following(held, 0, s, buffers'[KeyOf(s)])
  <2> SUFFICES ASSUME NEW s \in Sms, Size[s] > 1 PROVE Following(held, 0, s, buffers'[KeyOf(s)])
    OBVIOUS
  <2>1. Following(held, Len(held), s, acc.buffers[KeyOf(s)])
    BY <1>6 DEF Followed
  <2>2. buffers'[KeyOf(s)] = IF KeyOf(s) \in expired THEN Empty ELSE acc.buffers[KeyOf(s)]
    BY <1>2, <1>4
  <2> QED
    BY <1>4, <2>1, <2>2, FollowsAgain
<1> QED
  BY <1>3, <1>9, <1>10 DEF Listing

LEMMA NextListing ==
  ASSUME OneReference, HeldInv, PollTyped, RowsTyped, Sorting, ~drains, Listing, [Next]_vars
  PROVE  Listing'
<1> USE DEF providerVars, pollVars, reportVars
<1>1. ASSUME ~StoreItem
      PROVE  /\ DOMAIN rows' = DOMAIN rows
             /\ \A i \in DOMAIN rows : rows'[i].id = rows[i].id
  BY <1>1, RowsKept
<1>2. CASE UNCHANGED <<sent, held, buffers, ready>> /\ ~StoreItem
  BY <1>1, <1>2 DEF Listing
<1>3. CASE \E x \in Segment : Arrive(x)
  <2>1. PICK x \in Segment : Arrive(x)
    BY <1>3
  <2>2. PICK h \in Seq(Segment) : h = held
    BY DEF PollTyped
  <2>3. sent' = sent \cup {x} /\ held' = Append(h, x) /\ UNCHANGED <<buffers, ready, rows>>
    BY <2>1, <2>2 DEF Arrive
  <2>4. ToSet(held') = sent'
    BY <2>2, <2>3, ListingGrows DEF Listing
  <2>5. /\ \A s, b : Following(h, 0, s, b) => Following(held', 0, s, b)
        /\ \A y : Opens(h, y) => Opens(held', y)
    BY <2>3, FollowingGrows
  <2> QED
    BY <2>2, <2>3, <2>4, <2>5 DEF Listing
<1>4. CASE Poll
  BY <1>4, PollLists
<1>5. ASSUME NextItem, pc = "storing"
      PROVE  /\ UNCHANGED <<sent, held, buffers>> /\ Opens(held, Head(ready).id)
             /\ \A i \in DOMAIN ready' : Opens(held, ready'[i].id)
  <2>1. ready # <<>> /\ ready \in Seq(Incoming) /\ ready' = Tail(ready)
    BY <1>5 DEF NextItem, PollTyped
  <2>2. /\ \A i \in DOMAIN ready' : i + 1 \in DOMAIN ready /\ ready'[i] = ready[i + 1]
        /\ 1 \in DOMAIN ready /\ Head(ready) = ready[1]
    BY <2>1, WithinRest
  <2> QED
    BY <1>5, <2>2 DEF NextItem, Listing
<1>6. CASE StoreItem
  <2>1. PICK n : n = Len(rows) + 1
    OBVIOUS
  <2>2. /\ DOMAIN rows' = DOMAIN rows \cup {n} /\ n \notin DOMAIN rows
        /\ \A i \in DOMAIN rows : rows'[i] = rows[i]
        /\ rows'[n].id = Head(ready).id
    BY <1>6, <2>1, RowStored
  <2>3. Head(ready).id \in WithId => \A i \in DOMAIN rows : rows[i].id # Head(ready).id
    BY <1>6 DEF StoreItem, Duplicate
  <2>4. \A i, j \in DOMAIN rows' :
          i # j /\ rows'[i].id \in WithId => rows'[i].id # rows'[j].id
    BY <2>2, <2>3 DEF Listing
  <2>5. NextItem /\ pc = "storing"
    BY <1>6 DEF StoreItem
  <2>6. \A i \in DOMAIN rows' : Opens(held, rows'[i].id)
    BY <1>5, <2>2, <2>5 DEF Listing
  <2> QED
    BY <1>5, <2>4, <2>5, <2>6 DEF Listing
<1>7. CASE (SkipItem \/ StoreFails) /\ UNCHANGED rows
  <2>1. NextItem /\ pc = "storing"
    BY <1>7 DEF SkipItem, StoreFails
  <2> QED
    BY <1>5, <1>7, <2>1 DEF Listing
<1>8. CASE LookupFails
  BY <1>8, EmptySeq DEF LookupFails, Listing
<1>9. CASE Crash
  <2>1. /\ UNCHANGED <<sent, held, rows>> /\ ready' = <<>>
        /\ buffers' = [k \in Keys |-> Empty]
    BY <1>9 DEF Crash
  <2>2. \A s \in Sms : Following(held, 0, s, Empty) /\ KeyOf(s) \in Keys
    BY FollowsAgain, WholeIs DEF PollTyped
  <2>3. \A s \in Sms : Following(held, 0, s, buffers'[KeyOf(s)])
    BY <2>1, <2>2
  <2> QED
    BY <2>1, <2>3, EmptySeq DEF Listing
<1>10. CASE Report /\ ~StoreItem
  <2>1. UNCHANGED <<sent, held, buffers, ready>>
    BY <1>10 DEF Report, BeginReport, PostReport, PostFails, MarkProcessed, EndReport, MarkFails
  <2> QED
    BY <1>2, <1>10, <2>1
<1>11. CASE (UNCHANGED vars \/ Start) /\ ~StoreItem
  BY <1>2, <1>11 DEF vars, Start
<1> QED
  BY <1>3, <1>4, <1>6, <1>7, <1>8, <1>9, <1>10, <1>11
     DEF Next, Store, SkipItem, StoreFails

-----------------------------------------------------------------------------
(* Texts are whole, and none is lost.                                      *)

WholeInv ==
  /\ HeldInv /\ PollTyped /\ RowsTyped /\ Sorting
  /\ drains => InOnePlace
  /\ ~drains => Listing

LEMMA WholeAtFirst == Init => WholeInv
<1> SUFFICES ASSUME Init PROVE WholeInv
  OBVIOUS
<1>1. /\ sent = {} /\ held = <<>> /\ ready = <<>> /\ rows = <<>> /\ faults = 0
      /\ buffers = [k \in Keys |-> Empty]
  BY DEF Init
<1>2. HeldInv /\ PollTyped /\ RowsTyped
  BY HeldAtFirst, TypedAtFirst
<1>3. Sorting
  BY <1>1, NoItems, NothingBuffered DEF Sorting
<1>4. InOnePlace
  BY <1>1, NoItems, NothingBuffered DEF InOnePlace, Apart
<1>5. Listing
  <2>1. \A s \in Sms : Following(held, 0, s, Empty) /\ KeyOf(s) \in Keys
    BY <1>2, FollowsAgain, WholeIs DEF PollTyped
  <2>2. \A s \in Sms : Following(held, 0, s, buffers[KeyOf(s)])
    BY <1>1, <2>1
  <2> QED
    BY <1>1, <2>2, NoItems DEF Listing
<1> QED
  BY <1>2, <1>3, <1>4, <1>5 DEF WholeInv

LEMMA WholePreserved == ASSUME OneReference PROVE WholeInv /\ [Next]_vars => WholeInv'
<1> SUFFICES ASSUME WholeInv, [Next]_vars PROVE WholeInv'
  OBVIOUS
<1>1. HeldInv /\ PollTyped /\ RowsTyped /\ Sorting
  BY DEF WholeInv
<1>2. HeldInv'
  BY <1>1, HeldPreserved
<1>3. PollTyped'
  BY <1>1, NextPollTyped
<1>4. RowsTyped'
  BY <1>1, NextRowsTyped
<1>5. Sorting'
  BY <1>1, NextSorting
<1>6. drains' = drains
  BY DEF Next, Arrive, Poll, Store, SkipItem, StoreItem, StoreFails, LookupFails, NextItem, Report,
     BeginReport, PostReport, PostFails, MarkProcessed, EndReport, MarkFails, Crash, Start, vars,
     providerVars
<1>7. CASE drains
  <2>1. InOnePlace'
    BY <1>1, <1>7, NextInOnePlace DEF WholeInv
  <2> QED
    BY <1>2, <1>3, <1>4, <1>5, <1>6, <1>7, <2>1 DEF WholeInv
<1>8. CASE ~drains
  <2>1. Listing'
    BY <1>1, <1>8, NextListing DEF WholeInv
  <2> QED
    BY <1>2, <1>3, <1>4, <1>5, <1>6, <1>8, <2>1 DEF WholeInv
<1> QED
  BY <1>7, <1>8

\* Rows of one message begin with the same segment.
LEMMA RowsAreApart ==
  ASSUME WholeInv, NEW i \in DOMAIN rows, NEW j \in DOMAIN rows, i # j,
         drains \/ rows[i].id \in WithId
  PROVE  rows[i].parts \cap rows[j].parts = {}
<1>1. CASE drains
  BY <1>1 DEF WholeInv, InOnePlace, Disjoint
<1>2. CASE ~drains
  <2> SUFFICES ASSUME NEW z \in rows[i].parts, z \in rows[j].parts PROVE FALSE
    OBVIOUS
  <2>1. PICK x, y, h : x = rows[i].id /\ y = rows[j].id /\ h = held
    OBVIOUS
  <2>2. x[1] = y[1]
    BY <2>1 DEF WholeInv, Sorting, OfOne
  <2>3. Opens(h, x) /\ Opens(h, y) /\ x # y /\ DOMAIN h = 1..Len(h)
    BY <1>2, <2>1, ListingIs DEF WholeInv, Listing, PollTyped
  <2>4. PICK k \in DOMAIN h : h[k] = x /\ \A n \in 1..(k - 1) : h[n][1] # x[1]
    BY <2>3 DEF Opens
  <2>5. PICK l \in DOMAIN h : h[l] = y /\ \A n \in 1..(l - 1) : h[n][1] # y[1]
    BY <2>3 DEF Opens
  <2>6. k \in Int /\ l \in Int /\ k >= 1 /\ l >= 1 /\ k # l
    BY <2>3, <2>4, <2>5
  <2>7. k \in 1..(l - 1) \/ l \in 1..(k - 1)
    BY <2>6
  <2> QED
    BY <2>2, <2>4, <2>5, <2>7
<1> QED
  BY <1>1, <1>2

\* What a customer wrote is stored as it was written: no segment is in two rows, however
\* often the provider lists it and whatever restarts and timeouts come in between, unless
\* a provider that lists again gave the first of the row no id; and no row mixes two
\* messages, as long as a sender's long messages differ in the reference their segments
\* carry (poll_incoming_messages, add_message, save_message); and one customer's text is
\* never reported as another's (reassemble_stored_messages).
THEOREM TextsAreKeptWhole == ASSUME OneReference PROVE Spec => []TextsAreWhole
<1>1. Init => WholeInv
  BY WholeAtFirst
<1>2. WholeInv /\ [Next]_vars => WholeInv'
  BY WholePreserved
<1>3. WholeInv /\ TextsStayApart => TextsAreWhole
  <2> SUFFICES ASSUME WholeInv, TextsStayApart PROVE TextsAreWhole
    OBVIOUS
  <2>1. \A i, j \in DOMAIN rows :
          i # j /\ (drains \/ rows[i].id \in WithId) => rows[i].parts \cap rows[j].parts = {}
    BY RowsAreApart
  <2>2. \A i \in DOMAIN rows : \A x, y \in rows[i].parts : x[1] = y[1]
    BY DEF WholeInv, Sorting, OfOne
  <2> QED
    BY <2>1, <2>2 DEF TextsAreWhole
<1> QED
  BY <1>1, <1>2, <1>3, SendersStayApart, PTL DEF Spec

\* Without a fault every segment that reached the provider is still with it, in a buffer,
\* ready or in a row, whichever kind of provider it is and whatever buffers time out
\* (reassembler.py:154, base.py:58), under the same assumption.
THEOREM NothingIsDropped == ASSUME OneReference PROVE Spec => []NothingDroppedQuietly
<1>1. Init => WholeInv
  BY WholeAtFirst
<1>2. WholeInv /\ [Next]_vars => WholeInv'
  BY WholePreserved
<1>3. WholeInv => NothingDroppedQuietly
  <2> SUFFICES ASSUME WholeInv, faults = 0, NEW x \in sent
               PROVE  \/ x \in ToSet(held)
                      \/ \E k \in Keys : x \in buffers[k].parts
                      \/ \E i \in DOMAIN ready : x \in ready[i].parts
                      \/ \E i \in DOMAIN rows : x \in rows[i].parts
    BY DEF NothingDroppedQuietly
  <2>1. CASE drains
    <3>1. x \in ToSet(held) \/ x \in Buffered(buffers) \/ x \in Within(ready) \/ x \in Within(rows)
      BY <2>1 DEF WholeInv, InOnePlace
    <3> QED
      BY <3>1 DEF Buffered, Within
  <2>2. CASE ~drains
    BY <2>2 DEF WholeInv, Listing
  <2> QED
    BY <2>1, <2>2
<1> QED
  BY <1>1, <1>2, <1>3, PTL DEF Spec

-----------------------------------------------------------------------------
(* One customer's segments, whatever references they carry.                *)

OneSenders(items) ==
  \A i \in DOMAIN items : \A x \in items[i].parts : Sender[x[1]] = Sender[items[i].id[1]]

Keyed(bs) ==
  \A k \in Keys : /\ \A x \in bs[k].parts : Key(x) = k
                  /\ bs[k].parts # {} => Key(bs[k].first) = k

KeyedTyped == {acc \in Typed : Keyed(acc.buffers) /\ OneSenders(acc.ready)}

LEMMA SameKeySameSender ==
  ASSUME NEW x, NEW y, Key(x) = Key(y)
  PROVE  Sender[x[1]] = Sender[y[1]]
BY DEF Key

LEMMA SendersAppended ==
  ASSUME NEW U, NEW q \in Seq(U), NEW it \in U, OneSenders(q),
         \A x \in it.parts : Sender[x[1]] = Sender[it.id[1]]
  PROVE  OneSenders(Append(q, it))
BY ItemAppended DEF OneSenders

LEMMA AddMessageKeyed ==
  ASSUME NEW acc \in KeyedTyped, NEW x \in Segment
  PROVE  AddMessage(acc, x) \in KeyedTyped
<1> DEFINE b == acc.buffers[Key(x)]
<1>1. PICK after : after = AddMessage(acc, x)
  OBVIOUS
<1>2. /\ acc \in Typed /\ acc.buffers \in [Keys -> Buffer] /\ acc.ready \in Seq(Incoming)
      /\ Keyed(acc.buffers) /\ OneSenders(acc.ready) /\ Key(x) \in Keys
  BY SegmentIs DEF KeyedTyped, Typed
<1>3. /\ after \in Typed
      /\ Alone(acc, x, after) \/ Fills(acc, x, after) \/ Joins(acc, x, after)
  BY <1>1, <1>2, AddMessageCases, AddMessageTyped
<1>4. /\ \A y \in Joined(b, x) : Key(y) = Key(x)
      /\ Key(FirstOf(b, x)) = Key(x)
  BY <1>2 DEF Keyed, Joined, FirstOf
<1>5. b.parts \subseteq Segment /\ (b.parts # {} => b.first \in Segment) /\ x[2] <= Size[x[1]]
  <2>1. x[2] \in 1..Size[x[1]] /\ Size[x[1]] \in Nat
    BY SegmentIs
  <2> QED
    BY <1>2, <2>1 DEF Typed, BuffersTyped, Buffer, Open
<1>6. CASE Alone(acc, x, after)
  <2> DEFINE it == [id |-> x, parts |-> {x}]
  <2>1. it \in Incoming /\ \A y \in it.parts : Sender[y[1]] = Sender[it.id[1]]
    BY DEF Incoming
  <2>2. after.ready = Append(acc.ready, it) /\ after.buffers = acc.buffers
    BY <1>6 DEF Alone
  <2> HIDE DEF it
  <2>3. OneSenders(after.ready)
    BY <1>2, <2>1, <2>2, SendersAppended
  <2> QED
    BY <1>1, <1>2, <1>3, <2>2, <2>3 DEF KeyedTyped
<1>7. CASE Fills(acc, x, after)
  <2> DEFINE it == [id    |-> FirstOf(b, x),
                    parts |-> {y \in Joined(b, x) : y[2] <= Size[x[1]]}]
  <2>1. it \in Incoming
    BY <1>5 DEF Incoming, Joined, FirstOf
  <2>2. \A y \in it.parts : Sender[y[1]] = Sender[it.id[1]]
    BY <1>4, SameKeySameSender
  <2>3. after.ready = Append(acc.ready, it) /\ after.buffers = [acc.buffers EXCEPT ![Key(x)] = Empty]
    BY <1>7 DEF Fills
  <2> HIDE DEF it
  <2>4. OneSenders(after.ready)
    BY <1>2, <2>1, <2>2, <2>3, SendersAppended
  <2>5. Keyed(after.buffers)
    BY <1>2, <2>3 DEF Keyed, Empty
  <2> QED
    BY <1>1, <1>3, <2>4, <2>5 DEF KeyedTyped
<1>8. CASE Joins(acc, x, after)
  <2> DEFINE c == [first |-> FirstOf(b, x), parts |-> Joined(b, x), fresh |-> b.fresh \/ b.parts = {}]
  <2>1. after.ready = acc.ready /\ after.buffers = [acc.buffers EXCEPT ![Key(x)] = c]
    BY <1>8 DEF Joins
  <2>2. (\A y \in c.parts : Key(y) = Key(x)) /\ Key(c.first) = Key(x)
    BY <1>4
  <2> HIDE DEF c, b
  <2>3. Keyed(after.buffers)
    BY <1>2, <2>1, <2>2 DEF Keyed
  <2> QED
    BY <1>1, <1>2, <1>3, <2>1, <2>3 DEF KeyedTyped
<1> QED
  BY <1>3, <1>6, <1>7, <1>8

LEMMA AddedKeyed ==
  ASSUME NEW base \in KeyedTyped, NEW s \in Seq(Segment)
  PROVE  Added(base, s) \in KeyedTyped
<1> DEFINE Good == Nat \X KeyedTyped
<1>1. PICK n \in Nat : n = Len(s) /\ DOMAIN s = 1..n /\ \A i \in 1..n : s[i] \in Segment
  BY ListingIs
<1>2. \A i \in 1..n : \A a : <<i - 1, a>> \in Good => <<i, AddMessage(a, s[i])>> \in Good
  BY <1>1, AddMessageKeyed
<1>3. <<0, base>> \in Good
  OBVIOUS
<1> HIDE DEF Good
<1>4. <<n, Added(base, s)>> \in Good
  BY <1>1, <1>2, <1>3, FoldKeeps, Z3T(60)
<1> QED
  BY <1>4 DEF Good

KeyInv == Keyed(buffers) /\ OneSenders(ready) /\ OneSenders(rows)

LEMMA PollKeyed ==
  ASSUME PollTyped, KeyInv, Poll
  PROVE  KeyInv'
<1>1. PICK acc \in Typed : \E expired \in SUBSET Open(acc.buffers) :
        \E late \in SetToSeqs(Released(acc.buffers, expired)) :
          /\ acc = Added(Begun, held)
          /\ ready' = acc.ready \o late
          /\ buffers' = [k \in Keys |-> IF k \in expired THEN Empty ELSE acc.buffers[k]]
  BY PollSteps DEF PollTyped
<1>2. PICK expired \in SUBSET Open(acc.buffers) :
        \E late \in SetToSeqs(Released(acc.buffers, expired)) :
          /\ acc = Added(Begun, held)
          /\ ready' = acc.ready \o late
          /\ buffers' = [k \in Keys |-> IF k \in expired THEN Empty ELSE acc.buffers[k]]
  BY <1>1
<1>3. PICK late \in SetToSeqs(Released(acc.buffers, expired)) :
        /\ acc = Added(Begun, held)
        /\ ready' = acc.ready \o late
        /\ buffers' = [k \in Keys |-> IF k \in expired THEN Empty ELSE acc.buffers[k]]
  BY <1>2
<1>4. Begun \in KeyedTyped
  <2>1. /\ Begun \in Typed /\ Begun.ready = <<>>
        /\ \A k \in Keys : Begun.buffers[k].parts = buffers[k].parts
                           /\ Begun.buffers[k].first = buffers[k].first
    BY BegunTyped DEF PollTyped
  <2> QED
    BY <2>1, EmptySeq DEF KeyedTyped, KeyInv, Keyed, OneSenders
<1>5. acc \in KeyedTyped
  BY <1>3, <1>4, AddedKeyed DEF PollTyped
<1>6. /\ acc.ready \in Seq(Incoming) /\ Keyed(acc.buffers) /\ OneSenders(acc.ready)
      /\ late \in Seq(Incoming)
      /\ \A j \in DOMAIN late : \E k \in expired :
           late[j].id = acc.buffers[k].first /\ late[j].parts = acc.buffers[k].parts
  BY <1>5, LateAre DEF KeyedTyped, Typed
<1>7. OneSenders(late)
  <2> SUFFICES ASSUME NEW j \in DOMAIN late, NEW x \in late[j].parts
               PROVE  Sender[x[1]] = Sender[late[j].id[1]]
    BY DEF OneSenders
  <2>1. PICK k \in expired : late[j].id = acc.buffers[k].first /\ late[j].parts = acc.buffers[k].parts
    BY <1>6
  <2>2. Key(x) = k /\ Key(late[j].id) = k
    BY <1>6, <2>1 DEF Keyed, Open
  <2> QED
    BY <2>2, SameKeySameSender
<1>8. OneSenders(ready')
  <2>1. PICK q, m : q = acc.ready \o late /\ m = Len(acc.ready)
    OBVIOUS
  <2>2. \A j \in DOMAIN q : \/ j \in DOMAIN acc.ready /\ q[j] = acc.ready[j]
                            \/ j - m \in DOMAIN late /\ q[j] = late[j - m]
    BY <1>6, <2>1, ConcatProperties, LenProperties
  <2>3. OneSenders(q)
    BY <1>6, <1>7, <2>2 DEF OneSenders
  <2> QED
    BY <1>3, <2>1, <2>3
<1>9. Keyed(buffers')
  BY <1>3, <1>6 DEF Keyed, Empty
<1> QED
  BY <1>8, <1>9 DEF Poll, KeyInv

\* A row has the segments of one customer, the one it is reported under, also where two of
\* that customer's messages share a reference and are taken for one (the buffer key of
\* add_message begins with the sender).
THEOREM RowsAreOneCustomers ==
  Spec => [](\A i \in DOMAIN rows : \A x \in rows[i].parts : Sender[x[1]] = SenderOf(i))
<1> DEFINE Inv == HeldInv /\ PollTyped /\ RowsTyped /\ KeyInv
<1>1. Init => Inv
  <2>1. Init => KeyInv
    BY EmptyBuffers, EmptySeq DEF Init, KeyInv, Keyed, OneSenders
  <2> QED
    BY <2>1, HeldAtFirst, TypedAtFirst
<1>2. Inv /\ [Next]_vars => Inv'
  <2> SUFFICES ASSUME Inv, [Next]_vars PROVE KeyInv'
    BY HeldPreserved, NextPollTyped, NextRowsTyped
  <2> USE DEF providerVars, pollVars, reportVars
  <2>1. ASSUME ~StoreItem PROVE OneSenders(rows')
    <3>1. PICK q, r : q = rows /\ r = rows'
      OBVIOUS
    <3>2. /\ DOMAIN r = DOMAIN q
          /\ \A i \in DOMAIN q : r[i].id = q[i].id /\ r[i].parts = q[i].parts
      BY <2>1, <3>1, RowsKept
    <3>3. OneSenders(r)
      BY <3>1, <3>2 DEF KeyInv, OneSenders
    <3> QED
      BY <3>1, <3>3
  <2>2. CASE Poll
    BY <2>2, PollKeyed
  <2>3. ASSUME NextItem, pc = "storing"
        PROVE  /\ OneSenders(ready') /\ Keyed(buffers') /\ Head(ready) \in Incoming
               /\ \A x \in Head(ready).parts : Sender[x[1]] = Sender[Head(ready).id[1]]
    <3>1. ready # <<>> /\ ready \in Seq(Incoming) /\ ready' = Tail(ready) /\ UNCHANGED buffers
      BY <2>3 DEF NextItem, PollTyped
    <3>2. PICK q, r, h : q = ready /\ r = ready' /\ h = Head(ready)
      OBVIOUS
    <3>3. /\ \A i \in DOMAIN r : i + 1 \in DOMAIN q /\ r[i] = q[i + 1]
          /\ 1 \in DOMAIN q /\ h = q[1]
      BY <3>1, <3>2, WithinRest
    <3>4. h \in Incoming
      BY <3>1, <3>2, HeadTailProperties
    <3>5. OneSenders(r) /\ \A x \in h.parts : Sender[x[1]] = Sender[h.id[1]]
      BY <3>2, <3>3 DEF KeyInv, OneSenders
    <3> QED
      BY <3>1, <3>2, <3>4, <3>5 DEF KeyInv
  <2>4. CASE StoreItem
    <3>1. PICK item, q : item = Head(ready) /\ q = rows
      OBVIOUS
    <3> DEFINE r == [id |-> item.id, parts |-> item.parts, status |-> "received"]
    <3>2. rows' = Append(q, r) /\ NextItem /\ pc = "storing"
      BY <2>4, <3>1 DEF StoreItem
    <3>3. /\ r \in StoredRow /\ q \in Seq(StoredRow) /\ OneSenders(q)
          /\ \A x \in r.parts : Sender[x[1]] = Sender[r.id[1]]
      BY <2>3, <3>1, <3>2, RowsAreStored DEF Incoming, StoredRow, KeyInv
    <3> HIDE DEF r
    <3>4. OneSenders(rows')
      BY <3>2, <3>3, SendersAppended
    <3> QED
      BY <2>3, <3>2, <3>4 DEF KeyInv
  <2>5. CASE LookupFails \/ Crash
    <3>1. Keyed([k \in Keys |-> Empty]) /\ OneSenders(<<>>)
      BY EmptyBuffers, EmptySeq DEF Keyed, OneSenders
    <3>2. ~StoreItem
      BY <2>5 DEF LookupFails, Crash, StoreItem, NextItem, Fault, RowsTyped
    <3> QED
      BY <2>1, <2>5, <3>1, <3>2 DEF LookupFails, Crash, KeyInv
  <2>6. CASE (SkipItem \/ StoreFails) /\ ~StoreItem
    BY <2>1, <2>3, <2>6 DEF SkipItem, StoreFails, KeyInv
  <2>7. CASE ~StoreItem /\ UNCHANGED <<buffers, ready>>
    BY <2>1, <2>7 DEF KeyInv
  <2>8. CASE (\E x \in Segment : Arrive(x)) \/ Report \/ Start \/ UNCHANGED vars
    BY <2>4, <2>7, <2>8 DEF Arrive, Report, BeginReport, PostReport, PostFails, MarkProcessed,
       EndReport, MarkFails, Start, vars
  <2> QED
    BY <2>2, <2>4, <2>5, <2>6, <2>8 DEF Next, Store
<1>3. Inv => \A i \in DOMAIN rows : \A x \in rows[i].parts : Sender[x[1]] = SenderOf(i)
  BY DEF KeyInv, OneSenders, SenderOf
<1> QED
  BY <1>1, <1>2, <1>3, PTL DEF Spec

=============================================================================
