--------------------------- MODULE AiService_proofs ---------------------------
(***************************************************************************)
(* Theorems about the AI parts of the server, checked by TLAPS: the budget *)
(* (AiBudget), the records of the maintenance runs (AiRunHistory) and the  *)
(* AI of the writes (AiWrites), as parts of MCAiService.                   *)
(***************************************************************************)
EXTENDS MCAiService, FiniteSetTheorems, TLAPS, Sequences

------------------------------------------------------------------------------
(* The budget.  Every ledger in memory or on disk has charged what its day   *)
(* has cost or will cost.                                                    *)

\* A ledger that the next process accepts: a call's ID is the number of calls
\* before it, and each pending call has its reservation.
Sane(l) ==
    /\ l.calls = l.next
    /\ l.pending \subseteq 1 .. l.next
    /\ ValidLedger(l)

\* The call in flight is on record, in memory and on disk.
CallInv ==
    call # NoCall =>
        /\ call.stage \in {"reserved", "sent"}
        /\ ledger = disk
        /\ call.day = ledger.day /\ call.day \in Days
        /\ call.id \in ledger.pending
        /\ call.stage = "sent" => Reservation <= spent[call.day]

\* What a call that may still be dispatched will cost on a day.
Due(day) == IF call.stage = "reserved" /\ call.day = day THEN Reservation ELSE 0
DueCalls(day) == IF call.stage = "reserved" /\ call.day = day THEN 1 ELSE 0

\* Ledger l has charged whatever its day has cost or will cost.
Charged(l) ==
    l.day \in Days =>
        /\ spent[l.day] + Due(l.day) <= l.tokens
        /\ sent[l.day] + DueCalls(l.day) <= l.calls

\* Nothing was dispatched on a day before the disk had a ledger of that day.
DiskInv ==
    /\ disk.day <= ledger.day
    /\ \A day \in Days : day > disk.day => spent[day] = 0 /\ sent[day] = 0

\* A closed day is used up in every ledger that is not of a later day.
ClosedIn(l, day) == day <= l.day /\ (l.day = day => l.tokens = DailyTokens)

OverrunInv ==
    \A day \in overrun :
        /\ ClosedIn(ledger, day) /\ ClosedIn(disk, day)
        /\ call # NoCall => call.day # day

\* The inductive invariant.
IInv ==
    /\ TypeOK
    /\ Sane(ledger) /\ Sane(disk)
    /\ CallInv
    /\ Charged(ledger) /\ Charged(disk)
    /\ DiskInv
    /\ SpendWithinLimit
    /\ OverrunInv

------------------------------------------------------------------------------
(* What the operations on a ledger do. *)

LEMMA Distribute ==
  ASSUME NEW n \in Nat, NEW r \in Nat
  PROVE  (n + 1) * r = n * r + r /\ n * r \in Nat
OBVIOUS

LEMMA PendingIsFinite ==
  ASSUME NEW l \in Ledgers
  PROVE  IsFiniteSet(l.pending) /\ Cardinality(l.pending) \in Nat
<1>1. IsFiniteSet(CallIds)
  BY FS_Interval, LimitsAssumption DEF CallIds
<1>2. l.pending \subseteq CallIds
  BY DEF Ledgers
<1>3. IsFiniteSet(l.pending)
  BY <1>1, <1>2, FS_Subset
<1>4. QED
  BY <1>3, FS_CardinalityType

LEMMA FreshIsSane ==
  ASSUME NEW day \in 0 .. LastDay
  PROVE  Fresh(day) \in Ledgers /\ Sane(Fresh(day)) /\ ~Exhausted(Fresh(day))
<1>1. Cardinality({}) = 0
  BY FS_EmptySet
<1>2. QED
  BY <1>1, LimitsAssumption
     DEF Fresh, Ledgers, Sane, ValidLedger, Exhausted, CallIds

\* A reservation is charged, and on the list, before the call is made.
LEMMA ReserveCharges ==
  ASSUME NEW l \in Ledgers, Sane(l), ~Exhausted(l)
  PROVE  /\ Reserve(l) \in Ledgers
         /\ Sane(Reserve(l))
         /\ Reserve(l).day = l.day
         /\ Reserve(l).calls = l.calls + 1
         /\ Reserve(l).tokens = l.tokens + Reservation
         /\ Reserve(l).next \in Reserve(l).pending
<1> DEFINE m == Reserve(l)
           c == Cardinality(l.pending)
<1>1. /\ l.day \in 0 .. LastDay /\ l.calls \in Nat /\ l.next \in Nat
      /\ l.tokens \in Nat /\ l.pending \subseteq CallIds
      /\ l.calls < DailyCalls /\ l.tokens + Reservation <= DailyTokens
  BY LimitsAssumption DEF Ledgers, Exhausted
<1>2. /\ m.day = l.day /\ m.calls = l.calls + 1 /\ m.next = l.next + 1
      /\ m.tokens = l.tokens + Reservation
      /\ m.pending = l.pending \cup {l.next + 1}
  BY DEF Reserve, Ledgers
<1>3. c \in Nat /\ c <= l.calls /\ c * Reservation <= l.tokens
  BY PendingIsFinite DEF Sane, ValidLedger
<1>4. l.pending \subseteq 1 .. l.next /\ l.calls = l.next
  BY DEF Sane
<1>5. Cardinality(m.pending) = c + 1
  <2>1. l.next + 1 \notin l.pending
    BY <1>1, <1>4
  <2>2. QED
    BY <1>2, <2>1, PendingIsFinite, FS_AddElement
<1>6. (c + 1) * Reservation = c * Reservation + Reservation
      /\ c * Reservation \in Nat
  BY <1>3, Distribute, LimitsAssumption
<1>7. ValidLedger(m)
  BY <1>1, <1>2, <1>3, <1>4, <1>5, <1>6, LimitsAssumption DEF ValidLedger
<1>8. m.pending \subseteq 1 .. m.next /\ m.pending \subseteq CallIds
  BY <1>1, <1>2, <1>4, LimitsAssumption DEF CallIds
<1>9. m \in Ledgers
  <2>1. l.next + 1 \in 0 .. DailyCalls /\ l.calls + 1 \in 0 .. DailyCalls
        /\ l.tokens + Reservation \in 0 .. DailyTokens
    BY <1>1, <1>4, LimitsAssumption
  <2>2. l.pending \cup {l.next + 1} \in SUBSET CallIds
    BY <1>2, <1>8
  <2>3. QED
    BY <2>1, <2>2 DEF Reserve, Ledgers
<1>10. QED
  BY <1>1, <1>2, <1>4, <1>7, <1>8, <1>9 DEF Sane

\* A settlement gives back what the call did not use, and no more.
LEMMA SettleReturns ==
  ASSUME NEW l \in Ledgers, Sane(l), NEW id \in l.pending,
         NEW used \in 0 .. Reservation + 1
  PROVE  /\ Settle(l, id, used) \in Ledgers
         /\ Sane(Settle(l, id, used))
         /\ Settle(l, id, used).day = l.day
         /\ Settle(l, id, used).calls = l.calls
         /\ Settle(l, id, used).tokens =
               IF used > Reservation THEN DailyTokens
               ELSE l.tokens - (Reservation - used)
<1> DEFINE m == Settle(l, id, used)
           c == Cardinality(l.pending)
           k == Cardinality(l.pending \ {id})
<1>1. /\ l.day \in 0 .. LastDay /\ l.calls \in 0 .. DailyCalls
      /\ l.next \in 0 .. DailyCalls /\ l.tokens \in 0 .. DailyTokens
      /\ l.pending \subseteq CallIds
  BY DEF Ledgers
<1>2. /\ m.day = l.day /\ m.calls = l.calls /\ m.next = l.next
      /\ m.tokens = IF used > Reservation THEN DailyTokens
                    ELSE l.tokens - (Reservation - used)
      /\ m.pending = l.pending \ {id}
  BY DEF Settle, Ledgers
<1>3. c \in Nat /\ c <= l.calls /\ c * Reservation <= l.tokens
  BY PendingIsFinite DEF Sane, ValidLedger
<1>4. k \in Nat /\ c = k + 1
  <2>1. IsFiniteSet(l.pending \ {id}) /\ k = c - 1
    BY PendingIsFinite, FS_RemoveElement
  <2>2. QED
    BY <1>3, <2>1, FS_CardinalityType
<1>5. c * Reservation = k * Reservation + Reservation
      /\ k * Reservation \in Nat
  BY <1>4, Distribute, LimitsAssumption
<1>6. /\ m.tokens \in 0 .. DailyTokens
      /\ k * Reservation <= m.tokens
  <2>1. CASE used > Reservation
    BY <1>1, <1>2, <1>3, <1>5, <2>1, LimitsAssumption
  <2>2. CASE used <= Reservation
    BY <1>1, <1>2, <1>3, <1>5, <2>2, LimitsAssumption
  <2>3. QED
    BY <2>1, <2>2, LimitsAssumption
<1>7. ValidLedger(m)
  BY <1>1, <1>2, <1>3, <1>4, <1>6, LimitsAssumption DEF Sane, ValidLedger
<1>8. m \in Ledgers
  <2> DEFINE t == IF used > Reservation THEN DailyTokens
                  ELSE l.tokens - (Reservation - used)
  <2>1. t \in 0 .. DailyTokens /\ l.pending \ {id} \in SUBSET CallIds
    BY <1>1, <1>2, <1>6
  <2>2. m = [l EXCEPT !.tokens = t, !.pending = l.pending \ {id}]
    BY DEF Settle
  <2> HIDE DEF t
  <2>3. QED
    BY <2>1, <2>2 DEF Ledgers
<1>9. QED
  BY <1>2, <1>7, <1>8 DEF Sane

\* The ledger of the running process, carried into today.
LEMMA CurrentIsSane ==
  ASSUME IInv, call = NoCall, ledger.day <= today
  PROVE  /\ Current(ledger) \in Ledgers
         /\ Sane(Current(ledger))
         /\ Current(ledger).day = today
         /\ spent[today] <= Current(ledger).tokens
         /\ sent[today] <= Current(ledger).calls
<1>1. today \in Days /\ ledger \in Ledgers
  BY DEF IInv, TypeOK
<1>2. CASE ledger.day = today
  BY <1>1, <1>2 DEF Current, IInv, Charged, Due, DueCalls, NoCall, TypeOK
<1>3. CASE ledger.day # today
  <2>1. Fresh(today) \in Ledgers /\ Sane(Fresh(today))
    BY <1>1, FreshIsSane, LimitsAssumption DEF Days
  <2>2. today > disk.day
    BY <1>1, <1>3, LimitsAssumption DEF IInv, DiskInv, TypeOK, Ledgers, Days
  <2>3. spent[today] = 0 /\ sent[today] = 0
    BY <1>1, <2>2 DEF IInv, DiskInv
  <2>4. QED
    BY <1>3, <2>1, <2>3 DEF Current, Fresh
<1>4. QED
  BY <1>2, <1>3

------------------------------------------------------------------------------
(* Init and every action establish or preserve the invariant. *)

LEMMA InitInv == Init => IInv
<1> SUFFICES ASSUME Init PROVE IInv
  OBVIOUS
<1>1. Fresh(0) \in Ledgers /\ Sane(Fresh(0))
  BY FreshIsSane, LimitsAssumption
<1>2. TypeOK
  BY <1>1, LimitsAssumption DEF Init, TypeOK, Days, NoCall, Calls
<1>3. CallInv /\ OverrunInv
  BY DEF Init, CallInv, OverrunInv
<1>4. Charged(ledger) /\ Charged(disk) /\ DiskInv
  BY LimitsAssumption DEF Init, Charged, DiskInv, Fresh, Days
<1>5. SpendWithinLimit
  BY LimitsAssumption DEF Init, SpendWithinLimit
<1>6. QED
  BY <1>1, <1>2, <1>3, <1>4, <1>5 DEF IInv, Init

\* The day is used up: the ledger is carried into today, no more.
LEMMA RefusedStep ==
  ASSUME IInv, Begin, Exhausted(Current(ledger))
  PROVE  IInv'
<1> DEFINE l == Current(ledger)
<1>1. /\ call = NoCall /\ ledger.day <= today /\ ledger' = l
      /\ UNCHANGED <<today, disk, call, spent, sent, overrun>>
  BY DEF Begin
<1>2. /\ l \in Ledgers /\ Sane(l) /\ l.day = today
      /\ spent[today] <= l.tokens /\ sent[today] <= l.calls
  BY <1>1, CurrentIsSane
<1>3. ledger.day = today
  BY <1>1, FreshIsSane, LimitsAssumption
     DEF Current, IInv, TypeOK, Days
<1>4. ledger' = ledger
  BY <1>1, <1>3 DEF Current
<1>5. QED
  BY <1>1, <1>4
     DEF IInv, TypeOK, Sane, CallInv, Charged, Due, DueCalls, DiskInv,
         SpendWithinLimit, OverrunInv, ClosedIn

\* A call is reserved, in memory at least.
LEMMA ReservedStep ==
  ASSUME IInv, Begin, ~Exhausted(Current(ledger))
  PROVE  IInv'
<1> DEFINE c == Current(ledger)
           l == Reserve(c)
<1>1. /\ call = NoCall /\ ledger.day <= today /\ ledger' = l
      /\ UNCHANGED <<today, spent, sent, overrun>>
  BY DEF Begin
<1>2. PICK ok \in BOOLEAN :
        /\ Write(l, ok)
        /\ call' = IF ok THEN [stage |-> "reserved", day |-> l.day,
                               id |-> l.next]
                         ELSE NoCall
  BY DEF Begin
<1>3. /\ c \in Ledgers /\ Sane(c) /\ c.day = today
      /\ spent[today] <= c.tokens /\ sent[today] <= c.calls
  BY <1>1, CurrentIsSane
<1>4. /\ l \in Ledgers /\ Sane(l) /\ l.day = today
      /\ l.calls = c.calls + 1 /\ l.tokens = c.tokens + Reservation
      /\ l.next \in l.pending
  BY <1>3, ReserveCharges
<1>5. /\ disk' = l \/ (~ok /\ disk' = disk)
  BY <1>2 DEF Write
<1>6. /\ today \in Days /\ ledger \in Ledgers /\ disk \in Ledgers
      /\ spent[today] \in Nat /\ sent[today] \in Nat
  BY DEF IInv, TypeOK
<1>7. /\ c.tokens \in Nat /\ c.calls \in Nat /\ Reservation \in Nat
      /\ l.next \in 0 .. DailyCalls /\ LastDay \in Nat
  BY <1>3, <1>4, LimitsAssumption DEF Ledgers
<1>8. TypeOK'
  <2>1. call' \in Calls
    BY <1>2, <1>4, <1>6, <1>7, LimitsAssumption DEF Calls, NoCall, Days
  <2>2. QED
    BY <1>1, <1>4, <1>5, <2>1 DEF IInv, TypeOK
<1>9. Sane(ledger)' /\ Sane(disk)'
  BY <1>1, <1>4, <1>5 DEF IInv, Sane, ValidLedger
<1>10. CallInv'
  <2>1. CASE ok
    BY <1>1, <1>2, <1>4, <1>5, <1>6, <2>1 DEF CallInv
  <2>2. CASE ~ok
    BY <1>2, <2>2 DEF CallInv
  <2>3. QED
    BY <2>1, <2>2
<1>11. Charged(ledger)'
  BY <1>1, <1>2, <1>3, <1>4, <1>6, <1>7 DEF Charged, Due, DueCalls, NoCall
<1>12. Charged(disk)'
  <2>1. CASE disk' = l
    BY <1>1, <1>11, <2>1 DEF Charged, Due, DueCalls
  <2>2. CASE ~ok /\ disk' = disk
    BY <1>1, <1>2, <2>2 DEF IInv, Charged, Due, DueCalls, NoCall
  <2>3. QED
    BY <1>5, <2>1, <2>2
<1>13. DiskInv'
  <2>1. disk.day \in Nat /\ ledger.day \in Nat /\ disk.day <= ledger.day
        /\ today \in Nat
    BY <1>6, LimitsAssumption DEF Ledgers, Days, IInv, DiskInv
  <2>2. disk.day <= disk'.day /\ disk'.day <= today /\ disk'.day \in Nat
    BY <1>1, <1>4, <1>5, <2>1
  <2>3. ledger'.day = today
    BY <1>1, <1>4
  <2>4. \A day \in Days : day > disk'.day => day > disk.day
    BY <2>1, <2>2, LimitsAssumption DEF Days
  <2>5. QED
    BY <1>1, <2>2, <2>3, <2>4 DEF IInv, DiskInv
<1>14. SpendWithinLimit'
  BY <1>1 DEF IInv, SpendWithinLimit
<1>15. OverrunInv'
  <2>1. SUFFICES ASSUME NEW day \in overrun
                 PROVE  /\ ClosedIn(l, day)
                        /\ call' # NoCall => call'.day # day
    BY <1>1, <1>5 DEF IInv, OverrunInv, ClosedIn
  <2>2. day \in Days /\ ClosedIn(ledger, day)
    BY DEF IInv, TypeOK, OverrunInv
  <2>3. day <= ledger.day /\ day \in Nat /\ ledger.day \in Nat /\ today \in Nat
    BY <1>6, <2>2, LimitsAssumption DEF ClosedIn, Ledgers, Days
  <2>4. day # today
    <3>1. SUFFICES ASSUME day = today PROVE FALSE
      OBVIOUS
    <3>2. ledger.day = today /\ ledger.tokens = DailyTokens
      BY <1>1, <2>2, <2>3, <3>1 DEF ClosedIn
    <3>3. c = ledger
      BY <3>2 DEF Current
    <3>4. QED
      BY <3>2, <3>3, LimitsAssumption DEF Exhausted
  <2>5. QED
    BY <1>1, <1>2, <1>4, <2>3, <2>4 DEF ClosedIn
<1>16. QED
  BY <1>8, <1>9, <1>10, <1>11, <1>12, <1>13, <1>14, <1>15 DEF IInv

\* What was due becomes spent.
LEMMA DispatchStep ==
  ASSUME IInv, Dispatch
  PROVE  IInv'
<1> DEFINE day == call.day
<1>1. /\ call.stage = "reserved" /\ call' = [call EXCEPT !.stage = "sent"]
      /\ spent' = [spent EXCEPT ![day] = @ + Reservation]
      /\ sent' = [sent EXCEPT ![day] = @ + 1]
      /\ UNCHANGED <<today, ledger, disk, overrun>>
  BY DEF Dispatch
<1>2. /\ call # NoCall /\ ledger = disk /\ day = ledger.day /\ day \in Days
      /\ call.id \in ledger.pending
  BY <1>1 DEF IInv, CallInv, NoCall
<1>3. /\ call \in Calls /\ ledger \in Ledgers
      /\ spent \in [Days -> Nat] /\ sent \in [Days -> Nat]
      /\ Reservation \in Nat /\ DailyTokens \in Nat /\ DailyCalls \in Nat
  BY LimitsAssumption DEF IInv, TypeOK
<1>4. /\ call'.stage = "sent" /\ call'.day = day /\ call'.id = call.id
      /\ call' \in Calls
  BY <1>1, <1>3 DEF Calls
<1>5. /\ spent' \in [Days -> Nat] /\ sent' \in [Days -> Nat]
      /\ spent'[day] = spent[day] + Reservation /\ sent'[day] = sent[day] + 1
      /\ \A e \in Days : e # day => spent'[e] = spent[e] /\ sent'[e] = sent[e]
  BY <1>1, <1>2, <1>3
<1>6. spent[day] + Reservation <= ledger.tokens /\ sent[day] + 1 <= ledger.calls
  BY <1>1, <1>2 DEF IInv, Charged, Due, DueCalls
<1>7. ledger.tokens \in 0 .. DailyTokens /\ ledger.calls \in 0 .. DailyCalls
  BY <1>3 DEF Ledgers
<1>8. TypeOK'
  BY <1>1, <1>4, <1>5 DEF IInv, TypeOK
<1>9. Sane(ledger)' /\ Sane(disk)'
  BY <1>1 DEF IInv, Sane, ValidLedger
<1>10. CallInv'
  <2>1. Reservation <= spent'[day]
    BY <1>2, <1>3, <1>5
  <2>2. QED
    BY <1>1, <1>2, <1>4, <2>1 DEF CallInv
<1>11. Charged(ledger)'
  <2>1. spent'[day] + 0 <= ledger.tokens /\ sent'[day] + 0 <= ledger.calls
    BY <1>2, <1>3, <1>5, <1>6, <1>7
  <2>2. QED
    BY <1>1, <1>2, <1>4, <2>1 DEF Charged, Due, DueCalls
<1>12. Charged(disk)'
  BY <1>1, <1>2, <1>11
<1>13. DiskInv'
  <2>1. ~(day > disk.day)
    BY <1>2, <1>3 DEF Ledgers
  <2>2. QED
    BY <1>1, <1>5, <2>1 DEF IInv, DiskInv
<1>14. SpendWithinLimit'
  <2>1. spent'[day] <= DailyTokens /\ sent'[day] <= DailyCalls
    BY <1>2, <1>3, <1>5, <1>6, <1>7
  <2>2. QED
    BY <1>5, <2>1 DEF IInv, SpendWithinLimit
<1>15. OverrunInv'
  BY <1>1, <1>2, <1>4 DEF IInv, OverrunInv, ClosedIn
<1>16. QED
  BY <1>8, <1>9, <1>10, <1>11, <1>12, <1>13, <1>14, <1>15 DEF IInv

\* A call ends without a word on its cost: it keeps its reservation.
LEMMA UnknownStep ==
  ASSUME IInv, call.stage = "sent", call' = NoCall,
         UNCHANGED <<today, ledger, disk, spent, sent, overrun>>
  PROVE  IInv'
<1>1. TypeOK'
  BY LimitsAssumption DEF IInv, TypeOK, NoCall, Calls
<1>2. Charged(ledger)' /\ Charged(disk)'
  BY DEF IInv, Charged, Due, DueCalls, NoCall
<1>3. QED
  BY <1>1, <1>2
     DEF IInv, Sane, ValidLedger, CallInv, DiskInv, SpendWithinLimit,
         OverrunInv, ClosedIn

\* A call is settled, in memory and on disk, on disk only, or nowhere.
LEMMA SettledStep ==
  ASSUME IInv, call # NoCall, call' = NoCall, UNCHANGED <<today, sent>>,
         NEW used \in Used, NEW ok \in BOOLEAN,
         NEW l, l = IF call.id \in ledger.pending
                    THEN Settle(ledger, call.id, used) ELSE ledger,
         Write(l, ok),
         ledger' = IF ok THEN l ELSE ledger,
         overrun' = IF ok /\ used > Reservation
                    THEN overrun \cup {call.day} ELSE overrun,
         spent' = IF call.stage = "sent" /\ used <= Reservation
                  THEN [spent EXCEPT ![call.day] = @ - (Reservation - used)]
                  ELSE spent
  PROVE  IInv'
<1> DEFINE day == call.day
<1>1. /\ call.stage \in {"reserved", "sent"} /\ ledger = disk
      /\ day = ledger.day /\ day \in Days /\ call.id \in ledger.pending
      /\ call.stage = "sent" => Reservation <= spent[day]
  BY DEF IInv, CallInv
<1>2. /\ ledger \in Ledgers /\ Sane(ledger)
      /\ spent \in [Days -> Nat] /\ sent \in [Days -> Nat]
      /\ Reservation \in Nat /\ DailyTokens \in Nat /\ DailyCalls \in Nat
      /\ Reservation <= DailyTokens
  BY LimitsAssumption DEF IInv, TypeOK
<1>3. used \in 0 .. Reservation + 1 /\ (call.stage = "reserved" => used = 0)
  BY <1>2 DEF Used
<1>4. /\ l \in Ledgers /\ Sane(l) /\ l.day = day /\ l.calls = ledger.calls
      /\ l.tokens = IF used > Reservation THEN DailyTokens
                    ELSE ledger.tokens - (Reservation - used)
  BY <1>1, <1>2, <1>3, SettleReturns
<1>5. ledger' \in {l, ledger} /\ disk' \in {l, ledger}
  BY <1>1 DEF Write
<1>6. /\ spent[day] \in Nat /\ sent[day] \in Nat
      /\ ledger.tokens \in 0 .. DailyTokens /\ ledger.calls \in 0 .. DailyCalls
      /\ l.tokens \in 0 .. DailyTokens
  BY <1>1, <1>2, <1>4 DEF Ledgers
<1>7. /\ call.stage = "reserved" => /\ spent[day] + Reservation <= ledger.tokens
                                    /\ sent[day] + 1 <= ledger.calls
      /\ spent[day] <= ledger.tokens /\ sent[day] <= ledger.calls
  BY <1>1, <1>2, <1>6 DEF IInv, Charged, Due, DueCalls
<1>8. /\ spent' \in [Days -> Nat]
      /\ spent'[day] = IF call.stage = "sent" /\ used <= Reservation
                     THEN spent[day] - (Reservation - used) ELSE spent[day]
      /\ \A e \in Days : e # day => spent'[e] = spent[e]
  BY <1>1, <1>2, <1>3, <1>6
<1>9. spent'[day] <= l.tokens /\ spent'[day] <= spent[day] /\ spent'[day] \in Nat
  <2>1. CASE used > Reservation
    BY <1>2, <1>3, <1>4, <1>6, <1>7, <1>8, <2>1
  <2>2. CASE used <= Reservation /\ call.stage = "sent"
    BY <1>1, <1>2, <1>3, <1>4, <1>6, <1>7, <1>8, <2>2
  <2>3. CASE used <= Reservation /\ call.stage = "reserved"
    BY <1>2, <1>3, <1>4, <1>6, <1>7, <1>8, <2>3
  <2>4. QED
    BY <1>1, <1>2, <1>3, <2>1, <2>2, <2>3
<1>10. TypeOK'
  BY <1>1, <1>2, <1>4, <1>5, <1>8, LimitsAssumption
     DEF IInv, TypeOK, NoCall, Calls
<1>11. Sane(ledger)' /\ Sane(disk)'
  BY <1>2, <1>4, <1>5 DEF Sane, ValidLedger
<1>12. CallInv'
  BY DEF CallInv
<1>13. Charged(ledger)' /\ Charged(disk)'
  <2>1. /\ ledger'.day = day /\ spent'[day] <= ledger'.tokens
        /\ sent'[day] <= ledger'.calls
    BY <1>1, <1>4, <1>5, <1>6, <1>7, <1>9
  <2>2. /\ disk'.day = day /\ spent'[day] <= disk'.tokens
        /\ sent'[day] <= disk'.calls
    BY <1>1, <1>4, <1>5, <1>6, <1>7, <1>9
  <2>3. spent'[day] \in Nat /\ sent'[day] \in Nat /\ call'.stage = "none"
    BY <1>6, <1>9 DEF NoCall
  <2>4. QED
    BY <2>1, <2>2, <2>3 DEF Charged, Due, DueCalls
<1>14. DiskInv'
  <2>1. disk'.day = day /\ ledger'.day = day /\ disk.day = day /\ day \in Nat
    BY <1>1, <1>4, <1>5 DEF Days
  <2>2. QED
    BY <1>8, <2>1 DEF IInv, DiskInv, Days
<1>15. SpendWithinLimit'
  <2>1. spent'[day] <= DailyTokens
    BY <1>2, <1>6, <1>9
  <2>2. QED
    BY <1>8, <2>1 DEF IInv, SpendWithinLimit
<1>16. OverrunInv'
  <2>1. SUFFICES ASSUME NEW e \in overrun'
                 PROVE  ClosedIn(ledger', e) /\ ClosedIn(disk', e)
    BY DEF OverrunInv, ClosedIn
  <2>2. CASE e \in overrun
    <3>1. ClosedIn(ledger, e) /\ day # e
      BY <2>2 DEF IInv, OverrunInv
    <3>2. QED
      BY <1>1, <1>4, <1>5, <3>1 DEF ClosedIn
  <2>3. CASE e \notin overrun
    <3>1. ok /\ used > Reservation /\ e = day
      BY <2>3
    <3>2. ledger' = l /\ disk' = l
      BY <3>1 DEF Write
    <3>3. QED
      BY <1>1, <1>4, <3>1, <3>2 DEF ClosedIn, Days
  <2>4. QED
    BY <2>2, <2>3
<1>17. QED
  BY <1>10, <1>11, <1>12, <1>13, <1>14, <1>15, <1>16 DEF IInv

LEMMA FinishStep ==
  ASSUME IInv, Finish
  PROVE  IInv'
<1>1. call # NoCall /\ call' = NoCall /\ UNCHANGED <<today, sent>>
  BY DEF Finish
<1>2. CASE call.stage = "sent" /\ UNCHANGED <<ledger, disk, spent, overrun>>
  BY <1>1, <1>2, UnknownStep
<1>3. CASE ~(call.stage = "sent" /\ UNCHANGED <<ledger, disk, spent, overrun>>)
  <2>1. PICK used \in Used, ok \in BOOLEAN :
          LET l == IF call.id \in ledger.pending
                   THEN Settle(ledger, call.id, used) ELSE ledger
          IN  /\ Write(l, ok)
              /\ ledger' = IF ok THEN l ELSE ledger
              /\ overrun' = IF ok /\ used > Reservation
                            THEN overrun \cup {call.day} ELSE overrun
              /\ spent' = IF call.stage = "sent" /\ used <= Reservation
                          THEN [spent EXCEPT ![call.day] =
                                          @ - (Reservation - used)]
                          ELSE spent
    BY <1>3 DEF Finish
  <2>2. QED
    BY <1>1, <2>1, SettledStep
<1>4. QED
  BY <1>2, <1>3

\* What the process knew beyond the file is lost, and was not needed.
LEMMA RestartStep ==
  ASSUME IInv, Restart
  PROVE  IInv'
<1>1. /\ ledger' = disk /\ call' = NoCall
      /\ UNCHANGED <<today, disk, spent, sent, overrun>>
  BY DEF Restart
<1>2. TypeOK'
  BY <1>1, LimitsAssumption DEF IInv, TypeOK, NoCall, Calls
<1>3. Charged(disk)'
  <2>1. ASSUME disk.day \in Days
        PROVE  spent[disk.day] <= disk.tokens /\ sent[disk.day] <= disk.calls
    <3>1. /\ spent[disk.day] \in Nat /\ sent[disk.day] \in Nat
          /\ disk.tokens \in Nat /\ disk.calls \in Nat /\ Reservation \in Nat
      BY <2>1, LimitsAssumption DEF IInv, TypeOK, Ledgers
    <3>2. QED
      BY <2>1, <3>1 DEF IInv, Charged, Due, DueCalls
  <2>2. \A day \in Days : spent[day] \in Nat /\ sent[day] \in Nat
    BY DEF IInv, TypeOK
  <2>3. QED
    BY <1>1, <2>1, <2>2 DEF Charged, Due, DueCalls, NoCall
<1>4. Charged(ledger)'
  BY <1>1, <1>3 DEF Charged, Due, DueCalls
<1>5. CallInv' /\ OverrunInv'
  BY <1>1 DEF IInv, CallInv, OverrunInv, ClosedIn
<1>6. DiskInv'
  BY <1>1, LimitsAssumption DEF IInv, DiskInv, TypeOK, Ledgers
<1>7. Sane(ledger)' /\ Sane(disk)' /\ SpendWithinLimit'
  BY <1>1 DEF IInv, Sane, ValidLedger, SpendWithinLimit
<1>8. QED
  BY <1>2, <1>3, <1>4, <1>5, <1>6, <1>7 DEF IInv

\* The clock decides nothing about what is on record.
LEMMA ClockStep ==
  ASSUME IInv, today' \in Days,
         UNCHANGED <<ledger, disk, call, spent, sent, overrun>>
  PROVE  IInv'
BY DEF IInv, TypeOK, Sane, ValidLedger, CallInv, Charged, Due, DueCalls,
       DiskInv, SpendWithinLimit, OverrunInv, ClosedIn

LEMMA StepInv == IInv /\ [Next]_vars => IInv'
<1> SUFFICES ASSUME IInv, [Next]_vars PROVE IInv'
  OBVIOUS
<1>1. CASE Begin /\ Exhausted(Current(ledger))  BY <1>1, RefusedStep
<1>2. CASE Begin /\ ~Exhausted(Current(ledger)) BY <1>2, ReservedStep
<1>3. CASE Dispatch                             BY <1>3, DispatchStep
<1>4. CASE Finish                               BY <1>4, FinishStep
<1>5. CASE Restart                              BY <1>5, RestartStep
<1>6. CASE Tick                                 BY <1>6, ClockStep DEF Tick
<1>7. CASE UNCHANGED vars
  BY <1>7, ClockStep DEF vars, IInv, TypeOK
<1>8. QED
  BY <1>1, <1>2, <1>3, <1>4, <1>5, <1>6, <1>7 DEF Next

------------------------------------------------------------------------------
(* The theorems. *)

\* The invariant holds in every state.
THEOREM Invariance == Spec => []IInv
BY InitInv, StepInv, PTL DEF Spec

\* The ledger in memory and the one on disk keep their types and their bounds.
THEOREM TypeCorrect == Spec => []TypeOK
<1>1. IInv => TypeOK
  BY DEF IInv
<1>2. QED
  BY Invariance, <1>1, PTL

\* The calls of a day never cost more than the day allows, and the process
\* can die at any step and the next one accepts the ledger.
THEOREM BudgetIsKept == Spec => []BudgetHolds
<1>1. IInv => BudgetHolds
  BY DEF IInv, BudgetHolds, LedgerLoads, Sane
<1>2. QED
  BY Invariance, <1>1, PTL

\* A day closed by a report beyond the reservation stays closed.
THEOREM ClosedDayStaysClosed == Spec => OverrunClosesDay
<1>1. IInv /\ [Next]_vars => [\A day \in overrun : sent'[day] = sent[day]]_vars
  <2> SUFFICES ASSUME IInv, Next
               PROVE  \A day \in overrun : sent'[day] = sent[day]
    OBVIOUS
  <2>1. CASE Dispatch
    <3>1. call # NoCall /\ call.stage = "reserved"
      BY <2>1 DEF Dispatch, NoCall
    <3>2. \A day \in overrun : day \in Days /\ day # call.day
      BY <3>1 DEF IInv, OverrunInv, TypeOK
    <3>3. QED
      BY <2>1, <3>2 DEF Dispatch, IInv, TypeOK
  <2>2. CASE Begin \/ Finish \/ Restart \/ Tick
    BY <2>2 DEF Begin, Finish, Restart, Tick
  <2>3. QED
    BY <2>1, <2>2 DEF Next
<1>2. QED
  BY Invariance, <1>1, PTL DEF Spec, OverrunClosesDay

------------------------------------------------------------------------------
(* The records of the runs.  The inductive invariant says what a run owns    *)
(* while it runs, whom a recovery may look at, and how what was sent, what   *)
(* was counted and what is on disk follow each other.                        *)

Outcomes == {"none", "ran", "skipped", "failed", "returned", "interrupted"}
Completions == [outcome : Outcomes, attempts : Nat, count : Nat, known : BOOLEAN]
Recorders == [events : Nat, attempts : Nat, failed : BOOLEAN, outcome : Outcomes]
Places == History!Running \cup {"idle", "locked", "overlap", "ended"}

HType ==
    /\ runPc \in [Runs -> Places]
    /\ writer \in Runs \cup {None}
    /\ live \in [Runs -> Runs \cup {None}]
    /\ started \subseteq Runs
    /\ events \in [Runs -> Seq(History!Kinds)]
    /\ done \in [Runs -> Completions]
    /\ recorder \in [Runs -> Recorders]
    /\ todo \in [Runs -> SUBSET Runs]
    /\ target \in [Runs -> Runs \cup {None}]
    /\ runSent \in [Runs -> Nat]
    /\ dead \in [Runs -> SUBSET Runs]
    /\ reader \in [run : Runs \cup {None}, completion : Completions]

\* Who can recover others: the run that has the writer lock, until its sweep.
Recovering == {"recover", "examine", "reread"}
Writing == {"locked", "work", "call"} \cup Recovering

\* What a run owns: nothing is on disk of one that has not begun, and one
\* that runs holds its own lock and has no completion.
OwnInv ==
    \A r \in Runs :
        /\ runPc[r] \in {"idle", "locked", "overlap"} =>
              /\ r \notin started
              /\ events[r] = <<>>
              /\ recorder[r] = History!NoRecorder
              /\ runSent[r] = 0
              /\ ~History!Finished(r)
        /\ runPc[r] \in History!Running => r \in started /\ live[r] = r
        /\ runPc[r] \in Writing => writer = r

\* A recovery looks at other runs that have begun, and completes only one
\* whose lock it holds.
TargetInv ==
    \A r \in Runs :
        /\ todo[r] \subseteq started \ {r}
        /\ target[r] # None => target[r] \in started \ {r}
        /\ runPc[r] \in {"examine", "reread"} => target[r] # None
        /\ runPc[r] = "reread" => live[target[r]] = r

\* The runs that were dead when r listed them are complete, or r has still to
\* look at them and nobody else can lock them.
DeadInv ==
    \A r \in Runs :
        /\ runPc[r] \in {"work", "call"} => \A t \in dead[r] : History!Finished(t)
        /\ runPc[r] \in Recovering =>
              \A t \in dead[r] :
                  \/ History!Finished(t)
                  \/ /\ t \in todo[r] /\ live[t] = None
                  \/ /\ runPc[r] = "examine" /\ t = target[r] /\ live[t] = None
                  \/ /\ runPc[r] = "reread" /\ t = target[r]
        /\ runPc[r] \in Recovering => dead[r] \subseteq started

\* What a run counts covers what it sent, and its event files what it counts.
CountInv ==
    \A r \in Runs :
        /\ runSent[r] <= History!Attempts(events[r])
        /\ History!Finished(r) => runSent[r] <= done[r].attempts
        /\ runPc[r] \in History!Running =>
              /\ runSent[r] <= recorder[r].attempts
              /\ runPc[r] = "call" => runSent[r] + 1 <= recorder[r].attempts
              /\ recorder[r].attempts <= History!Attempts(events[r])
              /\ ~recorder[r].failed => recorder[r].events = Len(events[r])

\* A completion that knows its count has as many event files, and the one a
\* reader holds is the one on disk.
ReadInv ==
    /\ \A r \in Runs :
          History!Finished(r) /\ done[r].known => done[r].count = Len(events[r])
    /\ reader.run # None /\ reader.completion # History!NotDone =>
          reader.completion = done[reader.run]

HInv ==
    /\ HType /\ OwnInv /\ TargetInv /\ DeadInv /\ CountInv /\ ReadInv
    /\ History!LiveRunsAreLeftAlone

------------------------------------------------------------------------------
(* Event files. *)

LEMMA HistoryFacts ==
    None \notin Runs /\ MaxEvents \in Nat
BY PartsAssumption DEF PartsAssumption, History!HistoryAssumption

LEMMA NoEvents ==
    /\ <<>> \in Seq(History!Kinds)
    /\ Len(<<>>) = 0
    /\ History!Attempts(<<>>) = 0
<1>1. {i \in DOMAIN <<>> : <<>>[i] = "attempt"} = {}
  OBVIOUS
<1> QED
  BY <1>1, FS_EmptySet DEF History!Attempts, Cardinality, History!Cardinality

\* One event more, which is an attempt or not.
LEMMA OneEvent ==
    ASSUME NEW s \in Seq(History!Kinds), NEW kind \in History!Kinds
    PROVE  /\ Append(s, kind) \in Seq(History!Kinds)
           /\ Len(Append(s, kind)) = Len(s) + 1
           /\ History!Attempts(s) \in Nat
           /\ History!Attempts(Append(s, kind)) =
                 IF kind = "attempt" THEN History!Attempts(s) + 1
                 ELSE History!Attempts(s)
<1> DEFINE n == Len(s)
           A == {i \in DOMAIN s : s[i] = "attempt"}
           B == {i \in DOMAIN Append(s, kind) : Append(s, kind)[i] = "attempt"}
<1>1. n \in Nat /\ DOMAIN s = 1 .. n
  OBVIOUS
<1>2. /\ Append(s, kind) \in Seq(History!Kinds) /\ Len(Append(s, kind)) = n + 1
      /\ DOMAIN Append(s, kind) = 1 .. n + 1
      /\ \A i \in 1 .. n : Append(s, kind)[i] = s[i]
      /\ Append(s, kind)[n + 1] = kind
  OBVIOUS
<1>3. IsFiniteSet(A)
  <2>1. A \subseteq 1 .. n
    BY <1>1
  <2>2. IsFiniteSet(1 .. n)
    BY <1>1, FS_Interval
  <2> QED
    BY <2>1, <2>2, FS_Subset
<1>4. B = IF kind = "attempt" THEN A \cup {n + 1} ELSE A
  BY <1>1, <1>2
<1>5. n + 1 \notin A
  BY <1>1
<1>6. Cardinality(A) \in Nat
  BY <1>3, FS_CardinalityType
<1>7. Cardinality(A \cup {n + 1}) = Cardinality(A) + 1
  BY <1>3, <1>5, FS_AddElement
<1>8. History!Attempts(s) = Cardinality(A) /\ History!Attempts(Append(s, kind)) = Cardinality(B)
  BY DEF History!Attempts, Cardinality, History!Cardinality
<1> QED
  BY <1>2, <1>4, <1>6, <1>7, <1>8

------------------------------------------------------------------------------
(* Every action keeps the invariant. *)

\* Steps that change no file, no lock and no reader: one run changes its place.
LEMMA HPlaces ==
    ASSUME HInv, NEW r \in Runs, History!Lock(r) \/ History!Return(r)
    PROVE  HInv'
<1>1. CASE History!Lock(r)
  <2>1. /\ UNCHANGED <<live, started, events, done, recorder, todo, target, dead,
                       runSent, reader>>
        /\ runPc[r] = "idle"
        /\ \E l \in {"locked", "overlap"} :
              /\ runPc' = [runPc EXCEPT ![r] = l]
              /\ l = "locked" => writer = None /\ writer' = r
              /\ l = "overlap" => writer' = writer
    BY <1>1 DEF History!Lock, History!Goto, History!recordVars, History!recoveryVars
  <2>2. PICK l \in {"locked", "overlap"} :
              /\ runPc' = [runPc EXCEPT ![r] = l]
              /\ l = "locked" => writer = None /\ writer' = r
              /\ l = "overlap" => writer' = writer
    BY <2>1
  <2>3. /\ runPc'[r] = l /\ \A s \in Runs \ {r} : runPc'[s] = runPc[s]
        /\ runPc' \in [Runs -> Places]
    BY <2>2 DEF HInv, HType, Places
  <2>4. HType'
    BY <2>1, <2>2, <2>3 DEF HInv, HType
  <2>5. OwnInv'
    BY <2>1, <2>2, <2>3, HistoryFacts DEF HInv, OwnInv, History!Running, Writing, Recovering, History!Finished
  <2>6. TargetInv'
    BY <2>1, <2>2, <2>3 DEF HInv, TargetInv
  <2>7. DeadInv'
    BY <2>1, <2>2, <2>3 DEF HInv, DeadInv, Recovering, History!Finished
  <2>8. CountInv' /\ ReadInv' /\ History!LiveRunsAreLeftAlone'
    BY <2>1, <2>2, <2>3 DEF HInv, CountInv, ReadInv, History!LiveRunsAreLeftAlone,
       History!Finished, History!Running, History!Attempts
  <2> QED
    BY <2>4, <2>5, <2>6, <2>7, <2>8 DEF HInv
<1>2. CASE History!Return(r)
  <2>1. /\ UNCHANGED <<writer, live, started, events, done, todo, target, dead,
                       runSent, reader>>
        /\ runPc[r] = "work"
        /\ runPc' = [runPc EXCEPT ![r] = "finish"]
        /\ recorder' = [recorder EXCEPT ![r].outcome = "returned"]
    BY <1>2 DEF History!Return, History!Goto, History!recoveryVars
  <2>2. /\ runPc'[r] = "finish" /\ \A s \in Runs \ {r} : runPc'[s] = runPc[s]
        /\ runPc' \in [Runs -> Places]
    BY <2>1 DEF HInv, HType, Places, History!Running
  <2>3. /\ recorder' \in [Runs -> Recorders]
        /\ \A s \in Runs \ {r} : recorder'[s] = recorder[s]
        /\ recorder'[r].events = recorder[r].events
        /\ recorder'[r].attempts = recorder[r].attempts
        /\ recorder'[r].failed = recorder[r].failed
    BY <2>1 DEF HInv, HType, Recorders, Outcomes
  <2>4. HType'
    BY <2>1, <2>2, <2>3 DEF HInv, HType
  <2>5. OwnInv'
    BY <2>1, <2>2, <2>3 DEF HInv, OwnInv, History!Running, Writing, Recovering, History!Finished
  <2>6. TargetInv'
    BY <2>1, <2>2 DEF HInv, TargetInv
  <2>7. DeadInv'
    BY <2>1, <2>2 DEF HInv, DeadInv, Recovering, History!Finished
  <2>8. CountInv'
    BY <2>1, <2>2, <2>3 DEF HInv, CountInv, History!Finished, History!Running,
       History!Attempts
  <2>9. ReadInv' /\ History!LiveRunsAreLeftAlone'
    BY <2>1, <2>2 DEF HInv, ReadInv, History!LiveRunsAreLeftAlone,
       History!Finished, History!Running
  <2> QED
    BY <2>4, <2>5, <2>6, <2>7, <2>8, <2>9 DEF HInv
<1> QED
  BY <1>1, <1>2

\* The locks that go with the end of run r: those of others stay, and whom r
\* was recovering is nobody's.
LEMMA HUnlock ==
    ASSUME HInv, NEW r \in Runs, History!Unlock(r)
    PROVE  /\ writer' \in Runs \cup {None}
           /\ live' \in [Runs -> Runs \cup {None}]
           /\ \A s \in Runs \ {r} : writer = s => writer' = s
           /\ \A t \in Runs, s \in Runs \ {r} : live[t] = s => live'[t] = s
           /\ \A t \in Runs : live[t] = None => live'[t] = None
BY HistoryFacts DEF HInv, HType, History!Unlock

\* The end of run r: what it leaves is what it had on disk.
LEMMA HEnd ==
    ASSUME HInv, NEW r \in Runs, History!Unlock(r), History!Goto(r, "ended"),
           History!Forget(r), UNCHANGED <<started, events, runSent, reader>>,
           runPc[r] \in History!Running \cup {"locked", "overlap"},
           \/ done' = done
           \/ /\ done' = [done EXCEPT ![r] = History!Counted(r)]
              /\ runPc[r] \in History!Running
    PROVE  HInv'
<1>1. /\ runPc' = [runPc EXCEPT ![r] = "ended"]
      /\ recorder' = [recorder EXCEPT ![r] = History!NoRecorder]
      /\ todo' = [todo EXCEPT ![r] = {}]
      /\ target' = [target EXCEPT ![r] = None]
      /\ dead' = [dead EXCEPT ![r] = {}]
  BY DEF History!Goto, History!Forget
<1>2. /\ writer' \in Runs \cup {None}
      /\ live' \in [Runs -> Runs \cup {None}]
      /\ \A s \in Runs \ {r} : writer = s => writer' = s
      /\ \A t \in Runs, s \in Runs \ {r} : live[t] = s => live'[t] = s
      /\ \A t \in Runs : live[t] = None => live'[t] = None
  BY HUnlock
<1>3. recorder[r] \in Recorders
  BY DEF HInv, HType
<1>4. /\ History!Counted(r) \in Completions
      /\ History!Counted(r).attempts = recorder[r].attempts
      /\ History!Counted(r).count = recorder[r].events
      /\ History!Counted(r).known = ~recorder[r].failed
  BY <1>3 DEF History!Counted, Completions, Recorders
<1>5. /\ done' \in [Runs -> Completions]
      /\ \A s \in Runs \ {r} : done'[s] = done[s]
      /\ \/ done'[r] = done[r]
         \/ done'[r] = History!Counted(r) /\ runPc[r] \in History!Running
  BY <1>4 DEF HInv, HType
<1>6. History!NoRecorder \in Recorders
  BY DEF History!NoRecorder, Recorders, Outcomes
<1>7. /\ runPc' \in [Runs -> Places] /\ recorder' \in [Runs -> Recorders]
      /\ todo' \in [Runs -> SUBSET Runs] /\ target' \in [Runs -> Runs \cup {None}]
      /\ dead' \in [Runs -> SUBSET Runs]
      /\ runPc'[r] = "ended" /\ todo'[r] = {} /\ target'[r] = None
      /\ \A s \in Runs \ {r} :
            /\ runPc'[s] = runPc[s] /\ recorder'[s] = recorder[s]
            /\ todo'[s] = todo[s] /\ target'[s] = target[s] /\ dead'[s] = dead[s]
  BY <1>1, <1>6 DEF HInv, HType, Places
<1>8. HType'
  BY <1>2, <1>5, <1>7 DEF HInv, HType
<1>9. OwnInv'
  BY <1>2, <1>5, <1>7 DEF HInv, OwnInv, History!Running, Writing, Recovering, History!Finished
<1>10. TargetInv'
  <2>1. ASSUME NEW s \in Runs \ {r}
        PROVE  /\ todo'[s] \subseteq started' \ {s}
               /\ target'[s] # None => target'[s] \in started' \ {s}
               /\ runPc'[s] \in {"examine", "reread"} => target'[s] # None
               /\ runPc'[s] = "reread" => live'[target'[s]] = s
    <3>1. /\ todo[s] \subseteq started \ {s}
          /\ target[s] # None => target[s] \in started \ {s}
          /\ runPc[s] \in {"examine", "reread"} => target[s] # None
          /\ runPc[s] = "reread" => live[target[s]] = s
      BY DEF HInv, TargetInv
    <3>2. started \subseteq Runs
      BY DEF HInv, HType
    <3>3. runPc[s] = "reread" => live'[target[s]] = s
      BY <1>2, <3>1, <3>2
    <3> QED
      BY <1>7, <3>1, <3>3
  <2> QED
    BY <1>7, <2>1 DEF TargetInv
<1>11. ASSUME NEW t \in Runs, History!Finished(t) PROVE History!Finished(t)'
  <2>1. runPc[t] \notin History!Running
    BY <1>11 DEF HInv, History!LiveRunsAreLeftAlone
  <2> QED
    BY <1>5, <1>11, <2>1 DEF History!Finished
<1>12. DeadInv'
  BY <1>2, <1>7, <1>11 DEF HInv, HType, DeadInv, Recovering
<1>13. CountInv'
  <2>1. runPc[r] \in History!Running => runSent[r] <= recorder[r].attempts
    BY DEF HInv, CountInv
  <2>2. ASSUME NEW s \in Runs \ {r}
        PROVE  /\ runSent'[s] <= History!Attempts(events'[s])
               /\ History!Finished(s)' => runSent'[s] <= done'[s].attempts
               /\ runPc'[s] \in History!Running =>
                     /\ runSent'[s] <= recorder'[s].attempts
                     /\ runPc'[s] = "call" => runSent'[s] + 1 <= recorder'[s].attempts
                     /\ recorder'[s].attempts <= History!Attempts(events'[s])
                     /\ ~recorder'[s].failed => recorder'[s].events = Len(events'[s])
    BY <1>5, <1>7 DEF HInv, CountInv, History!Finished
  <2>3. /\ runSent'[r] <= History!Attempts(events'[r])
        /\ History!Finished(r)' => runSent'[r] <= done'[r].attempts
        /\ runPc'[r] \notin History!Running
    BY <1>4, <1>5, <1>7, <2>1 DEF HInv, CountInv, History!Finished, History!Running
  <2> QED
    BY <2>2, <2>3 DEF CountInv, History!Attempts, History!Finished
<1>14. ReadInv'
  <2>1. runPc[r] \in History!Running /\ ~recorder[r].failed =>
            recorder[r].events = Len(events[r])
    BY DEF HInv, CountInv
  <2>2. \A s \in Runs : History!Finished(s)' /\ done'[s].known =>
                            done'[s].count = Len(events'[s])
    BY <1>4, <1>5, <2>1 DEF HInv, ReadInv, History!Finished
  <2>3. ASSUME reader.run # None, reader.completion # History!NotDone
        PROVE  reader.completion = done'[reader.run]
    <3>1. reader.run \in Runs /\ reader.completion = done[reader.run]
      BY <2>3 DEF HInv, HType, ReadInv
    <3>2. History!Finished(reader.run)
      BY <2>3, <3>1 DEF History!Finished
    <3>3. runPc[reader.run] \notin History!Running
      BY <3>1, <3>2 DEF HInv, History!LiveRunsAreLeftAlone
    <3> QED
      BY <1>5, <3>1, <3>3
  <2> QED
    BY <2>2, <2>3 DEF ReadInv, History!NotDone
<1>15. History!LiveRunsAreLeftAlone'
  BY <1>5, <1>7 DEF HInv, History!LiveRunsAreLeftAlone, History!Finished, History!Running
<1> QED
  BY <1>8, <1>9, <1>10, <1>12, <1>13, <1>14, <1>15 DEF HInv

LEMMA HFinish ==
    ASSUME HInv, NEW r \in Runs, History!Finish(r) \/ History!Crash(r)
    PROVE  HInv'
<1>1. /\ History!Unlock(r) /\ History!Goto(r, "ended") /\ History!Forget(r)
      /\ UNCHANGED <<started, events, runSent, reader>>
      /\ runPc[r] \in History!Running \cup {"locked", "overlap"}
  BY DEF History!Finish, History!Crash, History!Running
<1>2. \/ done' = done
      \/ /\ done' = [done EXCEPT ![r] = History!Counted(r)]
         /\ runPc[r] \in History!Running
  BY DEF History!Finish, History!Crash, History!Complete, History!Running
<1> QED
  BY <1>1, <1>2, HEnd

LEMMA HNewRun ==
    ASSUME HInv, NEW r \in Runs, History!NewRun(r)
    PROVE  HInv'
<1>1. /\ runPc[r] \in {"locked", "overlap"}
      /\ UNCHANGED <<events, done, target, runSent, reader>>
      /\ started' = started \cup {r} \/ started' = started
  BY DEF History!NewRun
<1>2. r \notin started /\ recorder[r] = History!NoRecorder /\ runSent[r] = 0
      /\ events[r] = <<>>
  BY <1>1 DEF HInv, OwnInv
<1>3. \A t \in Runs : History!Finished(t)' <=> History!Finished(t)
  BY <1>1 DEF History!Finished
<1>4. ReadInv'
  BY <1>1 DEF HInv, ReadInv, History!Finished, History!NotDone
<1>5. CASE /\ started' = started \cup {r}
           /\ live' = [live EXCEPT ![r] = r] /\ UNCHANGED writer
           /\ History!Goto(r, IF runPc[r] = "locked" THEN "recover" ELSE "finish")
           /\ recorder' = [recorder EXCEPT ![r].outcome =
                             IF runPc[r] = "locked" THEN "ran" ELSE "skipped"]
           /\ todo' = [todo EXCEPT ![r] =
                             IF runPc[r] = "locked" THEN started \ {r} ELSE {}]
           /\ dead' = [dead EXCEPT ![r] =
                             {t \in started : History!Unfinished(t) /\ live[t] = None}]
  <2>1. /\ runPc'[r] = IF runPc[r] = "locked" THEN "recover" ELSE "finish"
        /\ \A s \in Runs \ {r} : runPc'[s] = runPc[s]
        /\ runPc' \in [Runs -> Places]
    BY <1>5 DEF HInv, HType, Places, History!Running, History!Goto
  <2>2. /\ recorder' \in [Runs -> Recorders]
        /\ \A s \in Runs \ {r} : recorder'[s] = recorder[s]
        /\ recorder'[r].events = 0 /\ recorder'[r].attempts = 0
    <3>1. PICK o \in Outcomes : recorder' = [recorder EXCEPT ![r].outcome = o]
      BY <1>5 DEF Outcomes
    <3>2. recorder[r].events = 0 /\ recorder[r].attempts = 0
      BY <1>2 DEF History!NoRecorder
    <3>3. recorder \in [Runs -> Recorders]
      BY DEF HInv, HType
    <3> QED
      BY <3>1, <3>2, <3>3 DEF Recorders
  <2>3. /\ live' \in [Runs -> Runs \cup {None}]
        /\ live'[r] = r /\ \A t \in Runs \ {r} : live'[t] = live[t]
        /\ todo' \in [Runs -> SUBSET Runs] /\ dead' \in [Runs -> SUBSET Runs]
        /\ todo'[r] = IF runPc[r] = "locked" THEN started \ {r} ELSE {}
        /\ dead'[r] = {t \in started : History!Unfinished(t) /\ live[t] = None}
        /\ \A s \in Runs \ {r} : todo'[s] = todo[s] /\ dead'[s] = dead[s]
    BY <1>5 DEF HInv, HType
  <2>4. HType'
    BY <1>1, <1>5, <2>1, <2>2, <2>3 DEF HInv, HType
  <2>5. OwnInv'
    BY <1>1, <1>5, <2>1, <2>2, <2>3 DEF HInv, OwnInv, History!Running, Writing, Recovering, History!Finished
  <2>6. TargetInv'
    BY <1>1, <1>2, <1>5, <2>1, <2>3 DEF HInv, HType, TargetInv
  <2>7. DeadInv'
    <3>1. ASSUME NEW s \in Runs \ {r}, runPc[s] \in Recovering, NEW t \in dead[s]
          PROVE  t # r
      BY <1>2, <3>1 DEF HInv, DeadInv
    <3>2. ASSUME runPc'[r] \in Recovering, NEW t \in dead'[r]
          PROVE  t \in todo'[r] /\ live'[t] = None
      BY <1>2, <2>1, <2>3, <3>2 DEF HInv, HType, Recovering
    <3>3. runPc'[r] \in {"recover", "finish"}
      BY <2>1
    <3>4. ASSUME NEW s \in Runs \ {r}
          PROVE  /\ runPc'[s] \in {"work", "call"} =>
                       \A t \in dead'[s] : History!Finished(t)'
                 /\ runPc'[s] \in Recovering =>
                      \A t \in dead'[s] :
                          \/ History!Finished(t)'
                          \/ /\ t \in todo'[s] /\ live'[t] = None
                          \/ /\ runPc'[s] = "examine" /\ t = target'[s] /\ live'[t] = None
                          \/ /\ runPc'[s] = "reread" /\ t = target'[s]
                 /\ runPc'[s] \in Recovering => dead'[s] \subseteq started'
      BY <1>1, <1>3, <2>1, <2>3, <3>1 DEF HInv, HType, DeadInv
    <3>5. /\ runPc'[r] \in {"work", "call"} => \A t \in dead'[r] : History!Finished(t)'
          /\ runPc'[r] \in Recovering => dead'[r] \subseteq started'
      BY <1>5, <2>3, <3>3
    <3> QED
      BY <3>2, <3>4, <3>5 DEF DeadInv
  <2>8. CountInv'
    <3>1. ASSUME NEW s \in Runs \ {r}
          PROVE  /\ runSent'[s] <= History!Attempts(events'[s])
                 /\ History!Finished(s)' => runSent'[s] <= done'[s].attempts
                 /\ runPc'[s] \in History!Running =>
                       /\ runSent'[s] <= recorder'[s].attempts
                       /\ runPc'[s] = "call" => runSent'[s] + 1 <= recorder'[s].attempts
                       /\ recorder'[s].attempts <= History!Attempts(events'[s])
                       /\ ~recorder'[s].failed => recorder'[s].events = Len(events'[s])
      BY <1>1, <1>3, <2>1, <2>2 DEF HInv, CountInv
    <3>2. /\ runSent'[r] <= History!Attempts(events'[r])
          /\ History!Finished(r)' => runSent'[r] <= done'[r].attempts
          /\ runSent'[r] <= recorder'[r].attempts
          /\ runPc'[r] # "call"
          /\ recorder'[r].attempts <= History!Attempts(events'[r])
          /\ recorder'[r].events = Len(events'[r])
      BY <1>1, <1>2, <1>3, <2>1, <2>2, NoEvents DEF HInv, CountInv
    <3> QED
      BY <3>1, <3>2 DEF CountInv, History!Attempts, History!Finished
  <2>9. History!LiveRunsAreLeftAlone'
    <3>1. ~History!Finished(r)
      BY <1>1, <1>2 DEF HInv, OwnInv
    <3> QED
      BY <1>3, <2>1, <3>1 DEF HInv, History!LiveRunsAreLeftAlone
  <2> QED
    BY <1>4, <2>4, <2>5, <2>6, <2>7, <2>8, <2>9 DEF HInv
<1>6. CASE /\ History!Unlock(r) /\ History!Goto(r, "ended")
           /\ UNCHANGED <<recorder, todo, dead>>
  <2>1. /\ writer' \in Runs \cup {None}
        /\ live' \in [Runs -> Runs \cup {None}]
        /\ \A s \in Runs \ {r} : writer = s => writer' = s
        /\ \A t \in Runs, s \in Runs \ {r} : live[t] = s => live'[t] = s
        /\ \A t \in Runs : live[t] = None => live'[t] = None
    BY <1>6, HUnlock
  <2>2. /\ runPc'[r] = "ended"
        /\ \A s \in Runs \ {r} : runPc'[s] = runPc[s]
        /\ runPc' \in [Runs -> Places]
    BY <1>6 DEF HInv, HType, Places, History!Goto
  <2>3. HType'
    BY <1>1, <1>6, <2>1, <2>2 DEF HInv, HType
  <2>4. OwnInv'
    BY <1>1, <1>6, <2>1, <2>2 DEF HInv, OwnInv, History!Running, Writing, Recovering, History!Finished
  <2>5. TargetInv'
    BY <1>1, <1>2, <1>6, <2>1, <2>2 DEF HInv, HType, TargetInv
  <2>6. DeadInv'
    BY <1>1, <1>3, <1>6, <2>1, <2>2 DEF HInv, HType, DeadInv, Recovering
  <2>7. CountInv' /\ History!LiveRunsAreLeftAlone'
    BY <1>1, <1>3, <1>6, <2>2 DEF HInv, CountInv, History!LiveRunsAreLeftAlone,
       History!Attempts, History!Running, History!Finished
  <2> QED
    BY <1>4, <2>3, <2>4, <2>5, <2>6, <2>7 DEF HInv
<1> QED
  BY <1>5, <1>6 DEF History!NewRun

LEMMA HExamine ==
    ASSUME HInv, NEW r \in Runs, History!Examine(r)
    PROVE  HInv'
<1>1. /\ UNCHANGED <<writer, live, started, events, done, recorder, dead, runSent, reader>>
      /\ runPc[r] = "recover"
  BY DEF History!Examine, History!recordVars
<1>2. /\ CountInv' <=> \A s \in Runs :
                          /\ runSent[s] <= History!Attempts(events[s])
                          /\ History!Finished(s) => runSent[s] <= done[s].attempts
                          /\ runPc'[s] \in History!Running =>
                                /\ runSent[s] <= recorder[s].attempts
                                /\ runPc'[s] = "call" =>
                                      runSent[s] + 1 <= recorder[s].attempts
                                /\ recorder[s].attempts <= History!Attempts(events[s])
                                /\ ~recorder[s].failed =>
                                      recorder[s].events = Len(events[s])
      /\ ReadInv'
  BY <1>1 DEF HInv, CountInv, ReadInv, History!Finished, History!Attempts
<1>3. ASSUME NEW l \in {"recover", "work", "examine"}, runPc' = [runPc EXCEPT ![r] = l],
             todo' \in [Runs -> SUBSET Runs], target' \in [Runs -> Runs \cup {None}],
             \A s \in Runs \ {r} : todo'[s] = todo[s] /\ target'[s] = target[s],
             todo'[r] \subseteq todo[r],
             target'[r] = target[r] \/ target'[r] \in todo[r],
             l = "examine" => target'[r] # None,
             \A t \in dead[r] :
                \/ History!Finished(t)
                \/ l # "work" /\ t \in todo'[r]
                \/ l = "examine" /\ t = target'[r]
      PROVE  HInv'
  <2>1. /\ runPc'[r] = l /\ \A s \in Runs \ {r} : runPc'[s] = runPc[s]
        /\ runPc' \in [Runs -> Places]
    BY <1>3 DEF HInv, HType, Places, History!Running
  <2>2. HType'
    BY <1>1, <1>3, <2>1 DEF HInv, HType
  <2>3. OwnInv'
    BY <1>1, <2>1 DEF HInv, OwnInv, History!Running, Writing, Recovering, History!Finished
  <2>4. TargetInv'
    BY <1>1, <1>3, <2>1 DEF HInv, TargetInv
  <2>5. DeadInv'
    <3>1. \A t \in dead[r] : History!Finished(t) \/ live[t] = None
      BY <1>1 DEF HInv, DeadInv, Recovering
    <3>2. dead[r] \subseteq started
      BY <1>1 DEF HInv, DeadInv, Recovering
    <3>3. \A t : History!Finished(t)' <=> History!Finished(t)
      BY <1>1 DEF History!Finished
    <3> QED
      BY <1>1, <1>3, <2>1, <3>1, <3>2, <3>3 DEF HInv, HType, DeadInv, Recovering
  <2>6. CountInv'
    BY <1>1, <1>2, <2>1 DEF HInv, CountInv, History!Running
  <2>7. History!LiveRunsAreLeftAlone'
    BY <1>1, <2>1 DEF HInv, History!LiveRunsAreLeftAlone, History!Finished, History!Running
  <2> QED
    BY <1>2, <2>2, <2>3, <2>4, <2>5, <2>6, <2>7 DEF HInv
<1>4. \A t \in dead[r] : History!Finished(t) \/ t \in todo[r]
  BY <1>1 DEF HInv, DeadInv, Recovering
<1>5. CASE todo[r] = {}
  <2>1. runPc' = [runPc EXCEPT ![r] = "work"] /\ todo' = todo /\ target' = target
    BY <1>5 DEF History!Examine, History!Goto
  <2> QED
    BY <1>3, <1>4, <1>5, <2>1 DEF HInv, HType
<1>6. CASE todo[r] # {}
  <2>1. PICK t \in todo[r] :
           /\ todo' = [todo EXCEPT ![r] = @ \ {t}]
           /\ IF History!Unfinished(t)
              THEN History!Goto(r, "examine") /\ target' = [target EXCEPT ![r] = t]
              ELSE UNCHANGED <<runPc, target>>
    BY <1>6 DEF History!Examine
  <2>2. t \in started /\ t \in Runs /\ t # None
    BY HistoryFacts DEF HInv, HType, TargetInv
  <2>3. /\ todo' \in [Runs -> SUBSET Runs] /\ todo'[r] = todo[r] \ {t}
        /\ \A s \in Runs \ {r} : todo'[s] = todo[s]
    BY <2>1 DEF HInv, HType
  <2>4. CASE History!Unfinished(t)
    <3>1. /\ runPc' = [runPc EXCEPT ![r] = "examine"]
          /\ target' \in [Runs -> Runs \cup {None}] /\ target'[r] = t
          /\ \A s \in Runs \ {r} : target'[s] = target[s]
      BY <2>1, <2>2, <2>4 DEF History!Goto, HInv, HType
    <3>2. \A u \in dead[r] : History!Finished(u) \/ u \in todo'[r] \/ u = target'[r]
      BY <1>4, <2>3, <3>1
    <3> QED
      BY <1>3, <2>2, <2>3, <3>1, <3>2
  <2>5. CASE ~History!Unfinished(t)
    <3>1. runPc' = [runPc EXCEPT ![r] = "recover"] /\ target' = target
      BY <1>1, <2>1, <2>5 DEF HInv, HType
    <3>2. History!Finished(t)
      BY <2>2, <2>5 DEF History!Unfinished
    <3>3. \A u \in dead[r] : History!Finished(u) \/ u \in todo'[r]
      BY <1>4, <2>3, <3>2
    <3> QED
      BY <1>3, <2>3, <3>1, <3>3 DEF HInv, HType
  <2> QED
    BY <2>4, <2>5
<1> QED
  BY <1>5, <1>6

LEMMA HLockUnfinished ==
    ASSUME HInv, NEW r \in Runs, History!LockUnfinished(r)
    PROVE  HInv'
<1>1. /\ UNCHANGED <<writer, started, events, done, recorder, todo, target, dead,
                     runSent, reader>>
      /\ runPc[r] = "examine"
  BY DEF History!LockUnfinished, History!recordVars, History!recoveryVars
<1> DEFINE t == target[r]
<1>2. t \in started \ {r} /\ t \in Runs /\ t # None
  BY <1>1 DEF HInv, HType, TargetInv
<1>3. PICK l \in {"reread", "recover"} : runPc' = [runPc EXCEPT ![r] = l]
  BY DEF History!LockUnfinished, History!Goto
<1>4. /\ runPc'[r] = l /\ \A s \in Runs \ {r} : runPc'[s] = runPc[s]
      /\ runPc' \in [Runs -> Places]
  BY <1>3 DEF HInv, HType, Places, History!Running
<1>5. \/ live[t] = None /\ live' = [live EXCEPT ![t] = r] /\ l = "reread"
      \/ live[t] # None /\ live' = live /\ l = "recover"
  BY <1>3, <1>4 DEF History!LockUnfinished, History!Goto, HInv, HType
<1> HIDE DEF t
<1>6. /\ live' \in [Runs -> Runs \cup {None}]
      /\ \A u \in Runs : live[u] # None => live'[u] = live[u]
      /\ \A u \in Runs \ {t} : live'[u] = live[u]
      /\ l = "reread" => live'[t] = r
  BY <1>2, <1>5 DEF HInv, HType
<1>7. \A u : History!Finished(u)' <=> History!Finished(u)
  BY <1>1 DEF History!Finished
<1>8. HType'
  BY <1>1, <1>4, <1>6 DEF HInv, HType
<1>9. OwnInv'
  BY <1>1, <1>4, <1>6, <1>7, HistoryFacts
  DEF HInv, OwnInv, History!Running, Writing, Recovering
<1>10. TargetInv'
  <2>1. ASSUME NEW s \in Runs, runPc[s] = "reread" PROVE live'[target[s]] = s
    BY <1>6, <2>1, HistoryFacts DEF HInv, HType, TargetInv
  <2> QED
    BY <1>1, <1>2, <1>4, <1>6, <2>1 DEF HInv, HType, TargetInv, t
<1>11. DeadInv'
  <2>1. \A s \in Runs \ {r} : runPc[s] \notin Recovering
    BY <1>1 DEF HInv, OwnInv, Writing, Recovering
  <2>2. \A u \in dead[r] :
           \/ History!Finished(u)
           \/ u \in todo[r] /\ live[u] = None
           \/ u = t /\ live[t] = None
    BY <1>1 DEF HInv, DeadInv, Recovering, t
  <2>3. \A u \in dead[r] :
           \/ History!Finished(u)
           \/ u \in todo[r] /\ u # t /\ live'[u] = None
           \/ l = "reread" /\ u = t
    BY <1>2, <1>5, <1>6, <2>2 DEF HInv, HType
  <2>4. dead[r] \subseteq started
    BY <1>1 DEF HInv, DeadInv, Recovering
  <2> QED
    BY <1>1, <1>4, <1>7, <2>1, <2>3, <2>4 DEF HInv, DeadInv, Recovering, t
<1>12. CountInv' /\ ReadInv'
  BY <1>1, <1>4, <1>7 DEF HInv, CountInv, ReadInv, History!Running, History!Attempts,
     History!Finished, History!NotDone
<1>13. History!LiveRunsAreLeftAlone'
  BY <1>1, <1>4, <1>7 DEF HInv, History!LiveRunsAreLeftAlone, History!Running
<1> QED
  BY <1>8, <1>9, <1>10, <1>11, <1>12, <1>13 DEF HInv

LEMMA HRecover ==
    ASSUME HInv, NEW r \in Runs, History!Recover(r)
    PROVE  HInv'
<1> DEFINE t == target[r]
<1>1. /\ UNCHANGED <<writer, started, events, todo, dead, runSent, reader>>
      /\ runPc[r] = "reread"
      /\ live' = [live EXCEPT ![t] = None]
      /\ target' = [target EXCEPT ![r] = None]
  BY DEF History!Recover
<1>2. t \in started \ {r} /\ t \in Runs /\ t # None /\ live[t] = r
  BY <1>1 DEF HInv, HType, TargetInv
<1>3. PICK l \in {"recover", "finish"}, o \in Outcomes :
         /\ runPc' = [runPc EXCEPT ![r] = l]
         /\ recorder' = recorder \/ recorder' = [recorder EXCEPT ![r].outcome = o]
         /\ l = "recover" => recorder' = recorder
         /\ \/ done' = done
            \/ done' = [done EXCEPT ![t] = History!Recovered(t)]
         /\ done' = done => History!Finished(t) \/ l = "finish"
         /\ History!Finished(t) => done' = done
  <2>1. CASE History!Unfinished(t)
    <3>1. PICK ok \in BOOLEAN :
             /\ History!Complete(t, History!Recovered(t), ok)
             /\ runPc' = [runPc EXCEPT ![r] = IF ok THEN "recover" ELSE "finish"]
             /\ recorder' = [recorder EXCEPT ![r].outcome = IF ok THEN @ ELSE "failed"]
      BY <2>1 DEF History!Recover, History!Goto
    <3>2. \/ done' = [done EXCEPT ![t] = History!Recovered(t)]
          \/ ~ok /\ done' = done
      BY <3>1 DEF History!Complete
    <3>3. ~History!Finished(t)
      BY <2>1 DEF History!Unfinished
    <3>4. CASE ok
      <4>1. recorder' = [recorder EXCEPT ![r] = [recorder[r] EXCEPT !.outcome = recorder[r].outcome]]
        BY <3>1, <3>4
      <4>2. [recorder[r] EXCEPT !.outcome = recorder[r].outcome] = recorder[r]
        BY DEF HInv, HType, Recorders
      <4>3. recorder' = recorder
        BY <4>1, <4>2 DEF HInv, HType
      <4>4. done' = [done EXCEPT ![t] = History!Recovered(t)] /\ done' # done
        <5>1. done' = [done EXCEPT ![t] = History!Recovered(t)]
          BY <3>2, <3>4
        <5>2. History!Recovered(t).outcome # History!NotDone.outcome
          BY DEF History!Recovered, History!NotDone
        <5>3. done[t] = History!NotDone /\ done'[t] = History!Recovered(t)
          BY <1>2, <3>3, <5>1 DEF History!Finished, HInv, HType
        <5> QED
          BY <5>1, <5>2, <5>3
      <4> QED
        BY <3>1, <3>3, <3>4, <4>3, <4>4 DEF Outcomes
    <3>5. CASE ~ok
      <4>1. /\ runPc' = [runPc EXCEPT ![r] = "finish"]
            /\ recorder' = [recorder EXCEPT ![r].outcome = "failed"]
        BY <3>1, <3>5
      <4> QED
        BY <3>2, <3>3, <4>1 DEF Outcomes
    <3> QED
      BY <3>4, <3>5
  <2>2. CASE ~History!Unfinished(t)
    <3>1. /\ runPc' = [runPc EXCEPT ![r] = "recover"]
          /\ done' = done /\ recorder' = recorder
      BY <2>2 DEF History!Recover, History!Goto
    <3>2. History!Finished(t)
      BY <1>2, <2>2 DEF History!Unfinished
    <3> QED
      BY <3>1, <3>2 DEF Outcomes
  <2> QED
    BY <2>1, <2>2
<1> HIDE DEF t
<1>4. /\ runPc'[r] = l /\ \A s \in Runs \ {r} : runPc'[s] = runPc[s]
      /\ runPc' \in [Runs -> Places]
  BY <1>3 DEF HInv, HType, Places, History!Running
<1>5. /\ recorder' \in [Runs -> Recorders]
      /\ \A s \in Runs : /\ recorder'[s].events = recorder[s].events
                         /\ recorder'[s].attempts = recorder[s].attempts
                         /\ recorder'[s].failed = recorder[s].failed
      /\ \A s \in Runs \ {r} : recorder'[s] = recorder[s]
  <2>1. recorder \in [Runs -> Recorders]
    BY DEF HInv, HType
  <2>2. CASE recorder' = recorder
    BY <2>1, <2>2
  <2>3. CASE recorder' = [recorder EXCEPT ![r].outcome = o]
    BY <2>1, <2>3 DEF Recorders
  <2> QED
    BY <1>3, <2>2, <2>3
<1>6. /\ History!Recovered(t) \in Completions
      /\ History!Recovered(t).attempts = History!Attempts(events[t])
      /\ History!Recovered(t).count = Len(events[t])
      /\ History!Recovered(t) # History!NotDone
  <2>1. events[t] \in Seq(History!Kinds)
    BY <1>2 DEF HInv, HType
  <2>2. History!Attempts(events[t]) \in Nat /\ Len(events[t]) \in Nat
    BY <2>1, OneEvent DEF History!Kinds
  <2>3. History!Recovered(t).outcome # History!NotDone.outcome
    BY DEF History!Recovered, History!NotDone
  <2> QED
    BY <2>2, <2>3 DEF History!Recovered, Completions, Outcomes
<1>7. /\ done' \in [Runs -> Completions]
      /\ \A s \in Runs \ {t} : done'[s] = done[s]
      /\ done'[t] = done[t] \/ done'[t] = History!Recovered(t)
      /\ \A s \in Runs : History!Finished(s) => done'[s] = done[s]
      /\ l = "recover" => done'[t] # History!NotDone
  <2> DEFINE c == History!Recovered(t)
  <2>1. done \in [Runs -> Completions] /\ c \in Completions /\ c # History!NotDone
    BY <1>6 DEF HInv, HType
  <2>2. CASE done' = done
    BY <1>2, <1>3, <2>1, <2>2 DEF History!Finished
  <2>3. CASE done' # done
    <3>1. done' = [done EXCEPT ![t] = c]
      BY <1>3, <2>3
    <3>2. ~History!Finished(t)
      BY <1>3, <2>3
    <3> HIDE DEF c
    <3>3. /\ done' \in [Runs -> Completions] /\ done'[t] = c
          /\ \A s \in Runs \ {t} : done'[s] = done[s]
      BY <1>2, <2>1, <3>1
    <3>4. \A s \in Runs : History!Finished(s) => done'[s] = done[s]
      BY <3>2, <3>3
    <3> QED
      BY <2>1, <3>3, <3>4 DEF c
  <2> QED
    BY <2>2, <2>3
<1>8. /\ live' \in [Runs -> Runs \cup {None}]
      /\ \A u \in Runs \ {t} : live'[u] = live[u]
      /\ live'[t] = None
      /\ target' \in [Runs -> Runs \cup {None}] /\ target'[r] = None
      /\ \A s \in Runs \ {r} : target'[s] = target[s]
  BY <1>1, <1>2 DEF HInv, HType
<1>9. \A s \in Runs : History!Finished(s) => History!Finished(s)'
  BY <1>7 DEF History!Finished
<1>10. runPc[t] \notin History!Running
  BY <1>2 DEF HInv, OwnInv
<1>11. HType'
  BY <1>1, <1>4, <1>5, <1>7, <1>8 DEF HInv, HType
<1>12. OwnInv'
  <2>1. runPc[t] \notin {"idle", "locked", "overlap"}
    BY <1>2 DEF HInv, OwnInv
  <2> QED
    BY <1>1, <1>2, <1>4, <1>5, <1>7, <1>8, <1>10, <2>1
    DEF HInv, OwnInv, History!Running, Writing, Recovering, History!Finished
<1>13. TargetInv'
  <2>1. ASSUME NEW s \in Runs \ {r}, runPc[s] = "reread" PROVE live'[target[s]] = s
    BY <1>2, <1>8, <2>1 DEF HInv, HType, TargetInv
  <2> QED
    BY <1>1, <1>4, <1>8, <2>1 DEF HInv, HType, TargetInv
<1>14. DeadInv'
  <2>1. \A s \in Runs \ {r} : runPc[s] \notin Recovering
    BY <1>1 DEF HInv, OwnInv, Writing, Recovering
  <2>2. \A u \in dead[r] :
           \/ History!Finished(u)
           \/ u \in todo[r] /\ live[u] = None
           \/ u = t
    BY <1>1 DEF HInv, DeadInv, Recovering, t
  <2>3. l = "recover" =>
           \A u \in dead[r] :
              \/ History!Finished(u)'
              \/ /\ u \in todo[r]
                 /\ live'[u] = None
    BY <1>2, <1>7, <1>8, <1>9, <2>2 DEF HInv, HType, History!Finished
  <2>4. dead[r] \subseteq started
    BY <1>1 DEF HInv, DeadInv, Recovering
  <2>5. ASSUME NEW s \in Runs \ {r}, runPc[s] \in {"work", "call"}, NEW u \in dead[s]
        PROVE  History!Finished(u)'
    BY <1>9, <2>5 DEF HInv, HType, DeadInv
  <2> QED
    BY <1>1, <1>4, <2>1, <2>3, <2>4, <2>5 DEF DeadInv, Recovering
<1>15. CountInv'
  <2>1. ASSUME NEW s \in Runs
        PROVE  /\ runSent'[s] <= History!Attempts(events'[s])
               /\ History!Finished(s)' => runSent'[s] <= done'[s].attempts
    BY <1>1, <1>6, <1>7 DEF HInv, CountInv, History!Finished
  <2>2. ASSUME NEW s \in Runs, runPc'[s] \in History!Running
        PROVE  /\ runSent'[s] <= recorder'[s].attempts
               /\ runPc'[s] = "call" => runSent'[s] + 1 <= recorder'[s].attempts
               /\ recorder'[s].attempts <= History!Attempts(events'[s])
               /\ ~recorder'[s].failed => recorder'[s].events = Len(events'[s])
    <3>1. runPc[s] \in History!Running /\ (runPc'[s] = "call" => runPc[s] = "call")
      BY <1>1, <1>4, <2>2 DEF History!Running
    <3> QED
      BY <1>1, <1>5, <3>1 DEF HInv, CountInv
  <2> QED
    BY <2>1, <2>2 DEF CountInv, History!Attempts, History!Finished
<1>16. ReadInv'
  <2>1. \A s \in Runs : History!Finished(s)' /\ done'[s].known =>
                            done'[s].count = Len(events'[s])
    BY <1>1, <1>6, <1>7 DEF HInv, ReadInv, History!Finished
  <2>2. ASSUME reader.run # None, reader.completion # History!NotDone
        PROVE  reader.completion = done'[reader.run]
    <3>1. reader.run \in Runs /\ reader.completion = done[reader.run]
      BY <2>2 DEF HInv, HType, ReadInv
    <3> QED
      BY <1>7, <2>2, <3>1 DEF History!Finished
  <2> QED
    BY <1>1, <2>1, <2>2 DEF ReadInv, History!NotDone
<1>17. History!LiveRunsAreLeftAlone'
  <2>1. ASSUME NEW s \in Runs, runPc'[s] \in History!Running PROVE ~History!Finished(s)'
    <3>1. runPc[s] \in History!Running
      BY <1>1, <1>4, <2>1 DEF History!Running
    <3>2. s # t
      BY <1>10, <3>1
    <3> QED
      BY <1>7, <3>1, <3>2 DEF HInv, History!LiveRunsAreLeftAlone, History!Finished
  <2> QED
    BY <2>1 DEF History!LiveRunsAreLeftAlone
<1> QED
  BY <1>11, <1>12, <1>13, <1>14, <1>15, <1>16, <1>17 DEF HInv


\* What a recorder has counted after one event more, written or not.
LEMMA OneNote ==
    ASSUME NEW rec \in Recorders, NEW kind \in History!Kinds, NEW ok \in BOOLEAN
    PROVE  LET next == History!Noted(rec, kind, ok) IN
           /\ next \in Recorders
           /\ next.attempts = IF ok /\ kind = "attempt" THEN rec.attempts + 1
                                                        ELSE rec.attempts
           /\ ok => next.events = rec.events + 1 /\ next.failed = rec.failed
           /\ ~ok => next.failed
<1> DEFINE a == rec.attempts + IF kind = "attempt" THEN 1 ELSE 0
<1>1. /\ rec.events \in Nat /\ rec.attempts \in Nat /\ a \in Nat
      /\ a = IF kind = "attempt" THEN rec.attempts + 1 ELSE rec.attempts
  BY DEF Recorders
<1> DEFINE e == rec.events + 1
<1>4. e \in Nat
  BY <1>1
<1> HIDE DEF a, e
<1>2. CASE ok
  <2>1. History!Noted(rec, kind, ok) =
            [rec EXCEPT !.events = e, !.attempts = a]
    BY <1>2 DEF History!Noted, a, e
  <2> DEFINE next == History!Noted(rec, kind, ok)
  <2>2. /\ next.events = e /\ next.attempts = a
        /\ next.failed = rec.failed
    BY <2>1 DEF Recorders
  <2>3. next \in Recorders
    BY <1>1, <1>4, <2>1 DEF Recorders
  <2> QED
    BY <1>1, <1>2, <2>2, <2>3 DEF e
<1>3. CASE ~ok
  <2>1. History!Noted(rec, kind, ok) = [rec EXCEPT !.failed = TRUE, !.outcome = "failed"]
    BY <1>3 DEF History!Noted
  <2> QED
    BY <1>1, <1>3, <2>1 DEF Recorders, Outcomes
<1> QED
  BY <1>2, <1>3

\* One event of run r: its recorder has one number more and the file is there,
\* or the write failed, and the recorder no longer knows its count.
LEMMA HEvent ==
    ASSUME HInv, NEW r \in Runs, NEW kind \in History!Kinds, History!Event(r, kind)
    PROVE  HInv'
<1> DEFINE n == recorder[r].events + 1
           files == Append(events[r], kind)
<1>1. /\ UNCHANGED <<writer, live, started, done, todo, target, dead, runSent, reader>>
      /\ runPc[r] = "work"
  BY DEF History!Event, History!recoveryVars
<1>2. PICK ok \in BOOLEAN :
         /\ ok => n <= MaxEvents /\ n = Len(events[r]) + 1
         /\ \/ n <= MaxEvents /\ n = Len(events[r]) + 1
               /\ events' = [events EXCEPT ![r] = Append(@, kind)]
            \/ ~ok /\ UNCHANGED events
         /\ recorder' = [recorder EXCEPT ![r] = History!Noted(recorder[r], kind, ok)]
         /\ History!Goto(r, IF ~ok THEN "finish"
                            ELSE IF kind = "attempt" THEN "call" ELSE "work")
  BY DEF History!Event
<1>3. /\ recorder[r] \in Recorders /\ events[r] \in Seq(History!Kinds)
      /\ recorder \in [Runs -> Recorders]
      /\ r \in started /\ live[r] = r /\ writer = r
      /\ ~History!Finished(r)
  BY <1>1 DEF HInv, HType, OwnInv, Writing, History!Running, History!LiveRunsAreLeftAlone
<1>4. /\ files \in Seq(History!Kinds) /\ Len(files) = Len(events[r]) + 1
      /\ Len(events[r]) \in Nat
      /\ History!Attempts(events[r]) \in Nat
      /\ History!Attempts(files) = IF kind = "attempt" THEN History!Attempts(events[r]) + 1
                                                       ELSE History!Attempts(events[r])
  BY <1>3, OneEvent
<1> HIDE DEF files
<1>5. /\ recorder[r].events \in Nat /\ recorder[r].attempts \in Nat
      /\ recorder[r].failed \in BOOLEAN /\ recorder[r].outcome \in Outcomes
      /\ n \in Nat
  BY <1>3 DEF Recorders
<1>6. /\ recorder' \in [Runs -> Recorders]
      /\ \A s \in Runs \ {r} : recorder'[s] = recorder[s]
      /\ recorder'[r].attempts = IF ok /\ kind = "attempt" THEN recorder[r].attempts + 1
                                                           ELSE recorder[r].attempts
      /\ ok => recorder'[r].events = n /\ recorder'[r].failed = recorder[r].failed
      /\ ~ok => recorder'[r].failed
  <2> DEFINE rec == History!Noted(recorder[r], kind, ok)
  <2>1. /\ rec \in Recorders
        /\ rec.attempts = IF ok /\ kind = "attempt" THEN recorder[r].attempts + 1
                                                    ELSE recorder[r].attempts
        /\ ok => rec.events = n /\ rec.failed = recorder[r].failed
        /\ ~ok => rec.failed
    BY <1>3, OneNote
  <2> HIDE DEF rec
  <2>2. recorder' = [recorder EXCEPT ![r] = rec]
    BY <1>2 DEF rec
  <2>3. /\ recorder' \in [Runs -> Recorders] /\ recorder'[r] = rec
        /\ \A s \in Runs \ {r} : recorder'[s] = recorder[s]
    BY <1>3, <2>1, <2>2
  <2> QED
    BY <2>1, <2>3
<1>7. /\ events' \in [Runs -> Seq(History!Kinds)]
      /\ \A s \in Runs \ {r} : events'[s] = events[s]
      /\ events'[r] = events[r] \/ events'[r] = files
      /\ ok => events'[r] = files /\ n = Len(events[r]) + 1
  BY <1>2, <1>3, <1>4 DEF HInv, HType, files
<1>8. PICK l \in {"finish", "call", "work"} :
         /\ runPc' = [runPc EXCEPT ![r] = l]
         /\ l = "call" => ok /\ kind = "attempt"
  BY <1>2 DEF History!Goto
<1>9. /\ runPc'[r] = l /\ \A s \in Runs \ {r} : runPc'[s] = runPc[s]
      /\ runPc' \in [Runs -> Places]
  BY <1>8 DEF HInv, HType, Places, History!Running
<1>10. \A u : History!Finished(u)' <=> History!Finished(u)
  BY <1>1 DEF History!Finished
<1>11. HType'
  BY <1>1, <1>6, <1>7, <1>9 DEF HInv, HType
<1>12. OwnInv'
  BY <1>1, <1>3, <1>6, <1>7, <1>9, <1>10
  DEF HInv, OwnInv, History!Running, Writing, Recovering
<1>13. TargetInv'
  BY <1>1, <1>9 DEF HInv, TargetInv
<1>14. DeadInv'
  BY <1>1, <1>9, <1>10 DEF HInv, DeadInv, Recovering
<1>15. CountInv'
  <2>1. /\ runSent[r] \in Nat
        /\ runSent[r] <= recorder[r].attempts
        /\ recorder[r].attempts <= History!Attempts(events[r])
        /\ ~recorder[r].failed => recorder[r].events = Len(events[r])
    BY <1>1 DEF HInv, HType, CountInv, History!Running
  <2>2. /\ runSent[r] <= recorder'[r].attempts
        /\ l = "call" => runSent[r] + 1 <= recorder'[r].attempts
        /\ recorder'[r].attempts <= History!Attempts(events'[r])
        /\ ~recorder'[r].failed => recorder'[r].events = Len(events'[r])
    BY <1>4, <1>5, <1>6, <1>7, <1>8, <2>1
  <2>3. runSent[r] <= History!Attempts(events'[r])
    BY <1>4, <1>5, <1>7, <2>1
  <2>4. ASSUME NEW s \in Runs \ {r}
        PROVE  /\ runSent'[s] <= History!Attempts(events'[s])
               /\ History!Finished(s)' => runSent'[s] <= done'[s].attempts
               /\ runPc'[s] \in History!Running =>
                     /\ runSent'[s] <= recorder'[s].attempts
                     /\ runPc'[s] = "call" => runSent'[s] + 1 <= recorder'[s].attempts
                     /\ recorder'[s].attempts <= History!Attempts(events'[s])
                     /\ ~recorder'[s].failed => recorder'[s].events = Len(events'[s])
    BY <1>1, <1>6, <1>7, <1>9, <1>10 DEF HInv, CountInv
  <2> QED
    BY <1>1, <1>3, <1>9, <1>10, <2>2, <2>3, <2>4
    DEF CountInv, History!Attempts, History!Finished
<1>16. ReadInv'
  BY <1>1, <1>3, <1>7, <1>10 DEF HInv, ReadInv, History!NotDone
<1>17. History!LiveRunsAreLeftAlone'
  BY <1>1, <1>3, <1>9, <1>10 DEF HInv, History!LiveRunsAreLeftAlone, History!Running
<1> QED
  BY <1>11, <1>12, <1>13, <1>14, <1>15, <1>16, <1>17 DEF HInv

\* The request leaves: its attempt is counted already.
LEMMA HSend ==
    ASSUME HInv, NEW r \in Runs, History!Send(r)
    PROVE  HInv'
<1>1. /\ UNCHANGED <<writer, live, started, events, done, recorder, todo, target, dead,
                     reader>>
      /\ runPc[r] = "call"
      /\ runSent' = [runSent EXCEPT ![r] = @ + 1]
      /\ runPc' = [runPc EXCEPT ![r] = "work"]
  BY DEF History!Send, History!recordVars, History!recoveryVars, History!Goto
<1>2. /\ runPc' \in [Runs -> Places] /\ runPc'[r] = "work"
      /\ \A s \in Runs \ {r} : runPc'[s] = runPc[s]
      /\ runSent' \in [Runs -> Nat] /\ runSent'[r] = runSent[r] + 1
      /\ \A s \in Runs \ {r} : runSent'[s] = runSent[s]
  BY <1>1 DEF HInv, HType, Places, History!Running
<1>3. \A u : History!Finished(u)' <=> History!Finished(u)
  BY <1>1 DEF History!Finished
<1>4. HType'
  BY <1>1, <1>2 DEF HInv, HType
<1>5. OwnInv'
  BY <1>1, <1>2, <1>3 DEF HInv, OwnInv, History!Running, Writing, Recovering
<1>6. TargetInv' /\ DeadInv'
  BY <1>1, <1>2, <1>3 DEF HInv, TargetInv, DeadInv, Recovering
<1>7. CountInv'
  <2>1. /\ runSent[r] \in Nat /\ recorder[r].attempts \in Nat
        /\ History!Attempts(events[r]) \in Nat
    BY OneEvent DEF HInv, HType, Recorders, History!Kinds
  <2>2. /\ runSent[r] + 1 <= recorder[r].attempts
        /\ recorder[r].attempts <= History!Attempts(events[r])
        /\ ~recorder[r].failed => recorder[r].events = Len(events[r])
        /\ ~History!Finished(r)
    BY <1>1 DEF HInv, CountInv, History!Running, History!LiveRunsAreLeftAlone
  <2>3. ASSUME NEW s \in Runs \ {r}
        PROVE  /\ runSent'[s] <= History!Attempts(events'[s])
               /\ History!Finished(s)' => runSent'[s] <= done'[s].attempts
               /\ runPc'[s] \in History!Running =>
                     /\ runSent'[s] <= recorder'[s].attempts
                     /\ runPc'[s] = "call" => runSent'[s] + 1 <= recorder'[s].attempts
                     /\ recorder'[s].attempts <= History!Attempts(events'[s])
                     /\ ~recorder'[s].failed => recorder'[s].events = Len(events'[s])
    BY <1>1, <1>2, <1>3 DEF HInv, CountInv
  <2>4. /\ runSent'[r] <= History!Attempts(events[r])
        /\ runSent'[r] <= recorder[r].attempts
    BY <1>2, <2>1, <2>2
  <2>5. /\ runPc'[r] = "work" /\ ~History!Finished(r)'
        /\ runSent'[r] <= History!Attempts(events'[r])
        /\ recorder'[r].attempts <= History!Attempts(events'[r])
        /\ ~recorder'[r].failed => recorder'[r].events = Len(events'[r])
    BY <1>1, <1>2, <1>3, <2>2, <2>4
  <2>6. runSent'[r] <= recorder'[r].attempts
    BY <1>1, <2>4
  <2> QED
    BY <2>3, <2>5, <2>6 DEF CountInv, History!Attempts, History!Finished
<1>8. ReadInv'
  BY <1>1, <1>3 DEF HInv, ReadInv, History!NotDone
<1>9. History!LiveRunsAreLeftAlone'
  BY <1>1, <1>2, <1>3 DEF HInv, History!LiveRunsAreLeftAlone, History!Running
<1> QED
  BY <1>4, <1>5, <1>6, <1>7, <1>8, <1>9 DEF HInv

LEMMA HRead ==
    ASSUME HInv, History!ReadCompletion \/ History!ReadEvents
    PROVE  HInv'
<1>1. UNCHANGED <<runPc, writer, live, started, events, done, recorder, todo, target,
                  dead, runSent>>
  BY DEF History!ReadCompletion, History!ReadEvents, History!recordVars,
         History!recoveryVars
<1>2. /\ reader' \in [run : Runs \cup {None}, completion : Completions]
      /\ reader'.run # None /\ reader'.completion # History!NotDone =>
             reader'.completion = done[reader'.run]
  <2>1. CASE History!ReadCompletion
    <3>1. PICK r \in started : reader' = [run |-> r, completion |-> done[r]]
      BY <2>1 DEF History!ReadCompletion
    <3>2. r \in Runs /\ done[r] \in Completions
      BY <3>1 DEF HInv, HType
    <3> QED
      BY <3>1, <3>2
  <2>2. CASE History!ReadEvents
    <3>1. reader' = [run |-> None, completion |-> History!NotDone]
      BY <2>2 DEF History!ReadEvents, History!NoReader
    <3>2. History!NotDone \in Completions
      BY DEF History!NotDone, Completions, Outcomes
    <3> QED
      BY <3>1, <3>2
  <2> QED
    BY <2>1, <2>2
<1>3. HType'
  BY <1>1, <1>2 DEF HInv, HType
<1>4. OwnInv' /\ TargetInv' /\ DeadInv' /\ CountInv' /\ History!LiveRunsAreLeftAlone'
  BY <1>1 DEF HInv, OwnInv, TargetInv, DeadInv, CountInv, History!LiveRunsAreLeftAlone,
     History!Finished, History!Attempts, History!NoRecorder
<1>5. ReadInv'
  BY <1>1, <1>2 DEF HInv, ReadInv, History!Finished, History!NotDone
<1> QED
  BY <1>3, <1>4, <1>5 DEF HInv

LEMMA HInit ==
    ASSUME History!Init
    PROVE  HInv
<1>1. History!NotDone \in Completions /\ History!NoRecorder \in Recorders
  BY DEF History!NotDone, History!NoRecorder, Completions, Recorders, Outcomes
<1>2. HType
  BY <1>1, NoEvents DEF History!Init, HType, Places, History!NoReader
<1>3. \A r \in Runs : ~History!Finished(r)
  BY DEF History!Init, History!Finished
<1>4. OwnInv
  BY <1>3 DEF History!Init, OwnInv, History!Running, Writing, Recovering
<1>5. TargetInv /\ DeadInv
  BY DEF History!Init, TargetInv, DeadInv, Recovering
<1>6. CountInv
  BY <1>3, NoEvents DEF History!Init, CountInv, History!Running
<1>7. ReadInv /\ History!LiveRunsAreLeftAlone
  BY <1>3 DEF History!Init, ReadInv, History!NoReader, History!LiveRunsAreLeftAlone
<1> QED
  BY <1>2, <1>4, <1>5, <1>6, <1>7 DEF HInv

LEMMA HStep ==
    ASSUME HInv, [History!Next]_(History!vars)
    PROVE  HInv'
<1>1. ASSUME NEW r \in Runs
      PROVE  /\ History!Lock(r) \/ History!Return(r) => HInv'
             /\ History!NewRun(r) => HInv'
             /\ History!Examine(r) => HInv'
             /\ History!LockUnfinished(r) => HInv'
             /\ History!Recover(r) => HInv'
             /\ \A kind \in History!Kinds : History!Event(r, kind) => HInv'
             /\ History!Send(r) => HInv'
             /\ History!Finish(r) \/ History!Crash(r) => HInv'
  BY HPlaces, HNewRun, HExamine, HLockUnfinished, HRecover, HEvent, HSend, HFinish
<1>2. History!ReadCompletion \/ History!ReadEvents => HInv'
  BY HRead
<1>3. CASE UNCHANGED History!vars
  <2>1. UNCHANGED <<runPc, writer, live, started, events, done, recorder, todo, target,
                    runSent, dead, reader>>
    BY <1>3 DEF History!vars
  <2>2. HType' /\ OwnInv' /\ TargetInv'
    BY <2>1 DEF HInv, HType, OwnInv, TargetInv, History!Finished
  <2>3. DeadInv' /\ History!LiveRunsAreLeftAlone'
    BY <2>1 DEF HInv, DeadInv, History!LiveRunsAreLeftAlone, History!Finished
  <2>4. CountInv'
    BY <2>1 DEF HInv, CountInv, History!Finished, History!Attempts
  <2>5. ReadInv'
    BY <2>1 DEF HInv, ReadInv, History!Finished, History!NotDone
  <2> QED
    BY <2>2, <2>3, <2>4, <2>5 DEF HInv
<1> QED
  BY <1>1, <1>2, <1>3 DEF History!Next

LEMMA HAlways == MCSpec => []HInv
<1>1. MCInit => HInv
  BY HInit DEF MCInit
<1>2. HInv /\ [MCNext]_<<part, vars, historyVars, writeVars>> => HInv'
  <2> SUFFICES ASSUME HInv, [MCNext]_<<part, vars, historyVars, writeVars>>
               PROVE  HInv'
    OBVIOUS
  <2>1. [History!Next]_(History!vars)
    BY DEF MCNext, historyVars, History!vars
  <2> QED
    BY <2>1, HStep
<1> QED
  BY <1>1, <1>2, PTL DEF MCSpec

\* The records of the AI maintenance runs say what the runs did, for any
\* number of runs and of events: nobody closes the record of a run that goes
\* on, every request that left is counted by the record of its run, complete
\* or recovered, a run that works has closed the ones that died before it, and
\* a reader that meets a completion finds the events it counts
\* (aimaintenance/history.go, Worker.RunOnce).
THEOREM RunHistorySound == MCSpec => []RunHistoryIsTrue
<1>1. HInv => RunHistoryIsTrue
  <2> SUFFICES ASSUME HInv PROVE RunHistoryIsTrue
    OBVIOUS
  <2>1. History!CallsAreOnRecord
    BY DEF HInv, CountInv, History!CallsAreOnRecord
  <2>2. History!DeadRunsAreClosed
    BY DEF HInv, DeadInv, History!DeadRunsAreClosed
  <2>3. History!CompleteRunsRead
    <3> SUFFICES ASSUME reader.run # None, reader.completion # History!NotDone,
                        reader.completion.known
                 PROVE  reader.completion.count = Len(events[reader.run])
      BY DEF History!CompleteRunsRead, History!Corrupt
    <3>1. reader.run \in Runs /\ reader.completion = done[reader.run]
      BY DEF HInv, HType, ReadInv
    <3> QED
      BY <3>1 DEF HInv, ReadInv, History!Finished
  <2> QED
    BY <2>1, <2>2, <2>3 DEF HInv, RunHistoryIsTrue, History!RunHistoryIsTrue
<1> QED
  BY <1>1, HAlways, PTL

------------------------------------------------------------------------------
(* The AI of the writes.  The inductive invariant follows one store call    *)
(* from the decision through guard, journal and fact, and one shadow job     *)
(* from the journal through the queue to its result.                         *)

Steps == {"idle", "asked", "lock", "guarded", "write", "complete", "shadow",
          "enqueue", "send", "returned", "done"}
Decisions ==
    [status : {"none", "shadow", "unavailable", "decided", "abstained", "catalog_changed"},
     cat : Nat, tags : Nat, inst : Nat]
Facts == [gen : Nat, tags : Nat]
Asks == [call : StoreCalls, inst : Nat, journal : Writes!Entries, gen : Nat \cup {None}]

WType ==
    /\ catalog \in Nat \ {0}
    /\ inst \in Nat
    /\ signalled \in BOOLEAN
    /\ queue \in Seq(StoreCalls)
    /\ job \in Writes!Jobs \cup {None}
    /\ pc \in [StoreCalls -> Steps]
    /\ d \in [StoreCalls -> Decisions]
    /\ fact \in [StoreCalls -> Facts \cup {None}]
    /\ journal \in [StoreCalls -> Writes!Entries \cup {None}]
    /\ refs \subseteq StoreCalls
    /\ ask \in Asks \cup {None}
    /\ under \in [StoreCalls -> Nat]

Members(q) == {q[i] : i \in DOMAIN q}
NoTwice(q) == \A i, k \in DOMAIN q : q[i] = q[k] => i = k

Waiting(c) ==
    \/ c \in Members(queue)
    \/ job # None /\ job.call = c

Written(c) == journal[c] # None
Pending(c) == Written(c) /\ journal[c].status = "pending"

\* Tags are those of the catalog of the decision, and the fact has them.
TagsInv(c) ==
    /\ d[c].tags = IF d[c].status = "decided" THEN d[c].cat ELSE 0
    /\ fact[c] # None => fact[c].tags = d[c].tags
    /\ pc[c] \in {"idle", "asked"} => d[c].status = "none"
    /\ pc[c] \in {"idle", "asked", "lock", "guarded"} => fact[c] = None /\ journal[c] = None
    /\ pc[c] = "guarded" => d[c].status = "decided"

\* A decided call that writes holds off publication, and its journal is
\* prepared; the fact is not there before.
WriteInv(c) ==
    /\ pc[c] = "write" => fact[c] = None
    /\ pc[c] = "write" /\ d[c].status # "decided" => journal[c] = None
    /\ pc[c] = "complete" => d[c].status = "decided" /\ under[c] = d[c].cat
    /\ d[c].status = "decided" =>
          /\ pc[c] \in {"guarded", "write", "complete"} => c \in guard /\ d[c].cat = catalog
          /\ pc[c] \in {"write", "complete"} =>
                /\ Written(c)
                /\ journal[c].status = "prepared"
                /\ journal[c].cat = d[c].cat
                /\ journal[c].tags = d[c].tags

\* A shadow call that comes to the queue is pending, and has no job yet; a job
\* is of a pending call.
ShadowInv(c) ==
    /\ pc[c] \in {"shadow", "enqueue", "send", "returned"} => d[c].status = "shadow"
    /\ pc[c] = "shadow" => journal[c] = None
    /\ pc[c] \in {"enqueue", "send"} => Pending(c) /\ ~Waiting(c)
    /\ pc[c] = "returned" => Written(c)
    /\ c \in refs => pc[c] = "done" /\ Written(c)
    /\ Waiting(c) => Pending(c) /\ d[c].status = "shadow" /\ pc[c] \in {"returned", "done"}

\* What the journal says.
EntryInv(c) ==
    Written(c) =>
        /\ journal[c].inst <= inst
        /\ journal[c].status = "pending" => journal[c].gen = 1
        /\ journal[c].status = "decided" => journal[c].gen = 1 /\ journal[c].tags = journal[c].cat
        /\ \/ journal[c].status = "stored"
           \/ journal[c].status = "prepared"
           \/ d[c].status = "shadow"

\* AppliedByTheBook of one call, and PendingHasAJob with the calls about to
\* return their reference.
BookInv(c) ==
    /\ fact[c] # None /\ fact[c].tags # 0 =>
          /\ under[c] = fact[c].tags
          /\ Written(c)
          /\ journal[c].status \in {"prepared", "stored"}
          /\ journal[c].tags = fact[c].tags
    /\ Written(c) /\ journal[c].status = "stored" => under[c] = journal[c].cat
    /\ (c \in refs \/ pc[c] = "returned") /\ Pending(c) /\ journal[c].inst = inst
          /\ ~signalled => c \in unsaved \/ Waiting(c)

StoreInv(c) == TagsInv(c) /\ WriteInv(c) /\ ShadowInv(c) /\ EntryInv(c) /\ BookInv(c)

\* No call has two jobs; the goroutine leaves only when it is told to; a job
\* that runs is under the catalog of its journal.
QueueInv ==
    /\ NoTwice(queue)
    /\ job # None => job.call \notin Members(queue)
    /\ job # None /\ job.runs => journal[job.call].cat = job.cat
    /\ loop # "live" => signalled

\* What was asked about is still what the journal says, and so is the answer.
AskInv ==
    /\ ask # None =>
          /\ ask.call \in refs
          /\ ask.journal.inst = journal[ask.call].inst
          /\ ask.journal.status = "decided" =>
                /\ journal[ask.call].status = "decided"
                /\ ask.journal.gen = 1
                /\ ask.journal.tags = ask.journal.cat
    /\ answer # None => answer.call \in refs
    /\ Writes!AdviceIsTrue

WInv == WType /\ (\A c \in StoreCalls : StoreInv(c)) /\ QueueInv /\ AskInv

------------------------------------------------------------------------------
(* Queues of calls. *)

LEMMA WriteFacts ==
    None \notin Writes!Entries /\ None \notin Writes!Jobs
BY PartsAssumption DEF PartsAssumption, Writes!WritesAssumption

LEMMA Joined ==
    ASSUME NEW q \in Seq(StoreCalls), NEW c \in StoreCalls
    PROVE  /\ Append(q, c) \in Seq(StoreCalls)
           /\ Members(Append(q, c)) = Members(q) \cup {c}
           /\ NoTwice(q) /\ c \notin Members(q) => NoTwice(Append(q, c))
<1> DEFINE n == Len(q)
<1>1. /\ n \in Nat /\ DOMAIN q = 1 .. n
      /\ DOMAIN Append(q, c) = 1 .. n + 1
      /\ \A i \in 1 .. n : Append(q, c)[i] = q[i]
      /\ Append(q, c)[n + 1] = c
      /\ Append(q, c) \in Seq(StoreCalls)
  OBVIOUS
<1>2. 1 .. n + 1 = (1 .. n) \cup {n + 1}
  BY <1>1
<1> HIDE DEF n
<1>3. Members(Append(q, c)) = Members(q) \cup {c}
  BY <1>1, <1>2 DEF Members
<1>4. NoTwice(q) /\ c \notin Members(q) => NoTwice(Append(q, c))
  BY <1>1, <1>2 DEF Members, NoTwice
<1> QED
  BY <1>1, <1>3, <1>4

LEMMA Left ==
    ASSUME NEW q \in Seq(StoreCalls), q # <<>>
    PROVE  /\ Tail(q) \in Seq(StoreCalls)
           /\ Head(q) \in StoreCalls /\ Head(q) \in Members(q)
           /\ NoTwice(q) => /\ NoTwice(Tail(q))
                            /\ Members(Tail(q)) = Members(q) \ {Head(q)}
<1> DEFINE n == Len(q)
<1>1. /\ n \in Nat /\ n >= 1 /\ DOMAIN q = 1 .. n
      /\ Head(q) = q[1] /\ Head(q) \in StoreCalls
      /\ Tail(q) \in Seq(StoreCalls)
      /\ DOMAIN Tail(q) = 1 .. n - 1
      /\ \A i \in 1 .. n - 1 : Tail(q)[i] = q[i + 1]
  OBVIOUS
<1> HIDE DEF n
<1>2. Head(q) \in Members(q)
  BY <1>1 DEF Members
<1>3. ASSUME NoTwice(q) PROVE NoTwice(Tail(q))
  BY <1>1, <1>3 DEF NoTwice
<1>4. ASSUME NoTwice(q) PROVE Members(Tail(q)) = Members(q) \ {Head(q)}
  <2>1. ASSUME NEW u \in Members(Tail(q)) PROVE u \in Members(q) \ {Head(q)}
    BY <1>1, <1>4, <2>1 DEF Members, NoTwice
  <2>2. ASSUME NEW u \in Members(q), u # Head(q) PROVE u \in Members(Tail(q))
    <3>1. PICK i \in 1 .. n : q[i] = u
      BY <1>1 DEF Members
    <3>2. i - 1 \in 1 .. n - 1 /\ Tail(q)[i - 1] = u
      BY <1>1, <2>2, <3>1
    <3> QED
      BY <1>1, <3>2 DEF Members
  <2> QED
    BY <2>1, <2>2
<1> QED
  BY <1>1, <1>2, <1>3, <1>4

------------------------------------------------------------------------------
(* What an action leaves alone. *)

\* A call that an action does not touch, while its guard stays, the signal is
\* not taken back and no catalog is published past a guard.
LEMMA StoreKept ==
    ASSUME NEW c \in StoreCalls, StoreInv(c), WType,
           pc'[c] = pc[c], d'[c] = d[c], fact'[c] = fact[c], journal'[c] = journal[c],
           under'[c] = under[c],
           c \in refs' <=> c \in refs,
           c \in guard => c \in guard' /\ catalog' = catalog,
           c \in unsaved => c \in unsaved',
           Waiting(c)' <=> Waiting(c),
           inst' = inst, signalled => signalled'
    PROVE  StoreInv(c)'
<1>1. (Written(c)' <=> Written(c)) /\ (Pending(c)' <=> Pending(c))
  BY DEF Written, Pending
<1>2. TagsInv(c)'
  BY DEF StoreInv, TagsInv
<1>3. WriteInv(c)'
  BY <1>1 DEF StoreInv, WriteInv
<1>4. ShadowInv(c)'
  BY <1>1 DEF StoreInv, ShadowInv
<1>5. EntryInv(c)'
  BY <1>1 DEF StoreInv, EntryInv
<1>6. BookInv(c)'
  BY <1>1 DEF StoreInv, BookInv, WType
<1> QED
  BY <1>2, <1>3, <1>4, <1>5, <1>6 DEF StoreInv

\* A client's question and answer, while entries of returned calls keep what
\* they were asked for.
LEMMA AskKept ==
    ASSUME WInv, UNCHANGED <<ask, answer>>, refs \subseteq refs',
           \A u \in refs : /\ journal'[u].inst = journal[u].inst
                           /\ journal[u].status = "decided" =>
                                 journal'[u].status = "decided"
    PROVE  AskInv'
BY DEF WInv, AskInv, Writes!AdviceIsTrue

\* The runtime, while it does not move.
LEMMA QueueKept ==
    ASSUME WInv, UNCHANGED <<queue, job, loop>>, signalled => signalled',
           job # None => journal'[job.call].cat = journal[job.call].cat
    PROVE  QueueInv' /\ \A c \in StoreCalls : Waiting(c)' <=> Waiting(c)
BY DEF WInv, QueueInv, Waiting, Members, NoTwice

\* An action about one call that leaves runtime, question and catalog alone.
LEMMA OneCall ==
    ASSUME WInv, NEW c \in StoreCalls, WType', StoreInv(c)',
           UNCHANGED <<catalog, inst, signalled, loop, queue, job, ask, answer>>,
           \A u \in StoreCalls \ {c} :
              /\ pc'[u] = pc[u] /\ d'[u] = d[u] /\ fact'[u] = fact[u]
              /\ journal'[u] = journal[u] /\ under'[u] = under[u]
              /\ u \in refs' <=> u \in refs
              /\ u \in guard => u \in guard'
              /\ u \in unsaved => u \in unsaved',
           c \in refs => c \in refs' /\ journal'[c] = journal[c],
           Waiting(c) => journal'[c] = journal[c]
    PROVE  WInv'
<1>1. QueueInv' /\ \A u \in StoreCalls : Waiting(u)' <=> Waiting(u)
  BY QueueKept DEF WInv, WType, Waiting, Writes!Jobs
<1>2. \A u \in StoreCalls \ {c} : StoreInv(u)'
  BY <1>1, StoreKept DEF WInv
<1>3. AskInv'
  BY AskKept DEF WInv, WType
<1> QED
  BY <1>1, <1>2, <1>3 DEF WInv

------------------------------------------------------------------------------
(* Steps of a store call. *)

\* A step of call c changes its place and its decision, or a part of these.
LEMMA WClassify ==
    ASSUME WInv, NEW c \in StoreCalls, Writes!Classify(c)
    PROVE  WInv'
<1>1. /\ UNCHANGED <<catalog, inst, signalled, loop, queue, job, guard, fact, journal,
                     refs, ask, answer, under, unsaved>>
      /\ pc[c] = "idle"
  BY DEF Writes!Classify, Writes!runtimeVars, Writes!boundVars, Writes!askVars
<1>2. StoreInv(c) /\ WType
  BY DEF WInv
<1>3. PICK dec \in Decisions, l \in {"asked", "lock"} :
         /\ d' = [d EXCEPT ![c] = dec] /\ pc' = [pc EXCEPT ![c] = l]
         /\ dec.tags = 0
         /\ dec.status \in {"none", "shadow", "unavailable"}
         /\ l = "asked" => dec.status = "none"
  <2> DEFINE none == Writes!NoDecision
  <2>1. none \in Decisions /\ none.tags = 0 /\ none.status = "none"
    BY DEF Writes!NoDecision, Decisions
  <2>2. catalog \in Nat /\ inst \in Nat
    BY <1>2 DEF WType
  <2>3. CASE /\ d' = [d EXCEPT ![c] = [none EXCEPT !.cat = catalog, !.inst = inst]]
             /\ pc' = [pc EXCEPT ![c] = "asked"]
    <3> DEFINE dec == [none EXCEPT !.cat = catalog, !.inst = inst]
    <3> HIDE DEF none
    <3>1. dec \in Decisions /\ dec.tags = 0 /\ dec.status = "none"
      BY <2>1, <2>2 DEF Decisions
    <3> QED
      BY <2>3, <3>1
  <2>4. CASE /\ d' = [d EXCEPT ![c] = [none EXCEPT !.inst = inst,
                       !.status = IF mode = "shadow" THEN "shadow" ELSE "unavailable"]]
             /\ pc' = [pc EXCEPT ![c] = "lock"]
    <3> HIDE DEF none
    <3>1. PICK st \in {"shadow", "unavailable"} :
             st = IF mode = "shadow" THEN "shadow" ELSE "unavailable"
      OBVIOUS
    <3> DEFINE dec == [none EXCEPT !.inst = inst, !.status = st]
    <3>2. dec \in Decisions /\ dec.tags = 0 /\ dec.status = st
      BY <2>1, <2>2 DEF Decisions
    <3>3. d' = [d EXCEPT ![c] = dec]
      BY <2>4, <3>1
    <3> QED
      BY <2>4, <3>1, <3>2, <3>3
  <2> QED
    BY <2>3, <2>4 DEF Writes!Classify, Writes!Goto
<1>4. /\ d' \in [StoreCalls -> Decisions] /\ d'[c] = dec
      /\ pc' \in [StoreCalls -> Steps] /\ pc'[c] = l
      /\ \A u \in StoreCalls \ {c} : d'[u] = d[u] /\ pc'[u] = pc[u]
  BY <1>2, <1>3 DEF WType, Steps
<1>5. WType'
  BY <1>1, <1>2, <1>4 DEF WType
<1>6. StoreInv(c)'
  BY <1>1, <1>2, <1>3, <1>4, WriteFacts
  DEF StoreInv, TagsInv, WriteInv, ShadowInv, EntryInv, BookInv, Written, Pending, WType,
      Waiting, Members
<1> QED
  BY <1>1, <1>4, <1>5, <1>6, OneCall

LEMMA WAnswer ==
    ASSUME WInv, NEW c \in StoreCalls, Writes!ProviderAnswers(c)
    PROVE  WInv'
<1>1. /\ UNCHANGED <<catalog, inst, signalled, loop, queue, job, guard, fact, journal,
                     refs, ask, answer, under, unsaved>>
      /\ pc[c] = "asked" /\ pc' = [pc EXCEPT ![c] = "lock"]
  BY DEF Writes!ProviderAnswers, Writes!runtimeVars, Writes!boundVars, Writes!askVars,
         Writes!Step, Writes!Goto
<1>2. StoreInv(c) /\ WType
  BY DEF WInv
<1>3. /\ d' \in [StoreCalls -> Decisions]
      /\ \A u \in StoreCalls \ {c} : d'[u] = d[u]
      /\ \/ d'[c].status = "decided" /\ d'[c].tags = d[c].cat /\ d'[c].cat = d[c].cat
         \/ d'[c].status = "abstained" /\ d'[c].tags = d[c].tags
  <2>1. d[c] \in Decisions
    BY <1>2 DEF WType
  <2>2. CASE d' = [d EXCEPT ![c].status = "decided", ![c].tags = d[c].cat]
    BY <1>2, <2>1, <2>2 DEF WType, Decisions
  <2>3. CASE d' = [d EXCEPT ![c].status = "abstained"]
    BY <1>2, <2>1, <2>3 DEF WType, Decisions
  <2> QED
    BY <2>2, <2>3 DEF Writes!ProviderAnswers
<1>4. /\ pc' \in [StoreCalls -> Steps] /\ pc'[c] = "lock"
      /\ \A u \in StoreCalls \ {c} : pc'[u] = pc[u]
  BY <1>1, <1>2 DEF WType, Steps
<1>5. WType'
  BY <1>1, <1>2, <1>3, <1>4 DEF WType
<1>6. StoreInv(c)'
  BY <1>1, <1>2, <1>3, <1>4, WriteFacts
  DEF StoreInv, TagsInv, WriteInv, ShadowInv, EntryInv, BookInv, Written, Pending, WType,
      Waiting, Members
<1> QED
  BY <1>1, <1>3, <1>4, <1>5, <1>6, OneCall

LEMMA WGiveUp ==
    ASSUME WInv, NEW c \in StoreCalls, Writes!GiveUp(c)
    PROVE  WInv'
<1>1. /\ UNCHANGED <<catalog, inst, signalled, loop, queue, job, d, fact, journal,
                     refs, ask, answer, under, unsaved>>
      /\ pc[c] \in {"asked", "lock", "write"} /\ pc' = [pc EXCEPT ![c] = "done"]
      /\ guard' = guard \ {c}
  BY DEF Writes!GiveUp, Writes!runtimeVars, Writes!boundVars, Writes!askVars, Writes!Goto
<1>2. StoreInv(c) /\ WType
  BY DEF WInv
<1>3. /\ pc' \in [StoreCalls -> Steps] /\ pc'[c] = "done"
      /\ \A u \in StoreCalls \ {c} : pc'[u] = pc[u]
  BY <1>1, <1>2 DEF WType, Steps
<1>4. WType'
  BY <1>1, <1>2, <1>3 DEF WType
<1>5. StoreInv(c)'
  BY <1>1, <1>2, <1>3, WriteFacts
  DEF StoreInv, TagsInv, WriteInv, ShadowInv, EntryInv, BookInv, Written, Pending, WType,
      Waiting, Members
<1> QED
  BY <1>1, <1>3, <1>4, <1>5, OneCall

LEMMA WGuard ==
    ASSUME WInv, NEW c \in StoreCalls, Writes!Guard(c)
    PROVE  WInv'
<1>1. /\ UNCHANGED <<catalog, inst, signalled, loop, queue, job, fact, journal,
                     refs, ask, answer, under, unsaved>>
      /\ pc[c] = "lock"
  BY DEF Writes!Guard, Writes!runtimeVars, Writes!boundVars, Writes!askVars
<1>2. StoreInv(c) /\ WType /\ d[c] \in Decisions
  BY DEF WInv, WType
<1>3. /\ d' \in [StoreCalls -> Decisions]
      /\ \A u \in StoreCalls \ {c} : d'[u] = d[u]
      /\ \/ /\ pc' = [pc EXCEPT ![c] = "guarded"] /\ guard' = guard \cup {c}
            /\ d' = d /\ d[c].status = "decided" /\ d[c].cat = catalog
         \/ /\ pc' = [pc EXCEPT ![c] = "write"] /\ guard' = guard
            /\ d'[c].status # "decided" /\ d'[c].tags = 0
  <2>1. CASE d[c].status = "decided" /\ Writes!Guardable(c)
    BY <1>2, <2>1 DEF Writes!Guard, Writes!Guardable, Writes!Goto, WType
  <2>2. CASE d[c].status = "decided" /\ ~Writes!Guardable(c)
    <3>1. /\ d' = [d EXCEPT ![c].status = "catalog_changed", ![c].tags = 0]
          /\ pc' = [pc EXCEPT ![c] = "write"] /\ guard' = guard
      BY <2>2 DEF Writes!Guard, Writes!Goto
    <3> QED
      BY <1>2, <3>1 DEF WType, Decisions
  <2>3. CASE d[c].status # "decided"
    BY <1>2, <2>3 DEF Writes!Guard, Writes!Goto, WType, StoreInv, TagsInv
  <2> QED
    BY <2>1, <2>2, <2>3
<1>4. /\ pc' \in [StoreCalls -> Steps] /\ pc'[c] \in {"guarded", "write"}
      /\ \A u \in StoreCalls \ {c} : pc'[u] = pc[u]
      /\ pc'[c] = "guarded" => /\ c \in guard' /\ d' = d /\ d[c].status = "decided"
                               /\ d[c].cat = catalog
      /\ pc'[c] = "write" => d'[c].status # "decided" /\ d'[c].tags = 0
  BY <1>2, <1>3 DEF WType, Steps
<1>5. WType'
  BY <1>1, <1>2, <1>3, <1>4 DEF WType
<1>6. StoreInv(c)'
  BY <1>1, <1>2, <1>3, <1>4, WriteFacts
  DEF StoreInv, TagsInv, WriteInv, ShadowInv, EntryInv, BookInv, Written, Pending, WType,
      Waiting, Members
<1> QED
  BY <1>1, <1>3, <1>4, <1>5, <1>6, OneCall

LEMMA WPrepare ==
    ASSUME WInv, NEW c \in StoreCalls, Writes!Prepare(c)
    PROVE  WInv'
<1>1. /\ UNCHANGED <<catalog, inst, signalled, loop, queue, job, guard, fact,
                     refs, ask, answer, under, unsaved>>
      /\ pc[c] = "guarded" /\ pc' = [pc EXCEPT ![c] = "write"]
  BY DEF Writes!Prepare, Writes!runtimeVars, Writes!askVars, Writes!Step, Writes!Goto
<1>2. StoreInv(c) /\ WType /\ d[c] \in Decisions
  BY DEF WInv, WType
<1> DEFINE entry == [status |-> "prepared", cat |-> d[c].cat, inst |-> inst, gen |-> 0,
                     tags |-> d[c].tags]
<1>3. entry \in Writes!Entries
  BY <1>2 DEF Writes!Entries, Writes!Statuses, Decisions, WType
<1>4. /\ entry.status = "prepared" /\ entry.cat = d[c].cat /\ entry.inst = inst
      /\ entry.tags = d[c].tags
  OBVIOUS
<1>5. \/ journal' = [journal EXCEPT ![c] = entry] /\ d' = d
      \/ journal' = journal /\ d' = [d EXCEPT ![c].status = "unavailable", ![c].tags = 0]
  BY DEF Writes!Prepare, Writes!Saved, Writes!SaveFails
<1> HIDE DEF entry
<1>6. /\ d' \in [StoreCalls -> Decisions]
      /\ journal' \in [StoreCalls -> Writes!Entries \cup {None}]
      /\ \A u \in StoreCalls \ {c} : d'[u] = d[u] /\ journal'[u] = journal[u]
      /\ \/ journal'[c] = entry /\ d'[c] = d[c]
         \/ journal'[c] = journal[c] /\ d'[c].status = "unavailable" /\ d'[c].tags = 0
  <2>1. CASE journal' = [journal EXCEPT ![c] = entry] /\ d' = d
    BY <1>2, <1>3, <2>1 DEF WType
  <2>2. CASE journal' = journal /\ d' = [d EXCEPT ![c].status = "unavailable", ![c].tags = 0]
    BY <1>2, <2>2 DEF WType, Decisions
  <2> QED
    BY <1>5, <2>1, <2>2
<1>7. /\ pc' \in [StoreCalls -> Steps] /\ pc'[c] = "write"
      /\ \A u \in StoreCalls \ {c} : pc'[u] = pc[u]
  BY <1>1, <1>2 DEF WType, Steps
<1>8. WType'
  BY <1>1, <1>2, <1>6, <1>7 DEF WType
<1>9. entry # None
  BY <1>3, WriteFacts
<1>10. ~Waiting(c) /\ c \notin refs /\ (Waiting(c)' <=> Waiting(c))
  BY <1>1, <1>2 DEF StoreInv, ShadowInv, Waiting, Members
<1>11. TagsInv(c)' /\ WriteInv(c)'
  BY <1>1, <1>2, <1>4, <1>6, <1>7, <1>9
  DEF StoreInv, TagsInv, WriteInv, Written, WType
<1>12. ShadowInv(c)' /\ EntryInv(c)' /\ BookInv(c)'
  BY <1>1, <1>2, <1>4, <1>6, <1>7, <1>9, <1>10
  DEF StoreInv, TagsInv, ShadowInv, EntryInv, BookInv, Written, Pending, WType
<1> QED
  BY <1>1, <1>6, <1>7, <1>8, <1>10, <1>11, <1>12, OneCall DEF StoreInv

\* The write of the fact: the journal of a decided call is prepared, and no
\* catalog was published since its decision.
LEMMA WUpsert ==
    ASSUME WInv, NEW c \in StoreCalls, Writes!Upsert(c)
    PROVE  WInv'
<1>1. /\ UNCHANGED <<catalog, inst, signalled, loop, queue, job, d, journal,
                     refs, ask, answer, unsaved>>
      /\ pc[c] = "write"
  BY DEF Writes!Upsert, Writes!runtimeVars, Writes!boundVars, Writes!askVars
<1>2. StoreInv(c) /\ WType /\ d[c] \in Decisions
  BY DEF WInv, WType
<1> DEFINE new == [gen |-> 1, tags |-> d[c].tags]
<1>3. new \in Facts /\ new.tags = d[c].tags
  BY <1>2 DEF Facts, Decisions
<1>4. \/ fact' = [fact EXCEPT ![c] = new] /\ under' = [under EXCEPT ![c] = catalog]
      \/ fact' = fact /\ under' = under
  BY DEF Writes!Upsert
<1> HIDE DEF new
<1>5. /\ fact' \in [StoreCalls -> Facts \cup {None}] /\ under' \in [StoreCalls -> Nat]
      /\ \A u \in StoreCalls \ {c} : fact'[u] = fact[u] /\ under'[u] = under[u]
      /\ \/ fact'[c] = new /\ under'[c] = catalog
         \/ fact'[c] = None
  BY <1>1, <1>2, <1>3, <1>4 DEF WType, StoreInv, WriteInv
<1>6. PICK l \in {"shadow", "complete", "done"} :
         /\ pc' = [pc EXCEPT ![c] = l]
         /\ l # "done" => fact'[c] # None /\ guard' = guard
         /\ l = "shadow" => d[c].status = "shadow"
         /\ l = "complete" => d[c].status = "decided"
         /\ guard' = guard \/ guard' = guard \ {c}
  BY DEF Writes!Upsert, Writes!Goto
<1>7. /\ pc' \in [StoreCalls -> Steps] /\ pc'[c] = l
      /\ \A u \in StoreCalls \ {c} : pc'[u] = pc[u]
      /\ \A u \in StoreCalls \ {c} : u \in guard => u \in guard'
  BY <1>2, <1>6 DEF WType, Steps
<1>8. WType'
  BY <1>1, <1>2, <1>5, <1>7 DEF WType
<1>9. ~Waiting(c) /\ c \notin refs /\ (Waiting(c)' <=> Waiting(c))
  BY <1>1, <1>2 DEF StoreInv, ShadowInv, Waiting, Members
<1>10. TagsInv(c)' /\ WriteInv(c)'
  BY <1>1, <1>2, <1>3, <1>5, <1>6, <1>7
  DEF StoreInv, TagsInv, WriteInv, Written, WType
<1>11. ShadowInv(c)' /\ EntryInv(c)'
  BY <1>1, <1>2, <1>5, <1>6, <1>7, <1>9
  DEF StoreInv, WriteInv, ShadowInv, EntryInv, Written, Pending
<1>12. BookInv(c)'
  BY <1>1, <1>2, <1>3, <1>5, <1>6, <1>7, <1>9
  DEF StoreInv, TagsInv, WriteInv, BookInv, Written, Pending, WType
<1> QED
  BY <1>1, <1>5, <1>7, <1>8, <1>9, <1>10, <1>11, <1>12, OneCall DEF StoreInv

LEMMA WComplete ==
    ASSUME WInv, NEW c \in StoreCalls, Writes!Complete(c)
    PROVE  WInv'
<1>1. /\ UNCHANGED <<catalog, inst, signalled, loop, queue, job, d, fact,
                     ask, answer, under, unsaved>>
      /\ pc[c] = "complete" /\ pc' = [pc EXCEPT ![c] = "done"]
      /\ guard' = guard \ {c} /\ refs' = refs \cup {c}
  BY DEF Writes!Complete, Writes!runtimeVars, Writes!askVars, Writes!Step, Writes!Goto
<1>2. StoreInv(c) /\ WType
  BY DEF WInv
<1>3. /\ journal[c] \in Writes!Entries /\ Written(c) /\ journal[c].status = "prepared"
      /\ d[c].status = "decided" /\ under[c] = d[c].cat /\ journal[c].cat = d[c].cat
      /\ journal[c].tags = d[c].tags
  BY <1>1, <1>2 DEF StoreInv, WriteInv, WType, Written
<1> DEFINE entry == [journal[c] EXCEPT !.status = "stored"]
<1>4. /\ entry \in Writes!Entries /\ entry.status = "stored" /\ entry.cat = journal[c].cat
      /\ entry.inst = journal[c].inst /\ entry.tags = journal[c].tags
  BY <1>3 DEF Writes!Entries, Writes!Statuses
<1>5. journal' = [journal EXCEPT ![c] = entry] \/ journal' = journal
  BY DEF Writes!Complete, Writes!Saved, Writes!SaveFails
<1> HIDE DEF entry
<1>6. /\ journal' \in [StoreCalls -> Writes!Entries \cup {None}]
      /\ \A u \in StoreCalls \ {c} : journal'[u] = journal[u]
      /\ journal'[c] = entry \/ journal'[c] = journal[c]
  BY <1>2, <1>4, <1>5 DEF WType
<1>7. /\ pc' \in [StoreCalls -> Steps] /\ pc'[c] = "done"
      /\ \A u \in StoreCalls \ {c} : pc'[u] = pc[u]
  BY <1>1, <1>2 DEF WType, Steps
<1>8. WType'
  BY <1>1, <1>2, <1>6, <1>7 DEF WType
<1>9. /\ ~Waiting(c) /\ c \notin refs /\ (Waiting(c)' <=> Waiting(c))
      /\ entry # None
  BY <1>1, <1>2, <1>4, WriteFacts DEF StoreInv, ShadowInv, Waiting, Members
<1>10. TagsInv(c)' /\ WriteInv(c)' /\ ShadowInv(c)'
  BY <1>1, <1>2, <1>3, <1>6, <1>7, <1>9
  DEF StoreInv, TagsInv, WriteInv, ShadowInv, Written
<1>11. EntryInv(c)' /\ BookInv(c)'
  BY <1>1, <1>2, <1>3, <1>4, <1>6, <1>7, <1>9
  DEF StoreInv, TagsInv, EntryInv, BookInv, Written, Pending
<1> QED
  BY <1>1, <1>6, <1>7, <1>8, <1>9, <1>10, <1>11, OneCall DEF StoreInv

LEMMA WShadow ==
    ASSUME WInv, NEW c \in StoreCalls, Writes!Shadow(c)
    PROVE  WInv'
<1>1. /\ UNCHANGED <<catalog, inst, signalled, loop, queue, job, d, guard, fact, refs,
                     ask, answer, under, unsaved>>
      /\ pc[c] = "shadow"
  BY DEF Writes!Shadow, Writes!runtimeVars, Writes!askVars
<1>2. StoreInv(c) /\ WType
  BY DEF WInv
<1> DEFINE entry == [status |-> "pending", cat |-> catalog, inst |-> inst, gen |-> 1,
                     tags |-> 0]
<1>3. /\ entry \in Writes!Entries /\ entry.status = "pending" /\ entry.inst = inst
      /\ entry.gen = 1
  BY <1>2 DEF Writes!Entries, Writes!Statuses, WType
<1>4. \/ journal' = [journal EXCEPT ![c] = entry] /\ pc' = [pc EXCEPT ![c] = "enqueue"]
      \/ journal' = journal /\ pc' = [pc EXCEPT ![c] = "done"]
  BY DEF Writes!Shadow, Writes!Saved, Writes!SaveFails, Writes!Goto
<1> HIDE DEF entry
<1>5. /\ journal' \in [StoreCalls -> Writes!Entries \cup {None}]
      /\ pc' \in [StoreCalls -> Steps]
      /\ \A u \in StoreCalls \ {c} : journal'[u] = journal[u] /\ pc'[u] = pc[u]
      /\ \/ journal'[c] = entry /\ pc'[c] = "enqueue"
         \/ journal'[c] = journal[c] /\ pc'[c] = "done"
  BY <1>2, <1>3, <1>4 DEF WType, Steps
<1>6. WType'
  BY <1>1, <1>2, <1>5 DEF WType
<1>7. /\ ~Waiting(c) /\ c \notin refs /\ (Waiting(c)' <=> Waiting(c))
      /\ entry # None
  BY <1>1, <1>2, <1>3, WriteFacts DEF StoreInv, ShadowInv, Waiting, Members
<1>8. TagsInv(c)' /\ WriteInv(c)'
  BY <1>1, <1>2, <1>5 DEF StoreInv, TagsInv, WriteInv, ShadowInv, Written
<1>9. ShadowInv(c)' /\ EntryInv(c)' /\ BookInv(c)'
  BY <1>1, <1>2, <1>3, <1>5, <1>7
  DEF StoreInv, TagsInv, ShadowInv, EntryInv, BookInv, Written, Pending, WType
<1> QED
  BY <1>1, <1>5, <1>6, <1>7, <1>8, <1>9, OneCall DEF StoreInv

\* The result of call c's job goes to the journal, or is noted as not saved.
LEMMA WRecord ==
    ASSUME WInv, NEW c \in StoreCalls, Pending(c), NEW t \in Nat,
           NEW st \in {"decided", "abstained", "failed"}, Writes!Record(c, st, t)
    PROVE  /\ journal' \in [StoreCalls -> Writes!Entries \cup {None}]
           /\ \A u \in StoreCalls \ {c} : journal'[u] = journal[u]
           /\ journal'[c] # None
           /\ journal'[c].inst = journal[c].inst
           /\ journal'[c].cat = journal[c].cat
           /\ journal'[c].gen = journal[c].gen
           /\ \/ journal'[c].status = st /\ journal'[c].tags = t
              \/ journal'[c] = journal[c] /\ c \in unsaved'
           /\ unsaved \subseteq unsaved'
<1>1. journal[c] \in Writes!Entries /\ WType
  BY DEF WInv, WType, Pending, Written
<1> DEFINE entry == [journal[c] EXCEPT !.status = st, !.tags = t]
<1>2. /\ entry \in Writes!Entries /\ entry.status = st /\ entry.tags = t
      /\ entry.cat = journal[c].cat /\ entry.inst = journal[c].inst
      /\ entry.gen = journal[c].gen
  BY <1>1 DEF Writes!Entries, Writes!Statuses
<1>3. \/ journal' = [journal EXCEPT ![c] = entry] /\ unsaved' = unsaved
      \/ journal' = journal /\ unsaved' = unsaved \cup {c}
  BY DEF Writes!Record, Writes!Saved, Writes!SaveFails
<1> HIDE DEF entry
<1>4. entry # None
  BY <1>2, WriteFacts
<1> QED
  BY <1>1, <1>2, <1>3, <1>4 DEF WType, Pending, Written

\* Whoever waited for a result, or came to the queue in vain, has one.
LEMMA Settled ==
    ASSUME WInv, NEW c \in StoreCalls, Pending(c), NEW t \in Nat,
           NEW st \in {"decided", "abstained", "failed"}, Writes!Record(c, st, t),
           st = "decided" => t = journal[c].cat,
           Waiting(c) \/ pc[c] \in {"enqueue", "send"}, ~Waiting(c)',
           UNCHANGED <<catalog, inst, signalled, d, guard, fact, refs, under>>,
           pc'[c] \in {"returned", "done"}, pc[c] = "done" <=> pc'[c] = "done"
    PROVE  StoreInv(c)'
<1>1. StoreInv(c) /\ WType
  BY DEF WInv
<1>2. /\ d[c].status = "shadow" /\ d[c].tags = 0
      /\ pc[c] \in {"enqueue", "send", "returned", "done"}
      /\ c \in refs => pc[c] = "done"
  BY <1>1 DEF StoreInv, TagsInv, ShadowInv
<1>3. /\ Written(c)'
      /\ journal'[c].inst = journal[c].inst
      /\ journal'[c].cat = journal[c].cat
      /\ journal'[c].gen = journal[c].gen
      /\ \/ journal'[c].status = st /\ journal'[c].tags = t
         \/ journal'[c] = journal[c] /\ c \in unsaved'
  BY WRecord DEF Written
<1>4. TagsInv(c)'
  BY <1>1, <1>2 DEF StoreInv, TagsInv
<1>5. WriteInv(c)'
  BY <1>2 DEF WriteInv
<1>6. ShadowInv(c)'
  BY <1>2, <1>3 DEF ShadowInv
<1>7. EntryInv(c)'
  BY <1>1, <1>2, <1>3 DEF StoreInv, EntryInv, Written, Pending
<1>8. BookInv(c)'
  BY <1>1, <1>2, <1>3 DEF StoreInv, TagsInv, BookInv, Written, Pending
<1> QED
  BY <1>4, <1>5, <1>6, <1>7, <1>8 DEF StoreInv

LEMMA WCheckQueue ==
    ASSUME WInv, NEW c \in StoreCalls, Writes!CheckQueue(c)
    PROVE  WInv'
<1>1. /\ UNCHANGED <<catalog, inst, signalled, loop, queue, job, d, guard, fact, refs,
                     ask, answer, under>>
      /\ pc[c] = "enqueue"
  BY DEF Writes!CheckQueue, Writes!runtimeVars, Writes!askVars
<1>2. StoreInv(c) /\ WType
  BY DEF WInv
<1>3. /\ Pending(c) /\ ~Waiting(c) /\ c \notin refs /\ d[c].status = "shadow"
      /\ (Waiting(c)' <=> Waiting(c))
  BY <1>1, <1>2 DEF StoreInv, ShadowInv, Waiting, Members
<1>4. CASE pc' = [pc EXCEPT ![c] = "returned"] /\ Writes!Record(c, "failed", 0)
  <2>1. /\ journal' \in [StoreCalls -> Writes!Entries \cup {None}]
        /\ \A u \in StoreCalls \ {c} : journal'[u] = journal[u]
        /\ unsaved \subseteq unsaved'
    BY <1>3, <1>4, WRecord
  <2>2. /\ pc' \in [StoreCalls -> Steps] /\ pc'[c] = "returned"
        /\ \A u \in StoreCalls \ {c} : pc'[u] = pc[u]
    BY <1>2, <1>4 DEF WType, Steps
  <2>3. StoreInv(c)'
    BY <1>1, <1>3, <1>4, <2>2, Settled
  <2>4. WType'
    BY <1>1, <1>2, <2>1, <2>2 DEF WType
  <2> QED
    BY <1>1, <1>3, <2>1, <2>2, <2>3, <2>4, OneCall
<1>5. CASE pc' = [pc EXCEPT ![c] = "send"] /\ UNCHANGED <<journal, unsaved>>
  <2>1. /\ pc' \in [StoreCalls -> Steps] /\ pc'[c] = "send"
        /\ \A u \in StoreCalls \ {c} : pc'[u] = pc[u]
    BY <1>2, <1>5 DEF WType, Steps
  <2>2. WType'
    BY <1>1, <1>2, <1>5, <2>1 DEF WType
  <2>3. StoreInv(c)'
    BY <1>1, <1>2, <1>3, <1>5, <2>1
    DEF StoreInv, TagsInv, WriteInv, ShadowInv, EntryInv, BookInv, Written, Pending
  <2> QED
    BY <1>1, <1>3, <1>5, <2>1, <2>2, <2>3, OneCall
<1> QED
  BY <1>4, <1>5 DEF Writes!CheckQueue, Writes!Goto

LEMMA WSend ==
    ASSUME WInv, NEW c \in StoreCalls, Writes!Send(c)
    PROVE  WInv'
<1>1. /\ UNCHANGED <<catalog, inst, signalled, loop, job, d, guard, fact, refs,
                     ask, answer, under>>
      /\ pc[c] = "send" /\ pc' = [pc EXCEPT ![c] = "returned"]
  BY DEF Writes!Send, Writes!askVars, Writes!Step, Writes!Goto
<1>2. StoreInv(c) /\ WType
  BY DEF WInv
<1>3. /\ Pending(c) /\ ~Waiting(c) /\ c \notin refs /\ d[c].status = "shadow"
  BY <1>1, <1>2 DEF StoreInv, ShadowInv
<1>4. /\ pc' \in [StoreCalls -> Steps] /\ pc'[c] = "returned"
      /\ \A u \in StoreCalls \ {c} : pc'[u] = pc[u]
  BY <1>1, <1>2 DEF WType, Steps
<1>5. CASE queue' = queue /\ Writes!Record(c, "failed", 0)
  <2>1. /\ journal' \in [StoreCalls -> Writes!Entries \cup {None}]
        /\ \A u \in StoreCalls \ {c} : journal'[u] = journal[u]
        /\ unsaved \subseteq unsaved'
    BY <1>3, <1>5, WRecord
  <2>2. ~Waiting(c)'
    BY <1>1, <1>3, <1>5 DEF Waiting, Members
  <2>3. StoreInv(c)'
    BY <1>1, <1>3, <1>4, <1>5, <2>2, Settled
  <2>4. WType'
    BY <1>1, <1>2, <1>4, <1>5, <2>1 DEF WType
  <2> QED
    BY <1>1, <1>3, <1>4, <1>5, <2>1, <2>3, <2>4, OneCall
<1>6. CASE queue' = Append(queue, c) /\ UNCHANGED <<journal, unsaved>>
  <2>1. /\ queue' \in Seq(StoreCalls) /\ Members(queue') = Members(queue) \cup {c}
        /\ NoTwice(queue) /\ c \notin Members(queue) => NoTwice(queue')
    BY <1>2, <1>6, Joined DEF WType
  <2>2. Waiting(c)' /\ \A u \in StoreCalls \ {c} : Waiting(u)' <=> Waiting(u)
    BY <1>1, <2>1 DEF Waiting
  <2>3. WType'
    BY <1>1, <1>2, <1>4, <1>6, <2>1 DEF WType
  <2>4. StoreInv(c)'
    BY <1>1, <1>2, <1>3, <1>4, <1>6, <2>2
    DEF StoreInv, TagsInv, WriteInv, ShadowInv, EntryInv, BookInv, Written, Pending
  <2>5. \A u \in StoreCalls \ {c} : StoreInv(u)'
    BY <1>1, <1>2, <1>4, <1>6, <2>2, StoreKept DEF WInv
  <2>6. QueueInv'
    BY <1>1, <1>3, <1>6, <2>1 DEF WInv, QueueInv, Waiting, NoTwice
  <2>7. AskInv'
    BY <1>1, <1>6, AskKept
  <2> QED
    BY <2>3, <2>4, <2>5, <2>6, <2>7 DEF WInv
<1> QED
  BY <1>5, <1>6 DEF Writes!Send, Writes!RecordFull

LEMMA WReturn ==
    ASSUME WInv, NEW c \in StoreCalls, Writes!Return(c)
    PROVE  WInv'
<1>1. /\ UNCHANGED <<catalog, inst, signalled, loop, queue, job, d, guard, fact, journal,
                     ask, answer, under, unsaved>>
      /\ pc[c] = "returned" /\ pc' = [pc EXCEPT ![c] = "done"]
      /\ refs' = refs \cup {c}
  BY DEF Writes!Return, Writes!runtimeVars, Writes!boundVars, Writes!askVars,
         Writes!Step, Writes!Goto
<1>2. StoreInv(c) /\ WType
  BY DEF WInv
<1>3. /\ pc' \in [StoreCalls -> Steps] /\ pc'[c] = "done"
      /\ \A u \in StoreCalls \ {c} : pc'[u] = pc[u]
  BY <1>1, <1>2 DEF WType, Steps
<1>4. WType'
  BY <1>1, <1>2, <1>3 DEF WType
<1>5. Waiting(c)' <=> Waiting(c)
  BY <1>1 DEF Waiting, Members
<1>6. StoreInv(c)'
  BY <1>1, <1>2, <1>3, <1>5
  DEF StoreInv, TagsInv, WriteInv, ShadowInv, EntryInv, BookInv, Written, Pending
<1> QED
  BY <1>1, <1>3, <1>4, <1>6, OneCall

\* Somebody changes or deletes the fact: its tags stay.
LEMMA WChangeFact ==
    ASSUME WInv, NEW c \in StoreCalls, Writes!ChangeFact(c)
    PROVE  WInv'
<1>1. /\ UNCHANGED <<catalog, inst, signalled, loop, queue, job, pc, d, guard, journal, refs,
                     ask, answer, under, unsaved>>
      /\ fact[c] # None
  BY DEF Writes!ChangeFact, Writes!runtimeVars, Writes!askVars
<1>2. StoreInv(c) /\ WType /\ fact[c] \in Facts
  BY <1>1 DEF WInv, WType
<1>3. /\ fact' \in [StoreCalls -> Facts \cup {None}]
      /\ \A u \in StoreCalls \ {c} : fact'[u] = fact[u]
      /\ fact'[c] = None \/ fact'[c].tags = fact[c].tags
  <2>1. CASE fact' = [fact EXCEPT ![c] = None]
    BY <1>2, <2>1 DEF WType
  <2>2. CASE fact' = [fact EXCEPT ![c].gen = 2]
    BY <1>2, <2>2 DEF WType, Facts
  <2> QED
    BY <2>1, <2>2 DEF Writes!ChangeFact
<1>4. WType'
  BY <1>1, <1>2, <1>3 DEF WType
<1>5. Waiting(c)' <=> Waiting(c)
  BY <1>1 DEF Waiting, Members
<1>6. StoreInv(c)'
  BY <1>1, <1>2, <1>3, <1>5
  DEF StoreInv, TagsInv, WriteInv, ShadowInv, EntryInv, BookInv, Written, Pending
<1> QED
  BY <1>1, <1>3, <1>4, <1>6, OneCall

------------------------------------------------------------------------------
(* Steps of the runtime and of the world. *)

LEMMA WTake ==
    ASSUME WInv, Writes!Take
    PROVE  WInv'
<1> DEFINE c == Head(queue)
<1>1. /\ UNCHANGED <<catalog, inst, signalled, loop, pc, d, guard, fact, journal, refs,
                     ask, answer, under, unsaved>>
      /\ job = None /\ queue # <<>> /\ queue' = Tail(queue)
      /\ job' = [call |-> c, cat |-> catalog,
                 runs |-> ~signalled /\ journal[c].cat = catalog]
  BY DEF Writes!Take, Writes!boundVars, Writes!askVars
<1>2. WType /\ QueueInv
  BY DEF WInv
<1>3. /\ queue' \in Seq(StoreCalls) /\ c \in StoreCalls /\ c \in Members(queue)
      /\ NoTwice(queue') /\ Members(queue') = Members(queue) \ {c}
  BY <1>1, <1>2, Left DEF WType, QueueInv
<1> HIDE DEF c
<1>4. PICK runs \in BOOLEAN : runs = (~signalled /\ journal[c].cat = catalog)
  OBVIOUS
<1>5. /\ job' \in Writes!Jobs /\ job'.call = c /\ job'.cat = catalog
      /\ job'.runs => journal[c].cat = catalog
      /\ job' # None
  <2>1. job' = [call |-> c, cat |-> catalog, runs |-> runs]
    BY <1>1, <1>4
  <2>2. job' \in Writes!Jobs /\ job'.call = c /\ job'.cat = catalog /\ job'.runs = runs
    BY <1>2, <1>3, <2>1 DEF Writes!Jobs, WType
  <2> QED
    BY <1>4, <2>2, WriteFacts
<1>6. \A u \in StoreCalls : Waiting(u)' <=> Waiting(u)
  BY <1>1, <1>3, <1>5 DEF Waiting
<1>7. WType'
  BY <1>1, <1>2, <1>3, <1>5 DEF WType
<1>8. \A u \in StoreCalls : StoreInv(u)'
  BY <1>1, <1>6, StoreKept DEF WInv
<1>9. QueueInv'
  BY <1>1, <1>2, <1>3, <1>5 DEF QueueInv, NoTwice
<1>10. AskInv'
  BY <1>1, AskKept
<1> QED
  BY <1>7, <1>8, <1>9, <1>10 DEF WInv

\* A job ends, by its result or because the runtime leaves.
LEMMA JobEnds ==
    ASSUME WInv, NEW c \in StoreCalls, Waiting(c), NEW t \in Nat,
           NEW st \in {"decided", "abstained", "failed"}, Writes!Record(c, st, t),
           st = "decided" => t = journal[c].cat,
           UNCHANGED <<catalog, inst, signalled, pc, d, guard, fact, refs, under, ask, answer>>,
           ~Waiting(c)', \A u \in StoreCalls \ {c} : Waiting(u)' <=> Waiting(u),
           queue' \in Seq(StoreCalls), job' \in Writes!Jobs \cup {None}, QueueInv'
    PROVE  WInv'
<1>1. WType /\ Pending(c) /\ pc[c] \in {"returned", "done"}
  BY DEF WInv, StoreInv, ShadowInv
<1>2. /\ journal' \in [StoreCalls -> Writes!Entries \cup {None}]
      /\ \A u \in StoreCalls \ {c} : journal'[u] = journal[u]
      /\ journal'[c].inst = journal[c].inst
      /\ unsaved \subseteq unsaved'
  BY <1>1, WRecord
<1>3. WType'
  BY <1>1, <1>2 DEF WType
<1>4. StoreInv(c)'
  BY <1>1, Settled
<1>5. \A u \in StoreCalls \ {c} : StoreInv(u)'
  BY <1>1, <1>2, StoreKept DEF WInv
<1>6. AskInv'
  BY <1>1, <1>2, AskKept DEF WType, Pending
<1> QED
  BY <1>3, <1>4, <1>5, <1>6 DEF WInv

LEMMA WFinish ==
    ASSUME WInv, Writes!Finish
    PROVE  WInv'
<1>1. /\ UNCHANGED <<catalog, inst, signalled, loop, queue, pc, d, guard, fact, refs,
                     ask, answer, under>>
      /\ job # None /\ job' = None
  BY DEF Writes!Finish, Writes!askVars
<1>2. WType /\ QueueInv /\ job \in Writes!Jobs /\ job.call \in StoreCalls /\ job.cat \in Nat
  BY <1>1 DEF WInv, WType, Writes!Jobs
<1> PICK c \in StoreCalls : c = job.call
  BY <1>2
<1>3. /\ Waiting(c) /\ ~Waiting(c)'
      /\ \A u \in StoreCalls \ {c} : Waiting(u)' <=> Waiting(u)
  BY <1>1, <1>2 DEF Waiting, QueueInv, Members
<1>4. QueueInv'
  BY <1>1, <1>2 DEF QueueInv, Members, NoTwice
<1>5. \/ Writes!Record(c, "decided", job.cat) /\ job.cat = journal[c].cat
      \/ Writes!Record(c, "abstained", 0)
      \/ Writes!Record(c, "failed", 0)
  BY <1>1, <1>2 DEF Writes!Finish, QueueInv
<1>6. PICK st \in {"decided", "abstained", "failed"}, t \in Nat :
         Writes!Record(c, st, t) /\ (st = "decided" => t = journal[c].cat)
  BY <1>2, <1>5
<1> QED
  BY <1>1, <1>2, <1>3, <1>4, <1>6, JobEnds DEF WType

LEMMA WDrain ==
    ASSUME WInv, Writes!Drain
    PROVE  WInv'
<1>1. /\ UNCHANGED <<catalog, inst, signalled, job, pc, d, guard, fact, refs,
                     ask, answer, under>>
      /\ loop = "draining"
  BY DEF Writes!Drain, Writes!askVars
<1>2. WType /\ QueueInv /\ signalled
  BY <1>1 DEF WInv, QueueInv
<1>3. CASE queue = <<>>
  <2>1. UNCHANGED <<queue, journal, unsaved>>
    BY <1>3 DEF Writes!Drain
  <2>2. \A u \in StoreCalls : Waiting(u)' <=> Waiting(u)
    BY <1>1, <2>1 DEF Waiting, Members
  <2>3. \A u \in StoreCalls : StoreInv(u)'
    BY <1>1, <2>1, <2>2, StoreKept DEF WInv
  <2>4. WType' /\ QueueInv'
    BY <1>1, <1>2, <2>1 DEF WType, QueueInv, Members, NoTwice
  <2>5. AskInv'
    BY <1>1, <2>1, AskKept
  <2> QED
    BY <2>3, <2>4, <2>5 DEF WInv
<1>4. CASE queue # <<>>
  <2> PICK c \in StoreCalls : c = Head(queue)
    BY <1>2, <1>4, Left DEF WType
  <2>1. queue' = Tail(queue) /\ loop' = loop /\ Writes!Record(c, "failed", 0)
    BY <1>4 DEF Writes!Drain
  <2>2. /\ queue' \in Seq(StoreCalls) /\ c \in StoreCalls /\ c \in Members(queue)
        /\ NoTwice(queue') /\ Members(queue') = Members(queue) \ {c}
    BY <1>2, <1>4, <2>1, Left DEF WType, QueueInv
  <2>3. job # None => job.call # c
    BY <1>2, <2>2 DEF QueueInv
  <2>4. /\ Waiting(c) /\ ~Waiting(c)'
        /\ \A u \in StoreCalls \ {c} : Waiting(u)' <=> Waiting(u)
    BY <1>1, <2>2, <2>3 DEF Waiting
  <2>5. Pending(c)
    BY <2>2, <2>4 DEF WInv, StoreInv, ShadowInv
  <2>6. \A u \in StoreCalls \ {c} : journal'[u] = journal[u]
    BY <2>1, <2>2, <2>5, WRecord
  <2>7. QueueInv'
    BY <1>1, <1>2, <2>1, <2>2, <2>3, <2>6 DEF QueueInv, WType, Writes!Jobs, NoTwice
  <2> QED
    BY <1>1, <1>2, <2>1, <2>2, <2>4, <2>7, JobEnds DEF WType
<1> QED
  BY <1>3, <1>4

\* The client's steps, and those of the world that only let time pass.
LEMMA WQuiet ==
    ASSUME WInv, \/ Writes!Leave \/ Writes!Signal \/ Writes!Publish
    PROVE  WInv'
<1>1. /\ UNCHANGED <<inst, queue, job, pc, d, guard, fact, journal, refs,
                     ask, answer, under, unsaved>>
      /\ catalog' = catalog \/ (guard = {} /\ catalog' = catalog + 1)
      /\ signalled' \in BOOLEAN /\ (signalled => signalled')
      /\ loop' # "live" => signalled'
  BY DEF Writes!Leave, Writes!Signal, Writes!Publish, Writes!runtimeVars,
         Writes!boundVars, Writes!askVars, WInv, WType, QueueInv
<1>2. \A u \in StoreCalls : Waiting(u)' <=> Waiting(u)
  BY <1>1 DEF Waiting, Members
<1>3. \A u \in StoreCalls : StoreInv(u)'
  BY <1>1, <1>2, StoreKept DEF WInv
<1>4. WType' /\ QueueInv'
  BY <1>1 DEF WInv, WType, QueueInv, Members, NoTwice
<1>5. AskInv'
  BY <1>1, AskKept
<1> QED
  BY <1>3, <1>4, <1>5 DEF WInv

LEMMA WRestart ==
    ASSUME WInv, Writes!Restart
    PROVE  WInv'
<1>1. /\ UNCHANGED <<catalog, d, fact, journal, refs, under, unsaved>>
      /\ inst' = inst + 1 /\ signalled' = FALSE /\ loop' = "live"
      /\ queue' = <<>> /\ job' = None /\ ask' = None /\ answer' = None
      /\ pc' = [c \in StoreCalls |-> IF pc[c] = "idle" THEN "idle" ELSE "done"]
  BY DEF Writes!Restart, Writes!boundVars
<1>2. WType
  BY DEF WInv
<1>3. /\ pc' \in [StoreCalls -> Steps]
      /\ \A c \in StoreCalls : /\ pc[c] = "idle" => pc'[c] = "idle"
                               /\ pc[c] # "idle" => pc'[c] = "done"
  BY <1>1 DEF Steps
<1>4. Members(queue') = {} /\ queue' \in Seq(StoreCalls) /\ NoTwice(queue')
  BY <1>1 DEF Members, NoTwice
<1>5. WType' /\ QueueInv' /\ AskInv'
  <2>1. WType'
    <3>1. catalog' \in Nat \ {0} /\ inst' \in Nat
      BY <1>1, <1>2 DEF WType
    <3>3. /\ signalled' \in BOOLEAN
          /\ job' \in Writes!Jobs \cup {None} /\ ask' \in Asks \cup {None}
      BY <1>1
    <3>2. /\ d' \in [StoreCalls -> Decisions] /\ refs' \subseteq StoreCalls
          /\ fact' \in [StoreCalls -> Facts \cup {None}]
          /\ journal' \in [StoreCalls -> Writes!Entries \cup {None}]
          /\ under' \in [StoreCalls -> Nat]
      BY <1>1, <1>2 DEF WType
    <3> QED
      BY <1>3, <1>4, <3>1, <3>2, <3>3 DEF WType
  <2>2. NoTwice(queue)'
    BY <1>4 DEF NoTwice
  <2>3. QueueInv'
    BY <1>1, <2>2 DEF QueueInv
  <2>4. AskInv'
    BY <1>1 DEF AskInv, Writes!AdviceIsTrue
  <2> QED
    BY <2>1, <2>3, <2>4
<1>6. ASSUME NEW c \in StoreCalls PROVE StoreInv(c)'
  <2>1. StoreInv(c) /\ ~Waiting(c)'
    BY <1>1, <1>4 DEF WInv, Waiting
  <2>2. TagsInv(c)' /\ WriteInv(c)' /\ ShadowInv(c)'
    BY <1>1, <1>3, <2>1 DEF StoreInv, TagsInv, WriteInv, ShadowInv, Written
  <2>3. EntryInv(c)' /\ BookInv(c)'
    <3>1. Written(c) => journal[c].inst \in Nat /\ journal[c].inst <= inst
      BY <1>2, <2>1 DEF StoreInv, EntryInv, WType, Written, Writes!Entries
    <3> QED
      BY <1>1, <1>2, <1>3, <2>1, <3>1 DEF StoreInv, EntryInv, BookInv, Written, Pending, WType
  <2> QED
    BY <2>2, <2>3 DEF StoreInv
<1> QED
  BY <1>5, <1>6 DEF WInv

LEMMA WAsk ==
    ASSUME WInv, (\E c \in StoreCalls : Writes!Ask(c)) \/ Writes!GetFact
    PROVE  WInv'
<1>1. UNCHANGED <<catalog, inst, signalled, loop, queue, job, pc, d, guard, fact, journal,
                  refs, under, unsaved>>
  BY DEF Writes!Ask, Writes!GetFact, Writes!runtimeVars, Writes!boundVars
<1>2. WType /\ AskInv
  BY DEF WInv
<1>3. \A u \in StoreCalls : Waiting(u)' <=> Waiting(u)
  BY <1>1 DEF Waiting, Members
<1>4. \A u \in StoreCalls : StoreInv(u)'
  BY <1>1, <1>3, StoreKept DEF WInv
<1>5. QueueInv'
  BY <1>1 DEF WInv, QueueInv, Members, NoTwice
<1>6. CASE \E c \in StoreCalls : Writes!Ask(c)
  <2>1. PICK c \in StoreCalls :
           /\ c \in refs /\ answer' = None
           /\ ask' = [call |-> c, inst |-> inst, journal |-> journal[c], gen |-> None]
    BY <1>6 DEF Writes!Ask
  <2>2. journal[c] \in Writes!Entries /\ Written(c)
    BY <1>2, <2>1 DEF WInv, StoreInv, ShadowInv, WType, Written
  <2>3. /\ ask' \in Asks /\ ask'.call = c /\ ask'.journal = journal[c]
    BY <1>2, <2>1, <2>2 DEF Asks, WType
  <2>4. WType'
    BY <1>1, <1>2, <2>3 DEF WType
  <2>5. EntryInv(c)
    BY DEF WInv, StoreInv
  <2>6. AskInv'
    BY <1>1, <2>1, <2>2, <2>3, <2>5 DEF AskInv, EntryInv, Writes!AdviceIsTrue
  <2> QED
    BY <1>4, <1>5, <2>4, <2>6 DEF WInv
<1>7. CASE Writes!GetFact
  <2>1. /\ ask # None /\ UNCHANGED answer
        /\ ask' = [ask EXCEPT !.gen = IF fact[ask.call] = None THEN 0
                                      ELSE fact[ask.call].gen]
    BY <1>7 DEF Writes!GetFact
  <2>2. ask \in Asks /\ ask.call \in StoreCalls
    BY <1>2, <2>1 DEF WType, Asks
  <2>3. PICK g \in Nat :
           g = IF fact[ask.call] = None THEN 0 ELSE fact[ask.call].gen
    BY <1>2, <2>2 DEF WType, Facts
  <2>4. /\ ask' \in Asks /\ ask'.call = ask.call /\ ask'.journal = ask.journal
    BY <2>1, <2>2, <2>3 DEF Asks
  <2>5. WType'
    BY <1>1, <1>2, <2>4 DEF WType
  <2>6. AskInv'
    BY <1>1, <1>2, <2>1, <2>4 DEF AskInv, Writes!AdviceIsTrue
  <2> QED
    BY <1>4, <1>5, <2>5, <2>6 DEF WInv
<1> QED
  BY <1>6, <1>7

LEMMA WReply ==
    ASSUME WInv, Writes!Answer
    PROVE  WInv'
<1>1. /\ UNCHANGED <<catalog, inst, signalled, loop, queue, job, pc, d, guard, fact, journal,
                     refs, under, unsaved>>
      /\ ask # None /\ ask' = None
  BY DEF Writes!Answer, Writes!runtimeVars, Writes!boundVars
<1>2. WType /\ AskInv
  BY DEF WInv
<1>3. \A u \in StoreCalls : Waiting(u)' <=> Waiting(u)
  BY <1>1 DEF Waiting, Members
<1>4. \A u \in StoreCalls : StoreInv(u)'
  BY <1>1, <1>3, StoreKept DEF WInv
<1>5. QueueInv' /\ WType'
  BY <1>1, <1>2 DEF WInv, QueueInv, Members, NoTwice, WType
<1>6. PICK late \in BOOLEAN :
         answer' = [call |-> ask.call, gen |-> ask.gen, catalog |-> catalog, inst |-> inst,
                    tags |-> ask.journal.tags,
                    status |-> IF ask.gen # ask.journal.gen THEN "outdated"
                               ELSE IF ask.inst # inst \/ signalled THEN "unavailable"
                               ELSE Writes!AdviceNow(ask.journal, late, catalog)]
  BY DEF Writes!Answer
<1> DEFINE told == IF ask.gen # ask.journal.gen THEN "outdated"
                   ELSE IF ask.inst # inst \/ signalled THEN "unavailable"
                   ELSE Writes!AdviceNow(ask.journal, late, catalog)
<1>7. /\ told = "decided" =>
            /\ ask.gen = ask.journal.gen /\ ask.journal.status = "decided"
            /\ ask.journal.cat = catalog
      /\ told = "pending" => ask.journal.inst = inst
  <2>1. ask \in Asks /\ ask.journal \in Writes!Entries
    BY <1>1, <1>2 DEF WType, Asks
  <2>2. ask.journal.status \in Writes!Statuses
    BY <2>1 DEF Writes!Entries
  <2> QED
    BY <2>2 DEF Writes!AdviceNow, Writes!AdviceFor, Writes!Statuses
<1> HIDE DEF told
<1>8. /\ answer'.call = ask.call /\ answer'.gen = ask.gen /\ answer'.catalog = catalog
      /\ answer'.inst = inst /\ answer'.tags = ask.journal.tags /\ answer'.status = told
  BY <1>6 DEF told
<1>9. AskInv'
  BY <1>1, <1>2, <1>7, <1>8 DEF AskInv, Writes!AdviceIsTrue
<1> QED
  BY <1>4, <1>5, <1>9 DEF WInv

LEMMA WInit ==
    ASSUME Writes!Init
    PROVE  WInv
<1>1. Members(queue) = {} /\ NoTwice(queue) /\ queue \in Seq(StoreCalls)
  BY DEF Writes!Init, Members, NoTwice
<1>2. Writes!NoDecision \in Decisions /\ Writes!NoDecision.tags = 0
      /\ Writes!NoDecision.status = "none"
  BY DEF Writes!NoDecision, Decisions
<1>3. WType
  <2>1. d \in [StoreCalls -> Decisions] /\ pc \in [StoreCalls -> Steps]
    BY <1>2 DEF Writes!Init, Steps
  <2>2. /\ fact \in [StoreCalls -> Facts \cup {None}]
        /\ journal \in [StoreCalls -> Writes!Entries \cup {None}]
        /\ under \in [StoreCalls -> Nat]
    BY DEF Writes!Init
  <2>3. catalog \in Nat \ {0} /\ inst \in Nat /\ refs \subseteq StoreCalls
    BY DEF Writes!Init
  <2>4. /\ signalled \in BOOLEAN
        /\ job \in Writes!Jobs \cup {None} /\ ask \in Asks \cup {None}
    <3>1. signalled = FALSE /\ job = None /\ ask = None
      BY DEF Writes!Init
    <3> QED
      BY <3>1
  <2> QED
    BY <1>1, <2>1, <2>2, <2>3, <2>4 DEF WType
<1>4. QueueInv /\ AskInv
  BY <1>1 DEF Writes!Init, QueueInv, AskInv, Writes!AdviceIsTrue
<1>5. \A c \in StoreCalls : ~Waiting(c)
  BY <1>1 DEF Writes!Init, Waiting
<1>6. \A c \in StoreCalls : StoreInv(c)
  BY <1>2, <1>5 DEF Writes!Init, StoreInv, TagsInv, WriteInv, ShadowInv, EntryInv, BookInv,
     Written, Pending
<1> QED
  BY <1>3, <1>4, <1>6 DEF WInv

LEMMA WStep ==
    ASSUME WInv, [Writes!Next]_(Writes!vars)
    PROVE  WInv'
<1>1. ASSUME NEW c \in StoreCalls
      PROVE  /\ Writes!Classify(c) => WInv'
             /\ Writes!ProviderAnswers(c) => WInv'
             /\ Writes!GiveUp(c) => WInv'
             /\ Writes!Guard(c) => WInv'
             /\ Writes!Prepare(c) => WInv'
             /\ Writes!Upsert(c) => WInv'
             /\ Writes!Complete(c) => WInv'
             /\ Writes!Shadow(c) => WInv'
             /\ Writes!CheckQueue(c) => WInv'
             /\ Writes!Send(c) => WInv'
             /\ Writes!Return(c) => WInv'
             /\ Writes!ChangeFact(c) => WInv'
  BY WClassify, WAnswer, WGiveUp, WGuard, WPrepare, WUpsert, WComplete, WShadow,
     WCheckQueue, WSend, WReturn, WChangeFact
<1>2. /\ (\E c \in StoreCalls : Writes!Ask(c)) \/ Writes!GetFact => WInv'
      /\ Writes!Take => WInv'
      /\ Writes!Finish => WInv'
      /\ Writes!Drain => WInv'
      /\ Writes!Leave \/ Writes!Signal \/ Writes!Publish => WInv'
      /\ Writes!Answer => WInv'
      /\ Writes!Restart => WInv'
  BY WAsk, WTake, WFinish, WDrain, WQuiet, WReply, WRestart
<1>3. CASE UNCHANGED Writes!vars
  <2>1. UNCHANGED <<catalog, inst, signalled, loop, queue, job, pc, d, guard, fact,
                    journal, refs, ask, answer, under, unsaved>>
    BY <1>3 DEF Writes!vars
  <2>2. \A u \in StoreCalls : Waiting(u)' <=> Waiting(u)
    BY <2>1 DEF Waiting, Members
  <2>3. \A u \in StoreCalls : StoreInv(u)'
    BY <2>1, <2>2, StoreKept DEF WInv
  <2>4. WType' /\ QueueInv'
    BY <2>1 DEF WInv, WType, QueueInv, Members, NoTwice
  <2>5. AskInv'
    BY <2>1, AskKept
  <2> QED
    BY <2>3, <2>4, <2>5 DEF WInv
<1> QED
  BY <1>1, <1>2, <1>3 DEF Writes!Next

LEMMA WAlways == MCSpec => []WInv
<1>1. MCInit => WInv
  BY WInit DEF MCInit
<1>2. WInv /\ [MCNext]_<<part, vars, historyVars, writeVars>> => WInv'
  <2> SUFFICES ASSUME WInv, [MCNext]_<<part, vars, historyVars, writeVars>>
               PROVE  WInv'
    OBVIOUS
  <2>1. [Writes!Next]_(Writes!vars)
    BY DEF MCNext, writeVars, Writes!vars
  <2> QED
    BY <2>1, WStep
<1> QED
  BY <1>1, <1>2, PTL DEF MCSpec

\* Tags of the provider are on a fact only if it was stored while the catalog
\* they came from was active and the journal says so; a pending reference of a
\* runtime that lives has a job; and advice given as decided is true of the
\* fact and of the catalog.  For any number of calls, any queue and any number
\* of catalogs, starts and failing saves (internal/memory/ai_write.go,
\* ai_runtime.go, ai_write_recommendation.go).
THEOREM AdviceSound == MCSpec => []AdviceIsFollowed
<1>1. WInv => AdviceIsFollowed
  <2> SUFFICES ASSUME WInv PROVE AdviceIsFollowed
    OBVIOUS
  <2>1. Writes!AppliedByTheBook
    BY DEF WInv, StoreInv, BookInv, Written, Writes!AppliedByTheBook
  <2>2. Writes!PendingHasAJob
    <3> SUFFICES ASSUME NEW c \in refs, journal[c].status = "pending",
                        journal[c].inst = inst, ~signalled
                 PROVE  \/ c \in unsaved
                        \/ job # None /\ job.call = c
                        \/ \E i \in DOMAIN queue : queue[i] = c
      BY DEF Writes!PendingHasAJob
    <3>1. c \in StoreCalls /\ Written(c)
      BY DEF WInv, WType, StoreInv, ShadowInv
    <3>2. c \in unsaved \/ Waiting(c)
      BY <3>1 DEF WInv, StoreInv, BookInv, Pending
    <3> QED
      BY <3>2 DEF Waiting, Members
  <2>3. Writes!AdviceIsTrue
    BY DEF WInv, AskInv
  <2> QED
    BY <2>1, <2>2, <2>3 DEF AdviceIsFollowed, Writes!ShadowAdviceIsTrue
<1> QED
  BY <1>1, WAlways, PTL
=============================================================================
