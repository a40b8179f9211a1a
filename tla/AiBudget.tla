------------------------------ MODULE AiBudget ------------------------------
(***************************************************************************)
(* The ledger of AI calls (internal/aipolicy/budget.go): how many calls    *)
(* the server may make in a day and how many input tokens they may cost.   *)
(*                                                                         *)
(* A call reserves the most it can cost before it is dispatched, and gives *)
(* back what it did not use once the provider has told.  The ledger lives  *)
(* in memory and in a file that is replaced by a rename; the process may   *)
(* die at any step, the write may fail before or after the rename, and the *)
(* clock may step over midnight in either direction.                       *)
(*                                                                         *)
(* The queue of the code holds one call.  A second one is refused at once  *)
(* and changes nothing, so one call in flight is all there is.             *)
(***************************************************************************)
EXTENDS Naturals, FiniteSets

CONSTANTS
    DailyCalls,   \* Limits.DailyCalls
    DailyTokens,  \* Limits.DailyInputTokens
    Reservation,  \* Limits.ReservationTokens
    LastDay       \* bound: days the clock may show

\* What NewBudget and Config.Validate demand of the limits.
ASSUME LimitsAssumption ==
    /\ DailyCalls \in Nat \ {0}
    /\ DailyTokens \in Nat \ {0}
    /\ Reservation \in 1 .. DailyTokens
    /\ LastDay \in Nat \ {0}

Days == 1 .. LastDay
CallIds == 1 .. DailyCalls

VARIABLES
    today,   \* what the clock shows
    ledger,  \* Budget.state of the running process
    disk,    \* budget.json; day 0 stands for no file
    call,    \* the call in flight: its day and ID, and whether it was sent
    spent,   \* observer: spent[d], the tokens that calls of day d cost
    sent,    \* observer: sent[d], the calls of day d that were dispatched
    overrun  \* observer: days whose allowance an untrusted report has closed

vars == <<today, ledger, disk, call, spent, sent, overrun>>

Ledgers == [day : 0 .. LastDay, calls : 0 .. DailyCalls,
            next : 0 .. DailyCalls, tokens : 0 .. DailyTokens,
            pending : SUBSET CallIds]

NoCall == [stage |-> "none", day |-> 0, id |-> 0]
Calls == [stage : {"none", "reserved", "sent"}, day : 0 .. LastDay,
          id : 0 .. DailyCalls]

TypeOK ==
    /\ today \in Days
    /\ ledger \in Ledgers /\ disk \in Ledgers
    /\ call \in Calls
    /\ spent \in [Days -> Nat]
    /\ sent \in [Days -> Nat]
    /\ overrun \subseteq Days

Fresh(d) == [day |-> d, calls |-> 0, next |-> 0, tokens |-> 0, pending |-> {}]

Init ==
    /\ today = 1
    /\ ledger = Fresh(0) /\ disk = Fresh(0)
    /\ call = NoCall
    /\ spent = [d \in Days |-> 0]
    /\ sent = [d \in Days |-> 0]
    /\ overrun = {}

------------------------------------------------------------------------------
(* The ledger. *)

\* What NewBudget requires of the file before the server may use AI at all.
ValidLedger(l) ==
    /\ l.calls <= l.next
    /\ Cardinality(l.pending) <= l.calls
    /\ Cardinality(l.pending) * Reservation <= l.tokens

Exhausted(l) ==
    \/ l.calls >= DailyCalls
    \/ l.tokens > DailyTokens - Reservation

\* Mutant of Reserve: the tokens are charged when the call is settled.
ReserveCallOnly(l) ==
    [l EXCEPT !.next = @ + 1, !.calls = @ + 1, !.pending = @ \cup {l.next + 1}]

Reserve(l) ==
    [l EXCEPT !.next = @ + 1, !.calls = @ + 1, !.tokens = @ + Reservation,
              !.pending = @ \cup {l.next + 1}]

\* A report above the reservation closes the day.
Settle(l, id, used) ==
    [l EXCEPT !.tokens = IF used > Reservation THEN DailyTokens
                         ELSE @ - (Reservation - used),
              !.pending = @ \ {id}]

\* AtomicWrite: the rename happens or not, and an error after it is an error.
Write(l, ok) == disk' = l \/ (~ok /\ UNCHANGED disk)

------------------------------------------------------------------------------
(* Operations. *)

\* The ledger of the day a call belongs to.
Current(l) == IF l.day = today THEN l ELSE Fresh(today)

Begin ==
    /\ call = NoCall
    /\ ledger.day <= today
    /\ IF Exhausted(Current(ledger))
       THEN ledger' = Current(ledger) /\ UNCHANGED <<disk, call>>
       ELSE LET l == Reserve(Current(ledger)) IN
            /\ ledger' = l
            /\ \E ok \in BOOLEAN :
                /\ Write(l, ok)
                /\ call' = IF ok THEN [stage |-> "reserved", day |-> l.day,
                                       id |-> l.next]
                                 ELSE NoCall
    /\ UNCHANGED <<today, spent, sent, overrun>>

\* The caller dispatches.  Until the provider tells, the call costs the most.
Dispatch ==
    /\ call.stage = "reserved"
    /\ call' = [call EXCEPT !.stage = "sent"]
    /\ spent' = [spent EXCEPT ![call.day] = @ + Reservation]
    /\ sent' = [sent EXCEPT ![call.day] = @ + 1]
    /\ UNCHANGED <<today, ledger, disk, overrun>>

\* The caller could not dispatch (Finish(0, true)), or the provider answered.
Used == IF call.stage = "reserved" THEN {0} ELSE 0 .. Reservation + 1

Finish ==
    /\ call # NoCall
    /\ call' = NoCall
    /\ \/ /\ call.stage = "sent"  \* usage unknown: the reservation stays
          /\ UNCHANGED <<ledger, disk, spent, overrun>>
       \/ \E used \in Used, ok \in BOOLEAN :
            LET l == IF call.id \in ledger.pending
                     THEN Settle(ledger, call.id, used) ELSE ledger
            IN  /\ Write(l, ok)
                /\ ledger' = IF ok THEN l ELSE ledger
                /\ overrun' = IF ok /\ used > Reservation
                              THEN overrun \cup {call.day} ELSE overrun
                /\ spent' = IF call.stage = "sent" /\ used <= Reservation
                            THEN [spent EXCEPT ![call.day] =
                                            @ - (Reservation - used)]
                            ELSE spent
    /\ UNCHANGED <<today, sent>>

\* The process dies and NewBudget reads the file.
Restart ==
    /\ ValidLedger(disk)
    /\ ledger' = disk
    /\ call' = NoCall
    /\ UNCHANGED <<today, disk, spent, sent, overrun>>

Tick ==
    /\ today' \in Days
    /\ UNCHANGED <<ledger, disk, call, spent, sent, overrun>>

Next == Begin \/ Dispatch \/ Finish \/ Restart \/ Tick

Spec == Init /\ [][Next]_vars

------------------------------------------------------------------------------
(* Properties. *)

\* Whatever crashes, failing writes and midnights come between reservation
\* and settlement, the calls of one day never cost more than the day allows,
\* nor are there more of them than it allows.
SpendWithinLimit ==
    \A d \in Days : spent[d] <= DailyTokens /\ sent[d] <= DailyCalls

\* The process can die at any step and the next one still accepts the file:
\* a ledger it refuses would end the use of AI until somebody removes it.
LedgerLoads == disk.day = 0 \/ ValidLedger(disk)

BudgetHolds == SpendWithinLimit /\ LedgerLoads

\* Once a report beyond the reservation is on file nothing more is dispatched
\* on that day, before or after a restart.
OverrunClosesDay ==
    [][\A day \in overrun : sent'[day] = sent[day]]_vars
=============================================================================
