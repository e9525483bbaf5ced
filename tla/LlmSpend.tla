------------------------------ MODULE LlmSpend ------------------------------
(***************************************************************************)
(* A paid model call: LlmClient.invokeModel over the invocation ledger and *)
(* the daily cost caps. An attempt looks its key up, reserves an estimate  *)
(* against two daily totals, pays the provider, stores the answer under    *)
(* its key and settles the difference. Every statement may fail, every     *)
(* attempt may die anywhere, and a later attempt of the same key follows.  *)
(* Midnight passes while calls are under way.                              *)
(***************************************************************************)
EXTENDS Integers, FiniteSets, FiniteSetsExt

CONSTANTS
  Attempts,    \* invokeModel calls
  Keys,        \* idempotency keys
  KeyOf,       \* [Attempts -> Keys]: attempts of one key are retries of one call
  Orgs,        \* installations
  Platform,    \* the all-zero installation: only the global cap applies
  OrgOf,       \* [Keys -> Orgs \cup {Platform}]
  Estimate,    \* estimateCentsPreCall
  Costs,       \* what a call may turn out to cost (finalCents)
  CapChoices,  \* the caps an admin may set
  MaxDay       \* bound on the days that pass

ASSUME LlmAssumption ==
  /\ KeyOf \in [Attempts -> Keys] /\ OrgOf \in [Keys -> Orgs \cup {Platform}]
  /\ Estimate \in Nat \ {0} /\ Costs \subseteq Nat \ {0} /\ CapChoices \subseteq Nat
  /\ {Platform, "global"} \cap Orgs = {} /\ MaxDay \in Nat \ {0}
  /\ IsFiniteSet(Attempts) /\ IsFiniteSet(Orgs)

Days   == 1..MaxDay
Global == "global"
Scopes == Orgs \cup {Global}
Absent == -1      \* no cost_daily row yet

VARIABLES
  day,       \* the current date
  daily,     \* telemetry.cost_daily: daily_total_cents by date and scope
  cap,       \* the cap the settings and overrides give each scope
  ledger,    \* keys of core.llm_invocation_ledger
  call,      \* each attempt's control point, reservation date and actual cost
  books      \* history: what was paid, and the events that excuse a miscount

spendVars == <<day, daily, cap, ledger, call, books>>

Call == [at : {"new", "gate", "reserved", "sdk", "release", "store", "settle", "ended"},
         day : Days, cost : {0} \cup Costs]

(* paid: completed provider calls by key; gap: an answer of the key was paid *)
(* for without the ledger knowing when the next attempt asked; spent: money  *)
(* by date; over: by date, what calls cost above their estimates; top: the   *)
(* largest cap in force that date; crossed: dates whose rows a settle of     *)
(* another date touched or should have touched.                              *)
Books == [paid : [Keys -> Nat], gap : SUBSET Keys, spent : [Days -> Nat], over : [Days -> Nat],
          top : [Days -> Nat], crossed : SUBSET Days]

-----------------------------------------------------------------------------
Excess(c)    == IF c.cost > Estimate THEN c.cost - Estimate ELSE 0
OrgScopes(a) == {OrgOf[KeyOf[a]]} \ {Platform}
ScopesOf(a)  == {Global} \cup OrgScopes(a)
Goto(a, at)  == call' = [call EXCEPT ![a].at = at]

(* Attempts of the key that asked and have neither stored nor ended. *)
Unrecorded(k) ==
  {a \in Attempts : KeyOf[a] = k /\ call[a].at \in {"gate", "reserved", "sdk", "store"}}

(* lookup: the key's answer is stored. *)
LookupHit(a) == KeyOf[a] \in ledger

(* A hit is replayed: archived and recorded, but neither reserved nor        *)
(* settled.                                                                  *)
Lookup(a) ==
  /\ call[a].at = "new"
  /\ Goto(a, IF LookupHit(a) THEN "ended" ELSE "gate")
  /\ books' = IF ~ LookupHit(a) /\ Unrecorded(KeyOf[a]) # {}
              THEN [books EXCEPT !.gap = @ \cup {KeyOf[a]}] ELSE books
  /\ UNCHANGED <<day, daily, cap, ledger>>

(* The rows the gate and the settle work on: created on demand by the gate.  *)
Ensured(d, S) == [s \in Scopes |-> IF s \in S /\ daily[d][s] = Absent THEN 0 ELSE daily[d][s]]

\* Mutant: the gate compares the total before the call.
Fits_Before(row, s) == row[s] < cap[s]

(* UPDATE ... WHERE daily_total_cents + estimated <= cap_cents *)
Fits(row, s) == row[s] + Estimate <= cap[s]

(* checkOrRaise, one transaction: both gates pass and both rows are charged. *)
Charged(a) ==
  LET row == Ensured(day, ScopesOf(a))
  IN [daily EXCEPT ![day] = [s \in Scopes |-> row[s] + (IF s \in ScopesOf(a) THEN Estimate ELSE 0)]]

Reserve(a) ==
  /\ call[a].at = "gate"
  /\ \A s \in ScopesOf(a) : Fits(Ensured(day, ScopesOf(a)), s)
  /\ daily' = Charged(a)
  /\ call' = [call EXCEPT ![a].at = "reserved", ![a].day = day]
  /\ UNCHANGED <<day, cap, ledger, books>>

(* Over a cap, aborted, or the row lock timed out twice: nothing is paid.    *)
(* When only the commit's answer is lost the charge stays.                   *)
GateRefuses(a) ==
  /\ call[a].at = "gate"
  /\ Goto(a, "ended")
  /\ \/ UNCHANGED daily
     \/ (\A s \in ScopesOf(a) : Fits(Ensured(day, ScopesOf(a)), s)) /\ daily' = Charged(a)
  /\ UNCHANGED <<day, cap, ledger, books>>

(* The request is archived; a failure there escapes with the charge in place.*)
ArchiveRequest(a) ==
  /\ call[a].at = "reserved"
  /\ \E next \in {"sdk", "ended"} : Goto(a, next)
  /\ UNCHANGED <<day, daily, cap, ledger, books>>

(* The provider answers; the money is spent on the day it does. *)
ProviderAnswers(a, cost) ==
  /\ call[a].at = "sdk"
  /\ call' = [call EXCEPT ![a].at = "store", ![a].cost = cost]
  /\ books' = [books EXCEPT !.paid[KeyOf[a]] = @ + 1, !.spent[day] = @ + cost,
                            !.over[day] = @ + Excess(call'[a]),
                            !.crossed = IF call[a].day = day THEN @ ELSE @ \cup {day}]
  /\ UNCHANGED <<day, daily, cap, ledger>>

ProviderFails(a) ==
  /\ call[a].at = "sdk"
  /\ Goto(a, "release")
  /\ UNCHANGED <<day, daily, cap, ledger, books>>

AfterStore(a) == ledger \cup {KeyOf[a]}

Store(a) ==
  /\ call[a].at = "store"
  /\ Goto(a, "settle")
  /\ ledger' = AfterStore(a)
  /\ UNCHANGED <<day, daily, cap, books>>

(* A failed store is counted and swallowed: a retry will pay again. *)
StoreFails(a) ==
  /\ call[a].at = "store"
  /\ Goto(a, "settle")
  /\ books' = [books EXCEPT !.gap = @ \cup {KeyOf[a]}]
  /\ UNCHANGED <<day, daily, cap, ledger>>

(* recordCallCost: UPDATEs of the rows of the date it is called on, where    *)
(* they exist.                                                               *)
Adjusted(a, diff) ==
  [s \in Scopes |-> IF s \in ScopesOf(a) /\ daily[day][s] # Absent
                    THEN daily[day][s] + diff ELSE daily[day][s]]

(* CHECK (daily_total_cents >= 0) makes the transaction fail otherwise. *)
AdjustDaily(a, diff) ==
  /\ \A s \in ScopesOf(a) : daily[day][s] # Absent => daily[day][s] + diff >= 0
  /\ daily' = [daily EXCEPT ![day] = Adjusted(a, diff)]
  /\ books' = [books EXCEPT !.crossed = IF call[a].day = day THEN @ ELSE @ \cup {call[a].day, day}]

(* The response is archived, telemetry written, the difference applied. *)
Settle(a) ==
  /\ call[a].at = "settle"
  /\ AdjustDaily(a, call[a].cost - Estimate)
  /\ Goto(a, "ended")
  /\ UNCHANGED <<day, cap, ledger>>

(* releaseCostCapReservation after a failed provider call. *)
Release(a) ==
  /\ call[a].at = "release"
  /\ AdjustDaily(a, - Estimate)
  /\ Goto(a, "ended")
  /\ UNCHANGED <<day, cap, ledger>>

(* Archive, telemetry or settle throws, or the process dies: the charge      *)
(* stays as it is. What was paid and not stored is a gap.                    *)
Dies(a) ==
  /\ call[a].at \notin {"new", "ended"}
  /\ Goto(a, "ended")
  /\ books' = IF call[a].at = "store" THEN [books EXCEPT !.gap = @ \cup {KeyOf[a]}] ELSE books
  /\ UNCHANGED <<day, daily, cap, ledger>>

(* pruneOlderThan: the retention window has passed for the key. *)
Prune(k) ==
  /\ k \in ledger
  /\ ledger' = ledger \ {k}
  /\ books' = [books EXCEPT !.gap = @ \cup {k}]
  /\ UNCHANGED <<day, daily, cap, call>>

(* An admin changes a setting or an override, or an override expires. *)
SetCap(s, n) ==
  /\ cap[s] # n
  /\ cap' = [cap EXCEPT ![s] = n]
  /\ books' = [books EXCEPT !.top[day] = IF s = Global /\ n > @ THEN n ELSE @]
  /\ UNCHANGED <<day, daily, ledger, call>>

Midnight ==
  /\ day < MaxDay
  /\ day' = day + 1
  /\ books' = [books EXCEPT !.top[day + 1] = cap[Global]]
  /\ UNCHANGED <<daily, cap, ledger, call>>

-----------------------------------------------------------------------------
SpendInit ==
  /\ day = 1
  /\ daily = [d \in Days |-> [s \in Scopes |-> Absent]]
  /\ cap \in [Scopes -> CapChoices]
  /\ ledger = {}
  /\ call = [a \in Attempts |-> [at |-> "new", day |-> 1, cost |-> 0]]
  /\ books = [paid |-> [k \in Keys |-> 0], gap |-> {}, spent |-> [d \in Days |-> 0],
              over |-> [d \in Days |-> 0], crossed |-> {},
              top |-> [d \in Days |-> IF d = 1 THEN cap[Global] ELSE 0]]

SpendNext ==
  \/ Midnight
  \/ \E k \in Keys : Prune(k)
  \/ \E s \in Scopes, n \in CapChoices : SetCap(s, n)
  \/ \E a \in Attempts :
       \/ Lookup(a) \/ Reserve(a) \/ GateRefuses(a) \/ ArchiveRequest(a)
       \/ \E cost \in Costs : ProviderAnswers(a, cost)
       \/ ProviderFails(a) \/ Store(a) \/ StoreFails(a) \/ Settle(a) \/ Release(a) \/ Dies(a)

-----------------------------------------------------------------------------
SpendTypeOK ==
  /\ day \in Days /\ daily \in [Days -> [Scopes -> Int]] /\ cap \in [Scopes -> Nat]
  /\ ledger \subseteq Keys /\ call \in [Attempts -> Call] /\ books \in Books

(* The cap bounds real money: what providers were paid on a date exceeds the *)
(* largest cap in force that date by no more than what calls cost above      *)
(* their estimates, through concurrent gates, failures, crashes and lost     *)
(* commits - for every date no call crosses into or out of.                  *)
SpendWithinCap ==
  \A d \in Days \ books.crossed : books.spent[d] <= books.top[d] + books.over[d]

(* An organisation is charged and refunded exactly when the platform is: on  *)
(* such a date the organisations' totals never exceed the global one, which  *)
(* also counts the platform's own calls.                                     *)
ScopesAgree ==
  \A d \in Days \ books.crossed :
    MapThenSumSet(LAMBDA o : IF daily[d][o] = Absent THEN 0 ELSE daily[d][o], Orgs)
      <= (IF daily[d][Global] = Absent THEN 0 ELSE daily[d][Global])

(* An answer is paid for again only when the ledger could not know it: two   *)
(* attempts overlapped, the store failed or was not reached, or the row was  *)
(* pruned. No failure after the store, and no refusal, makes a retry pay.    *)
RepaidOnlyAfterGap ==
  \A k \in Keys : books.paid[k] > 1 => k \in books.gap

(* Money is bounded and accounted for: real spending stays within the cap,  *)
(* both totals move together, and no answer the ledger knew is paid twice.  *)
SpendingSound == SpendTypeOK /\ SpendWithinCap /\ ScopesAgree /\ RepaidOnlyAfterGap
=============================================================================
