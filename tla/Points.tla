------------------------------- MODULE Points -------------------------------
(***************************************************************************)
(* A resident's reward points (apps/api/src/points/points.service.ts): the   *)
(* balance on the User row and the ledger of PointTransaction rows. earn and *)
(* adjust are transactions, READ COMMITTED, that read the balance and write  *)
(* the sum back; redeem does the same in three statements of its own. adjust *)
(* is put on the audit log.                                                 *)
(*                                                                          *)
(* The writes of earn and adjust are one step: they hold the User row until  *)
(* they commit or are rolled back.                                          *)
(***************************************************************************)
EXTENDS AuditLog, Integers

CONSTANTS
    Requests,    \* calls in flight
    Deltas,      \* of adjustments, and points earned or redeemed
    Refs,        \* refId of what earns, and notes of adjustments
    NoRef,       \* NULL: unique to nothing
    MaxRows      \* bound on the ledger

\* What is assumed of them, where they are given.
PointAssumptions == Deltas \subseteq Int /\ MaxRows \in Nat

VARIABLES
    balance,     \* User.pointBalance
    ledger,      \* PointTransaction rows in the order of their creation
    req          \* calls, between two awaits

pointVars == <<balance, ledger, req>>

Idle == [step |-> "idle", reason |-> "none", ref |-> NoRef, delta |-> 0,
         seen |-> 0]

PointsInit == balance = 0 /\ ledger = <<>> /\ req = [q \in Requests |-> Idle]

Finish(q) == req' = [req EXCEPT ![q] = Idle]
Goto(q, step) == req' = [req EXCEPT ![q].step = step]

Call(q, step, reason, ref, delta, seen) ==
    /\ req[q] = Idle
    /\ req' = [req EXCEPT ![q] = [step |-> step, reason |-> reason, ref |-> ref,
                                  delta |-> delta, seen |-> seen]]

InLedger(reason, ref) ==
    \E k \in DOMAIN ledger : ledger[k].reason = reason /\ ledger[k].ref = ref

\* The row of the ledger; (userId, reason, refId) is unique unless NULL.
Unique(q) == req[q].ref # NoRef => ~ InLedger(req[q].reason, req[q].ref)

After(q) == req[q].seen + req[q].delta

Enter(q) ==
    /\ Len(ledger) < MaxRows
    /\ ledger' = Append(ledger, [reason |-> req[q].reason, ref |-> req[q].ref,
                                 delta |-> req[q].delta, after |-> After(q)])
-----------------------------------------------------------------------------
(***************************************************************************)
(* earn and adjust                                                          *)
(***************************************************************************)
\* The lookup is outside the transaction; what is found has been earned.
EarnStarts(q, reason, ref, delta) ==
    /\ delta > 0
    /\ ~ InLedger(reason, ref)
    /\ Call(q, "read", reason, ref, delta, 0)
    /\ UNCHANGED <<balance, ledger, auditVars>>

AdjustStarts(q, ref, delta) ==
    /\ delta # 0
    /\ Call(q, "read", "MANUAL_ADJ", ref, delta, 0)
    /\ UNCHANGED <<balance, ledger, auditVars>>

TxReads(q) ==
    /\ req[q].step = "read"
    /\ IF balance + req[q].delta >= 0
       THEN req' = [req EXCEPT ![q].step = "commit", ![q].seen = balance]
       ELSE Finish(q)    \* "Adjustment would make the balance negative"
    /\ UNCHANGED <<balance, ledger, auditVars>>

\* Mutant: the row that is there already does not undo the balance.
TxCommitsHalf(q) ==
    /\ req[q].step = "commit"
    /\ IF Unique(q) THEN Enter(q) ELSE UNCHANGED ledger
    /\ balance' = After(q)
    /\ IF req[q].reason = "MANUAL_ADJ" THEN Goto(q, "audit") ELSE Finish(q)
    /\ UNCHANGED auditVars

\* Both writes, or neither: the ledger refuses a row it has.
TxCommits(q) ==
    /\ req[q].step = "commit"
    /\ Unique(q)
    /\ balance' = After(q)
    /\ Enter(q)
    /\ IF req[q].reason = "MANUAL_ADJ" THEN Goto(q, "audit") ELSE Finish(q)
    /\ UNCHANGED auditVars

TxRollsBack(q) ==
    /\ req[q].step \in {"read", "commit"}
    /\ Finish(q)
    /\ UNCHANGED <<balance, ledger, auditVars>>

AdjustAudits(q, e, p) ==
    /\ req[q].step = "audit"
    /\ RecordEntry(e, p)
    /\ Finish(q)
    /\ UNCHANGED <<balance, ledger>>

\* The process stops in between: the adjustment is on no audit log.
AdjustStops(q) ==
    /\ req[q].step = "audit"
    /\ Finish(q)
    /\ UNCHANGED <<balance, ledger, auditVars>>
-----------------------------------------------------------------------------
(***************************************************************************)
(* redeem                                                                   *)
(***************************************************************************)
RedeemReads(q, points) ==
    /\ points > 0 /\ balance >= points
    /\ Call(q, "redeem", "REDEEM", NoRef, -points, balance)
    /\ UNCHANGED <<balance, ledger, auditVars>>

RedeemWrites(q) ==
    /\ req[q].step = "redeem"
    /\ balance' = After(q)
    /\ Goto(q, "enter")
    /\ UNCHANGED <<ledger, auditVars>>

RedeemEnters(q) ==
    /\ req[q].step = "enter"
    /\ Enter(q)
    /\ Finish(q)
    /\ UNCHANGED <<balance, auditVars>>

\* A statement fails, or the process stops: what was written before it stays.
RedeemFails(q) ==
    /\ req[q].step \in {"redeem", "enter"}
    /\ Finish(q)
    /\ UNCHANGED <<balance, ledger, auditVars>>
-----------------------------------------------------------------------------
\* Another service of the process is at its audit entry.
OthersRecord(e, p) ==
    /\ RecordEntry(e, p)
    /\ UNCHANGED pointVars

AuditGoesOn == AuditStep /\ UNCHANGED pointVars

\* A process stops and comes back; the calls it was serving end as above.
Restarts(p) == Forgets(p) /\ UNCHANGED pointVars

Init == AuditInit /\ PointsInit

Next ==
    \/ \E q \in Requests :
          \/ \E delta \in Deltas :
                \/ \E ref \in Refs \cup {NoRef} :
                      \/ EarnStarts(q, "ONTIME_PAYMENT", ref, delta)
                      \/ AdjustStarts(q, ref, delta)
                \/ RedeemReads(q, delta)
          \/ TxReads(q) \/ TxCommits(q) \/ TxRollsBack(q)
          \/ \E e \in Shuffled, p \in Processes : AdjustAudits(q, e, p)
          \/ AdjustStops(q)
          \/ RedeemWrites(q) \/ RedeemEnters(q) \/ RedeemFails(q)
    \/ \E e \in Entries \ Shuffled, p \in Processes : OthersRecord(e, p)
    \/ AuditGoesOn
    \/ \E p \in Processes : Restarts(p)

vars == <<balance, ledger, req, log, cache, write>>

Spec == Init /\ [][Next]_vars
=============================================================================
