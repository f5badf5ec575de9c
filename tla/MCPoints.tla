------------------------------ MODULE MCPoints ------------------------------
(***************************************************************************)
(* An instance of Points, and with it of AuditLog, for TLC, with what        *)
(* happened remembered. Constants and variables have names of their own, so  *)
(* that a module can extend this one beside the modules of other components. *)
(***************************************************************************)
EXTENDS Integers, Sequences, Functions, TLC

CONSTANTS
    Askers,      \* the requests of Points
    Deltas, Refs, NoRef, MaxRows,
    Entries, Shuffled, Processes, NoHash, NoProcess,
    NoEntry

VARIABLES
    balance, ledger,
    asked,       \* req of Points
    log, cache, write,
    scope,       \* the bound of this behaviour: see InScope
    muddled,     \* two calls on the user overlapped, or a redeem was cut short
    beside,      \* entries whose write was going on beside another
    unhinged,    \* entries chained to what need not be the last row
    latest       \* the last entry whose record() was called

P == INSTANCE Points WITH Requests <- Askers, req <- asked

ASSUME PointConstants == P!PointAssumptions /\ P!AuditAssumptions
ASSUME NoEntryAssumption == NoEntry \notin Entries

OnUser == {q \in Askers : asked[q].step \in {"read", "commit", "redeem", "enter"}}
Writing == {e \in Entries : write[e].step \in {"read", "create"}}
Called == {e \in Entries : write[e].step = "none" /\ write'[e].step # "none"}

\* The process has just been started, or the record() before was its own, on
\* its own, and wrote its row.
InStep(e) ==
    \/ cache[write'[e].by] = NoHash
    \/ /\ latest \notin beside
       /\ write[latest].step = "done" /\ write[latest].by = write'[e].by

PointsNoted ==
    /\ muddled' = \/ muddled
                  \/ \E q, r \in OnUser' : q # r
                  \/ \E q \in Askers : asked[q].step = "enter" /\ asked'[q] = P!Idle
                                         /\ Len(ledger') = Len(ledger)
    /\ latest' = IF Called = {} THEN latest ELSE CHOOSE e \in Called : TRUE
    /\ beside' = beside
         \cup {e \in Writing' : \E other \in Writing' : other # e}
    /\ unhinged' = unhinged
         \cup {e \in Called : ~ InStep(e)}
         \cup {e \in Writing : /\ write[e].step = "read" /\ write'[e].step = "create"
                               /\ log # <<>> /\ write'[e].prev = NoHash}

\* One run, two small instances: either every call on the points and the audit
\* entry of an adjustment, or one adjustment and every audit entry.
Scopes == {"points", "audit"}
InScope ==
    /\ scope = "points" => \A e \in Entries \ Shuffled : write'[e].step = "none"
    /\ scope = "audit" =>
          \A q \in Askers :
             asked[q] = P!Idle /\ asked'[q] # P!Idle =>
                /\ \A other \in Askers : asked[other] = P!Idle
                /\ asked'[q].reason = "MANUAL_ADJ" /\ asked'[q].ref = NoRef
    /\ UNCHANGED scope

pointVars == <<P!vars, scope, muddled, beside, unhinged, latest>>

PointsInit ==
    /\ P!Init /\ scope \in Scopes
    /\ muddled = FALSE /\ beside = {} /\ unhinged = {} /\ latest = NoEntry
PointsSpec == PointsInit /\ [][P!Next /\ InScope /\ PointsNoted]_pointVars

PointDeltas == {-1, 1}

PointSymmetry ==
    Permutations(Askers) \cup Permutations(Processes)
        \cup Permutations(Entries \ Shuffled)
-----------------------------------------------------------------------------
\* What earns and what is noted is entered once and the balance is never
\* negative, whatever overlaps; and unless two calls overlapped or a redeem was
\* cut short, the balance on the User row is what the ledger adds up to and
\* each row carries the balance after it (earn, adjust, redeem).
BalanceIsLedger ==
    /\ balance >= 0
    /\ \A j, k \in DOMAIN ledger :
          j # k /\ ledger[j].ref # NoRef =>
             <<ledger[j].reason, ledger[j].ref>> # <<ledger[k].reason, ledger[k].ref>>
    /\ ~ muddled =>
          /\ \A k \in DOMAIN ledger :
                ledger[k].after =
                   ledger[k].delta + IF k = 1 THEN 0 ELSE ledger[k - 1].after
          /\ (\A q \in Askers : asked[q].step # "enter") =>
                balance = SumFunction([k \in DOMAIN ledger |-> ledger[k].delta])

\* verifyChain takes for tampering no row but one whose metadata keys JSONB
\* reorders, whose write overlapped another, that follows a row of another
\* process, a lost write or one that overlapped, or that could not read the
\* last row (record).
NoOtherAlarm ==
    \A k \in DOMAIN log :
        P!Breaks(k) => log[k].entry \in Shuffled \cup beside \cup unhinged
=============================================================================
