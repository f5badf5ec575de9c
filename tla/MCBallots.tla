----------------------------- MODULE MCBallots -----------------------------
(***************************************************************************)
(* Ballots for TLC: two residents of one unit each, the auto-close job and  *)
(* other requests, with a history variable that tells whether two requests  *)
(* have been in flight at once.                                             *)
(***************************************************************************)
EXTENDS Ballots, TLC

CONSTANTS u1, u2, ann, bob

VARIABLE overlapped

MCOwns == ann :> {u1} @@ bob :> {u2}
MCPools == {{u1, u2}, {u1}}
MCWeight == u1 :> 1 @@ u2 :> 2

InFlight == {r \in Requests : req[r] # Idle}

MCInit == Init /\ overlapped = FALSE

MCNext ==
    /\ Next
    /\ overlapped' = \/ overlapped
                     \/ \E q, r \in InFlight' : q # r
                     \/ eligible' # eligible /\ InFlight # {}

MCSpec == MCInit /\ [][MCNext]_<<vars, overlapped>> /\ Fairness

\* "This write serializes ballot writes with close()" (castBallot) is true of
\* requests that come one after the other: the result that is stored is the
\* tally of the ballots stored by then. A ballot cast between close()'s read
\* and its conditional update is stored, acknowledged and not counted.
CountedWhenAlone ==
    [][overlapped' \/ result' = Tally(ballot, eligible)]_result
=============================================================================
