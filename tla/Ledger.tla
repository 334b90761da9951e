------------------------------- MODULE Ledger -------------------------------
(***************************************************************************)
(* What the pool promises about the blocks table of its database: a row is *)
(* inserted only for a block that a coin daemon has accepted and announced *)
(* (blocknotify), with the announced hash, and twice only if the answer of *)
(* the database to its INSERT was lost.  It does not promise a row for     *)
(* every such block.                                                       *)
(***************************************************************************)
CONSTANT Blocks

VARIABLES
    accepted, announced,
    rows,
    unanswered  \* blocks inserted by a statement whose answer was lost

ledgerVars == <<accepted, announced, rows, unanswered>>

Init ==
    /\ accepted = {}
    /\ announced = {}
    /\ rows = [b \in Blocks |-> "none"]
    /\ unanswered = {}

Accept(b) ==
    /\ b \in Blocks \ accepted
    /\ accepted' = accepted \cup {b}
    /\ UNCHANGED <<announced, rows, unanswered>>

Announce(b) ==
    /\ b \in accepted \ announced
    /\ announced' = announced \cup {b}
    /\ UNCHANGED <<accepted, rows, unanswered>>

(* One INSERT carries the rows of several blocks; only those of a          *)
(* statement that was not answered may be inserted again.                  *)
Insert(B) ==
    /\ B \subseteq {b \in announced : rows[b] = "none"} \cup unanswered
    /\ rows' = [b \in Blocks |-> IF b \notin B THEN rows[b]
                                 ELSE IF rows[b] = "none" THEN "announced hash" ELSE "twice"]
    /\ unanswered' \in {unanswered \ B, unanswered \cup B}
    /\ UNCHANGED <<accepted, announced>>

(* A statement that was not answered is not sent again.                    *)
GiveUp ==
    /\ unanswered' = {}
    /\ UNCHANGED <<accepted, announced, rows>>

Next ==
    \/ \E b \in Blocks : Accept(b) \/ Announce(b)
    \/ \E B \in SUBSET Blocks : Insert(B)
    \/ GiveUp

Spec == Init /\ [][Next]_ledgerVars
=============================================================================
