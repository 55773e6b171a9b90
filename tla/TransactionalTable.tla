------------------------- MODULE TransactionalTable -------------------------
(***************************************************************************)
(* What the table heap and the transaction manager promise together, with  *)
(* no pages: rows have a committed value; a transaction writes its own     *)
(* rows; Commit makes all its writes the committed ones in one step; Abort *)
(* changes no committed value, but for rows whose old tuple no longer fits *)
(* into its page (lost).                                                   *)
(***************************************************************************)
EXTENDS Functions, TLC

CONSTANTS Txns, Rids, Tuples, Absent

VARIABLES committed,  \* the committed value of every row
          pending,    \* per transaction, the rows it has written, as it left them
          status,     \* per transaction: idle, active, aborting, done
          lost        \* the rows an abort could not restore

vars == <<committed, pending, status, lost>>

Row == Tuples \cup {Absent}

Init ==
  /\ committed \in [Rids -> Row]
  /\ pending = [t \in Txns |-> <<>>]
  /\ status = [t \in Txns |-> "idle"]
  /\ lost = {}

Begin(t) ==
  /\ status[t] = "idle"
  /\ status' = [status EXCEPT ![t] = "active"]
  /\ UNCHANGED <<committed, pending, lost>>

\* One row changes, and it is not a row that another transaction has written.
Write(t) ==
  /\ status[t] = "active"
  /\ LET new == pending'[t] IN
     \E r \in DOMAIN new :
       /\ \A u \in Txns \ {t} : r \notin DOMAIN pending[u]
       /\ new[r] \in Row
       /\ pending' = [pending EXCEPT ![t] = (r :> new[r]) @@ @]
  /\ UNCHANGED <<committed, status, lost>>

Commit(t) ==
  /\ status[t] = "active"
  /\ committed' = pending[t] @@ committed
  /\ pending' = [pending EXCEPT ![t] = <<>>]
  /\ status' = [status EXCEPT ![t] = "done"]
  /\ UNCHANGED lost

Abort(t) ==
  /\ status[t] = "active"
  /\ status' = [status EXCEPT ![t] = "aborting"]
  /\ UNCHANGED <<committed, pending, lost>>

\* One write of the row is undone; with the last one the row is back to its
\* committed value, unless the row is lost.
Undo(t) ==
  /\ status[t] = "aborting"
  /\ \E r \in DOMAIN pending[t] :
       /\ pending' = [pending EXCEPT ![t] = IF r \in DOMAIN pending'[t]
                                              THEN (r :> pending'[t][r]) @@ @
                                              ELSE Restrict(@, DOMAIN @ \ {r})]
       /\ \/ UNCHANGED <<committed, lost>>
          \/ /\ lost' = lost \cup {r}
             /\ committed' = [committed EXCEPT ![r] = committed'[r]]
  /\ UNCHANGED status

Finish(t) ==
  /\ status[t] = "aborting"
  /\ pending[t] = <<>>
  /\ status' = [status EXCEPT ![t] = "done"]
  /\ UNCHANGED <<committed, pending, lost>>

Next ==
  \E t \in Txns :
    Begin(t) \/ Write(t) \/ Commit(t) \/ Abort(t) \/ Undo(t) \/ Finish(t)

Spec == Init /\ [][Next]_vars
=============================================================================
