----------------------------- MODULE AuditLedger -----------------------------
(* What the durable audit pipeline promises the rest of the application,       *)
(* without queues, workers or retries: every audit event that was enqueued is  *)
(* written to the ledger at most once, the ledger only grows, and the queued   *)
(* copy of an event is destroyed only after the event was written or was       *)
(* publicly given up on (a dead-letter record).  AuditOutbox implements this.  *)
EXTENDS Sequences

CONSTANT Events         \* identities of the enqueued audit events

VARIABLES
  requested,  \* events whose enqueueing transaction committed
  ledger,     \* the events written, in commit order
  givenUp,    \* events with a dead-letter record
  forgotten   \* events whose queued copy was deleted

ledgerVars == <<requested, ledger, givenUp, forgotten>>

Written == {ledger[i] : i \in DOMAIN ledger}

Init ==
  /\ requested = {}
  /\ ledger = <<>>
  /\ givenUp = {}
  /\ forgotten = {}

Request(e) ==
  /\ requested' = requested \cup {e}
  /\ UNCHANGED <<ledger, givenUp, forgotten>>

Write(e) ==
  /\ e \in requested \ Written
  /\ ledger' = Append(ledger, e)
  /\ UNCHANGED <<requested, givenUp, forgotten>>

GiveUp(e) ==
  /\ e \in requested
  /\ givenUp' = givenUp \cup {e}
  /\ UNCHANGED <<requested, ledger, forgotten>>

Forget(E) ==
  /\ E \subseteq Written \cup givenUp
  /\ forgotten' = forgotten \cup E
  /\ UNCHANGED <<requested, ledger, givenUp>>

Next ==
  \/ \E e \in Events : Request(e) \/ Write(e) \/ GiveUp(e)
  \/ \E E \in SUBSET Events : Forget(E)

Spec == Init /\ [][Next]_ledgerVars
==============================================================================
