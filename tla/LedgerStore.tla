---------------------------- MODULE LedgerStore -----------------------------
(***************************************************************************)
(* The delivery ledger as the rest of the bot sees it: one durable record  *)
(* per message identity, replaced atomically.  A put that reports failure  *)
(* leaves the ledger as it was, so it is no step here.  DeliveryLedger     *)
(* implements this store; MailCycle uses it.                               *)
(*                                                                         *)
(* Times are countdowns: a retry record carries what is left until its     *)
(* NextAttempt, a delivered record what is left of CompletedRetention.     *)
(***************************************************************************)
EXTENDS Naturals

CONSTANTS
  Key,                \* message identities, as messageKey computes them
  MaxAttempts,        \* cfg.MaxAttempts
  Delay,              \* retryDelay(cfg.RetryBackoff, n), as a function of n
  Retention           \* cfg.CompletedRetention

ASSUME StoreAssumption ==
  /\ MaxAttempts \in Nat \ {0}
  /\ Delay \in [1..MaxAttempts -> Nat \ {0}]
  /\ Retention \in Nat \ {0}

VARIABLE ledger       \* the record stored for each message identity

Status == {"none", "retry", "delivered", "quarantined"}

Record == [status : Status, attempts : Nat, timer : Nat]

\* The zero messageState that get returns for a key without a record.
NoRecord == [status |-> "none", attempts |-> 0, timer |-> 0]

RetryRecord(n) == [status |-> "retry", attempts |-> n, timer |-> Delay[n]]
DeliveredRecord(n) ==
  [status |-> "delivered", attempts |-> n, timer |-> Retention]
QuarantineRecord(n) ==
  [status |-> "quarantined", attempts |-> n, timer |-> 0]

\* The records the scan builds.
Fresh ==
  {RetryRecord(n) : n \in 1..MaxAttempts}
    \cup {DeliveredRecord(n) : n \in 1..MaxAttempts}
    \cup {QuarantineRecord(n) : n \in 1..MaxAttempts}

\* The records a reader may see appear: time passes while one is being saved.
Storable == UNION {{[r EXCEPT !.timer = t] : t \in 0..r.timer} : r \in Fresh}

StoreInit == ledger = [k \in Key |-> NoRecord]

\* put, when it succeeds.
Put(k, r) == ledger' = [ledger EXCEPT ![k] = r]

\* Mutant of Expired: quarantine expires like a delivery.
ExpiredSettled ==
  {k \in Key : /\ ledger[k].status \in {"delivered", "quarantined"}
               /\ ledger[k].timer = 0}

\* The records pruneCompleted removes: delivered longer ago than Retention.
Expired == {k \in Key : ledger[k].status = "delivered" /\ ledger[k].timer = 0}

\* pruneCompleted, when it succeeds, removes the records K it found expired.
Prune(K) ==
  ledger' = [k \in Key |-> IF k \in K THEN NoRecord ELSE ledger[k]]

Aged(r) == [r EXCEPT !.timer = IF @ > 0 THEN @ - 1 ELSE 0]

\* Time passes for every record at once.
Age ==
  /\ \E k \in Key : ledger[k].timer > 0
  /\ ledger' = [k \in Key |-> Aged(ledger[k])]

StoreNext ==
  \/ \E k \in Key, r \in Storable : Put(k, r)
  \/ \E K \in SUBSET Expired : Prune(K)
  \/ Age

StoreSpec == StoreInit /\ [][StoreNext]_ledger
=============================================================================
