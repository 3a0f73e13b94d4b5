---------------------------- MODULE ReplyPromise ----------------------------
(***************************************************************************)
(* What the bot promises about replies, one message identity at a time and *)
(* without files, ledger records or program counters: a message is open    *)
(* until it is answered or abandoned; answering it sends one reply; only   *)
(* losing the memory of that answer opens it again; abandoning is final.   *)
(* MailCycle implements this promise.                                      *)
(***************************************************************************)
EXTENDS Naturals

CONSTANT Key          \* message identities, as messageKey computes them

VARIABLES
  verdict,            \* what the bot believes about each message
  sent,               \* replies the sender has accepted, per message
  lost                \* answers whose memory was lost, per message

promiseVars == <<verdict, sent, lost>>

Verdict == {"open", "answered", "abandoned"}

PromiseTypeOK ==
  /\ verdict \in [Key -> Verdict]
  /\ sent \in [Key -> Nat]
  /\ lost \in [Key -> Nat]

PromiseInit ==
  /\ verdict = [k \in Key |-> "open"]
  /\ sent = [k \in Key |-> 0]
  /\ lost = [k \in Key |-> 0]

\* A reply leaves and the bot knows it.
Answer(k) ==
  /\ verdict[k] = "open"
  /\ verdict' = [verdict EXCEPT ![k] = "answered"]
  /\ sent' = [sent EXCEPT ![k] = @ + 1]
  /\ UNCHANGED lost

\* A reply leaves after the bot stopped watching its sender.
AnswerUnseen(k) ==
  /\ verdict[k] = "open"
  /\ sent' = [sent EXCEPT ![k] = @ + 1]
  /\ lost' = [lost EXCEPT ![k] = @ + 1]
  /\ UNCHANGED verdict

\* The bot loses the memory of some answers at once.
Forget(K) ==
  /\ K # {}
  /\ \A k \in K : verdict[k] = "answered"
  /\ verdict' = [k \in Key |-> IF k \in K THEN "open" ELSE verdict[k]]
  /\ lost' = [k \in Key |-> IF k \in K THEN lost[k] + 1 ELSE lost[k]]
  /\ UNCHANGED sent

\* The bot gives up on a message for good.
Abandon(k) ==
  /\ verdict[k] = "open"
  /\ verdict' = [verdict EXCEPT ![k] = "abandoned"]
  /\ UNCHANGED <<sent, lost>>

PromiseNext ==
  \/ \E k \in Key : Answer(k) \/ AnswerUnseen(k) \/ Abandon(k)
  \/ \E K \in SUBSET Key : Forget(K)

PromiseSpec == PromiseInit /\ [][PromiseNext]_promiseVars

\* Every reply beyond the first is paid for by a lost memory of one: the
\* exact account of replies the promise keeps.
RepliesAccounted ==
  \A k \in Key :
    sent[k] = lost[k] + (IF verdict[k] = "answered" THEN 1 ELSE 0)
=============================================================================
