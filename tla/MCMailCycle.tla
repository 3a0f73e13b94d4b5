---------------------------- MODULE MCMailCycle -----------------------------
(* Small instances of MailCycle. *)
EXTENDS MailCycle, TLC

CONSTANTS a, b        \* two message identities

\* Two files with the same Message-ID around a file of its own.
SharedKeyOf == 1 :> a @@ 2 :> b @@ 3 :> a

\* Each file has an identity of its own.
OwnKeyOf == 1 :> a @@ 2 :> b

\* Delays that grow with the attempts.
GrowingDelay == [n \in 1..MaxAttempts |-> n]
=============================================================================
