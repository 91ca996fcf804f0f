---------------------------- MODULE MatterLedger ----------------------------
(***************************************************************************)
(* What a Matter (dossier) promises those who write to it, whatever        *)
(* storage calls a write takes: accepted writes form an append-only log.   *)
(* Each is accepted at the revision its client expected, moves the Matter  *)
(* to the next one, and is accepted once under its idempotency key.        *)
(*                                                                         *)
(* A play session, a contact and a document of the firm library have a     *)
(* revision of their own and make the same promise.                        *)
(***************************************************************************)
EXTENDS Integers

CONSTANTS
    Entries,    \* writes: records with at least a key and an expected revision
    Origin      \* the revision the log starts at

VARIABLES
    revision,
    log         \* the accepted writes

ledgerVars == <<revision, log>>

Init == revision = Origin /\ log = {}

\* A write is accepted.
Append(e) ==
    /\ e.expected = revision
    /\ \A f \in log : f.key # e.key
    /\ log' = log \cup {e}
    /\ revision' = revision + 1

\* Another operation moves the Matter on.
Advance ==
    /\ revision' = revision + 1
    /\ UNCHANGED log

Next == (\E e \in Entries : Append(e)) \/ Advance

Spec == Init /\ [][Next]_ledgerVars

\* No two accepted writes share an idempotency key or were expected at one revision: nobody's write
\* was overwritten by another that had not seen it, and none was made twice.
WrittenOnce == \A e, f \in log : e.key = f.key \/ e.expected = f.expected => e = f
=============================================================================
