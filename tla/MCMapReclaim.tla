---------------------------- MODULE MCMapReclaim ----------------------------
(* Instances of MapReclaim.                                                *)
EXTENDS MapReclaim

CONSTANTS p1, p2

\* Pages at the beginning of the fork.
MCFirstBlock == [p \in Pages |-> IF p = p1 THEN 0 ELSE 1]

\* The primary does not depend on a standby: once one has begun to replay,
\* only the standbys move.  Every prefix of every WAL is still replayed.
Replaying == \E n \in Standbys : node[n].cursor > 1 \/ node[n].missed # {}

StandbysLast == Replaying => /\ UNCHANGED <<wal, background>>
                             /\ node'[Primary] = node[Primary]

\* ... and the state of the primary no longer matters.
Relevant ==
    IF Replaying THEN <<wal, [n \in Standbys |-> node[n]], exposed, crashes>> ELSE <<vars>>
=============================================================================
