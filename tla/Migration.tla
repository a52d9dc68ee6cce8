----------------------------- MODULE Migration -----------------------------
(***************************************************************************)
(* A migration in its two grains: the buckets and the tables (Migrate) and *)
(* the items of one bucket (BucketCopy).  They share no variable, so a     *)
(* behaviour is one of the one or of the other, chosen by grain.           *)
(***************************************************************************)
EXTENDS Migrate

CONSTANTS Key, Value, Absent, PacketMax, MaxWrites, MaxSends

VARIABLES grain, src, dst, phase, unscanned, packet, net, sends, writes, latest, touched, late

Copy == INSTANCE BucketCopy

copyVars == <<src, dst, phase, unscanned, packet, net, sends, writes, latest, touched, late>>

MigrationInit ==
    /\ Init /\ Copy!Init
    /\ \/ grain = "tables" /\ src = [k \in Key |-> Absent]
       \/ grain = "items" /\ plan[1] = NoPlan

MigrationNext ==
    /\ UNCHANGED grain
    /\ \/ grain = "tables" /\ Next /\ UNCHANGED copyVars
       \/ grain = "items" /\ Copy!Next /\ UNCHANGED vars

MigrationSpec == MigrationInit /\ [][MigrationNext]_<<grain, vars, copyVars>>

\* The type invariants of both grains.
MigrationTypeOK == TypeOK /\ Copy!TypeOK

\* UntouchedKeysArrive of BucketCopy: when a bucket is done its destination has the
\* keys nobody wrote during the move as the last acknowledged write left them.
UntouchedKeysArrive == Copy!UntouchedKeysArrive
=============================================================================
