---------------------------- MODULE InstanceKeeps ----------------------------
(***************************************************************************)
(* An instance implements RecordKeeper. Its belief about a record is what  *)
(* last holds while it runs; once its context is cancelled an interrupted  *)
(* write leaves last alone, so nothing it holds counts any more. That is   *)
(* sound because the instance then begins no further write.                *)
(***************************************************************************)
EXTENDS Instance

Belief ==
    IF cancelled THEN [p \in Providers |-> Nothing] ELSE last

Keeper == INSTANCE RecordKeeper WITH belief <- Belief

\* Every step of an instance is a step of RecordKeeper, or changes neither
\* records nor beliefs.
KeepsRecords == Keeper!Spec

=============================================================================
