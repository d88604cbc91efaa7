-------------------------- MODULE MCInstanceHealth --------------------------
(* Values for the constants of InstanceHealth. *)
EXTENDS InstanceHealth, InstanceKeeps, TLC

AddrSymmetry == Permutations(Addr)

DualBackup  == <<"ipv4", "dual">>   \* a pinned source and a dual fallback
V4Only      == <<"ipv4">>
=============================================================================
