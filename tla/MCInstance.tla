----------------------------- MODULE MCInstance -----------------------------
(* Values for the constants of Instance. *)
EXTENDS InstanceKeeps, TLC

AddrSymmetry == Permutations(Addr)

DualBackup  == <<"ipv4", "dual">>   \* a pinned source and a dual fallback
V4Only      == <<"ipv4">>
=============================================================================
