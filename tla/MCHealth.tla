------------------------------ MODULE MCHealth ------------------------------
(* Values for the constants of Health. *)
EXTENDS Health

Plain      == <<"home", ".">>    \* one name that is escaped, one that is not
FastSlow   == <<1, 2>>           \* below and above the floor of the threshold

\* Why StuckIsNotOverlooked has a hypothesis: two names, one status file.
ASSUME FileName(".") = FileName("_.")
=============================================================================
