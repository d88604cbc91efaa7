----------------------------- MODULE TokenCache -----------------------------
(***************************************************************************)
(* The token that the providers selectel and yandexcloud send with every   *)
(* call: cached between calls, obtained anew shortly before it expires,    *)
(* and dropped when the service does not accept it, in which case the call *)
(* is made once more.                                                      *)
(***************************************************************************)
VARIABLES
    cached,    \* "none", or whether the token is "fresh" or about to expire
    accepted,  \* the service accepts the cached token
    ready,     \* the current call has its token and can be sent
    retried    \* it is the second attempt of the call

tokenVars == <<cached, accepted, ready, retried>>

TokenInit ==
    /\ cached = "none" /\ accepted = FALSE
    /\ ready = FALSE /\ retried = FALSE

\* tokenFor finds the cached token good enough.
TakeCached ==
    /\ ~ready /\ cached = "fresh"
    /\ ready' = TRUE
    /\ UNCHANGED <<cached, accepted, retried>>

\* tokenFor asks the identity service, and caches what it gets.
Authenticate ==
    /\ ~ready /\ cached # "fresh"
    /\ cached' = "fresh" /\ accepted' = TRUE
    /\ ready' = TRUE
    /\ UNCHANGED retried

\* The call is over, with or without an answer; the next one starts anew.
CallEnds ==
    /\ ready' = FALSE /\ retried' = FALSE
    /\ UNCHANGED <<cached, accepted>>

\* variant: the refused token stays in the cache.
KeepToken == UNCHANGED <<cached, accepted>>

InvalidateToken == cached' = "none" /\ accepted' = FALSE

\* The service answers 401 to the first attempt.
TryAgain ==
    /\ ready /\ ~accepted /\ ~retried
    /\ InvalidateToken
    /\ ready' = FALSE /\ retried' = TRUE

\* variant: no second attempt is needed for it.
FirstRefusal == ready /\ ~accepted

\* It answers 401 to the second one as well.
Unauthorized == ready /\ ~accepted /\ retried

Authorized == ready /\ accepted

\* The service withdraws the token, or it expires there before its time.
Withdraw ==
    /\ accepted
    /\ accepted' = FALSE
    /\ UNCHANGED <<cached, ready, retried>>

\* By the clock of the program the token is about to expire.
Expire ==
    /\ cached = "fresh"
    /\ cached' = "stale"
    /\ UNCHANGED <<accepted, ready, retried>>

=============================================================================
