---------------------------- MODULE MCProviders ----------------------------
(* Values for the constants of Providers. *)
EXTENDS Providers

CONSTANTS a1, a2, a3
AddrDef  == {a1, a2, a3}
WantedDef == {a1, a2}
FoundDef == {{}, {a3}, {a1, a3}}
KindsDef == {"cloudflare", "timeweb", "selectel", "yandexcloud", "beget",
             "dyndns2", "duckdns", "namecheap", "rfc2136"}
=============================================================================
