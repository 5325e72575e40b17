----------------------------- MODULE MCKeyCache -----------------------------
(* TLC's instance of KeyCache: two sign-ins, so that one finds what the     *)
(* other stored, expired or is fetching; two keys, so that one is cached    *)
(* while the other is taken into use; and a clock that passes the life of   *)
(* the cache once.                                                          *)
EXTENDS KeyCache
=============================================================================
