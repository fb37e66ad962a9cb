------------------------------- MODULE MCTimer ------------------------------
EXTENDS Watchdog
CONSTANTS s, t, user, ticker, c, d, w1, w2

MCOwner == (c :> user) @@ (d :> ticker)
MCTimeout == (s :> 1) @@ (t :> 2)
=============================================================================
