------------------------------ MODULE MCSignIn ------------------------------
(* SignIn for TLC: one account, sessions of one browser, two requests. *)
EXTENDS SignIn

CONSTANTS t1, t2

MCTokens == {t1, t2}
MCRequests == {1, 2}
=============================================================================
