----------------------------- MODULE MCSession -----------------------------
\* Two players, one of each way to sign in, and three requests.
EXTENDS Session, TLC

CONSTANTS wx, acct

MCKindOf == (wx :> "wechat") @@ (acct :> "account")
=============================================================================
