-------------------------- MODULE MCTokenManager ----------------------------
(* The lives, margins and waits are scaled down in the order of the code's    *)
(* own: MaxWait <= InnerMargin < Margin < Interval < Life, and the interval   *)
(* is what the code computes from life and margin.                            *)
EXTENDS TokenManager, TLC

CONSTANTS w1, q1

\* A request, which contends with the loop of its worker for the lock.
MCOneRequest == q1 :> w1

\* proxy_token_refresh_margin and a minute before the end of a token's life.
MCInterval == Life - Margin - InnerMargin
=============================================================================
