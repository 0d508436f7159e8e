------------------------------- MODULE Access --------------------------------
(* Access to the web interface: every request passes the rate limiter of its  *)
(* route, and a login passes loginGuard and loginBudget after it.  The two    *)
(* share no state.                                                            *)
EXTENDS AdminLogin, RateLimiter

AccessSpec == LoginSpec /\ RateSpec

\* Who may sign in (AdminLogin), and how often anybody may ask (RateLimiter).
AccessSound == SignInSound /\ []RateHeld

=============================================================================
