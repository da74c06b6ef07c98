----------------------------- MODULE MCRetryQueue -----------------------------
(* Small instances of RetryQueue for TLC. *)
EXTENDS RetryQueue, TLC

CONSTANTS a1, a2, t1, m1, m2, o1

\* One alert whose origin and impacted endpoints are both candidates.
PairOrigin   == m1 :> a1
PairImpacted == m1 :> a2
PairFallback == m1 :> {a1}

\* Two alerts that name the same single address, one of them with a text as origin.
SharedOrigin   == m1 :> a1 @@ m2 :> NoIp
SharedImpacted == m1 :> NoIp @@ m2 :> a1
SharedFallback == m1 :> {a1} @@ m2 :> {t1}

===============================================================================
