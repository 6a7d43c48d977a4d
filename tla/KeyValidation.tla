--------------------------- MODULE KeyValidation ---------------------------
(***************************************************************************)
(* What token validation promises its callers, without a cache, a lock or  *)
(* requests to the identity provider: a request is judged at once or is    *)
(* suspended and judged later, by a clock value of its own lifetime, and   *)
(* each verdict says something true about the keys of the provider.        *)
(***************************************************************************)
EXTENDS Integers

CONSTANTS
  Requests,   \* slots for concurrent requests
  Kids,       \* key ids the identity provider may publish
  NoKid,      \* no usable kid; as a token, no request
  TTL,        \* how long a withdrawn key may still be accepted
  MaxClock    \* bound on the clock

VARIABLES
  clock,        \* the time
  provider,     \* the kids published now
  withdrawnAt,  \* since when a kid is no longer published
  token,        \* the kid of each suspended request
  asOf,         \* the time a suspended request will be judged by
  steady,       \* has its kid been published since it began?
  verdict       \* the verdict of this step, if there is one

keys == <<provider, withdrawnAt>>
suspended == <<token, asOf, steady>>
vars == <<clock, keys, suspended, verdict>>

Never == 0 - TTL
NoVerdict == [result |-> "none", kid |-> NoKid, now |-> 0, steady |-> FALSE]

Init ==
  /\ clock = 0
  /\ provider \in SUBSET Kids
  /\ withdrawnAt = [k \in Kids |-> Never]
  /\ token = [r \in Requests |-> NoKid]
  /\ asOf = [r \in Requests |-> 0]
  /\ steady = [r \in Requests |-> FALSE]
  /\ verdict = NoVerdict

\* The provider publishes k, or did less than TTL before t.
Recent(k, t) == k \in provider \/ t - withdrawnAt[k] < TTL

\* A token with a recent key is decoded, with success or without.
Decoded(k, t, st) ==
  /\ Recent(k, t)
  /\ \E res \in {"accepted", "invalid"} :
       verdict' = [result |-> res, kid |-> k, now |-> t, steady |-> st]

\* A token without a kid is refused, one with a recent key judged, on the spot.
Judge(k) ==
  /\ \/ /\ k = NoKid
        /\ verdict' = [result |-> "invalid", kid |-> k, now |-> clock, steady |-> FALSE]
     \/ /\ k \in Kids
        /\ Decoded(k, clock, k \in provider)
  /\ UNCHANGED <<clock, keys, suspended>>

\* A request is suspended.
Suspend(r, k) ==
  /\ token[r] = NoKid
  /\ token' = [token EXCEPT ![r] = k]
  /\ asOf' = [asOf EXCEPT ![r] = clock]
  /\ steady' = [steady EXCEPT ![r] = k \in provider]
  /\ verdict' = NoVerdict
  /\ UNCHANGED <<clock, keys>>

\* A suspended request is to be judged by a later time than before.
Renew(r) ==
  /\ token[r] # NoKid
  /\ asOf' = [asOf EXCEPT ![r] = clock]
  /\ verdict' = NoVerdict
  /\ UNCHANGED <<clock, keys, token, steady>>

\* A suspended request is judged: "unknown_kid" only if its kid was missing at the
\* provider at some time since it began.
Decide(r) ==
  /\ token[r] # NoKid
  /\ \/ Decoded(token[r], asOf[r], steady[r])
     \/ \E res \in {"unknown_kid", "unavailable"} :
          /\ res = "unknown_kid" => ~steady[r]
          /\ verdict' = [result |-> res, kid |-> token[r], now |-> asOf[r], steady |-> steady[r]]
  /\ token' = [token EXCEPT ![r] = NoKid]
  /\ asOf' = [asOf EXCEPT ![r] = 0]
  /\ steady' = [steady EXCEPT ![r] = FALSE]
  /\ UNCHANGED <<clock, keys>>

\* Nobody is judged.
Pause ==
  /\ verdict' = NoVerdict
  /\ UNCHANGED <<clock, keys, suspended>>

\* The provider publishes another set of keys.
Rotate(ks) ==
  /\ provider' = ks
  /\ withdrawnAt' = [k \in Kids |-> IF k \in ks THEN Never
                                    ELSE IF k \in provider THEN clock
                                    ELSE withdrawnAt[k]]
  /\ steady' = [r \in Requests |-> steady[r] /\ token[r] \in ks]
  /\ verdict' = NoVerdict
  /\ UNCHANGED <<clock, token, asOf>>

Tick ==
  /\ clock < MaxClock
  /\ clock' = clock + 1
  /\ verdict' = NoVerdict
  /\ UNCHANGED <<keys, suspended>>

Next ==
  \/ \E k \in Kids \cup {NoKid} : Judge(k)
  \/ \E r \in Requests :
       (\E k \in Kids : Suspend(r, k)) \/ Renew(r) \/ Decide(r)
  \/ Pause
  \/ \E ks \in SUBSET Kids : Rotate(ks)
  \/ Tick

Spec == Init /\ [][Next]_vars
=============================================================================
