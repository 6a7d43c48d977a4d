-------------------------- MODULE JwksCacheProofs --------------------------
(***************************************************************************)
(* The safety of the signing-key cache for every number of requests and    *)
(* kids, every TTL and every clock bound.  The argument rests on the       *)
(* queue of the lock: it holds exactly the suspended requests, ordered by  *)
(* the time they read before they queued, so a store never carries a stamp *)
(* older than the one it replaces, and a key in the cache is published or  *)
(* was withdrawn after the stamp.                                          *)
(***************************************************************************)
EXTENDS JwksCache, TLAPS

Active == {r \in Requests : pc[r] # "idle"}

\* q lists the members of P, each once.
Lists(q, P) ==
  /\ \A i \in 1..Len(q) : q[i] \in P
  /\ \A i, j \in 1..Len(q) : q[i] = q[j] => i = j
  /\ \A r \in P : \E i \in 1..Len(q) : q[i] = r

\* The times t of the members of q do not decrease.
Ordered(q, t) ==
  \A i, j \in 1..Len(q) : i <= j => t[q[i]] <= t[q[j]]

\* The lock's queue: the suspended requests, a fetching one at the head.
LockInv ==
  /\ Lists(lock, Active)
  /\ \A r \in Requests : pc[r] \in InGet => Holds(r)

\* The stamps: cache, waiters in order, clock.
TimeInv ==
  /\ cachedAt <= clock
  /\ Ordered(lock, now)
  /\ \A r \in Active : cachedAt <= now[r] /\ now[r] <= clock

\* A key in ks, read from the provider no earlier than t, is still published
\* or was withdrawn at t or later.
Current(ks, t) ==
  \A k \in ks : k \in provider \/ withdrawnAt[k] >= t

KeyInv ==
  /\ \A k \in Kids : withdrawnAt[k] <= clock
  /\ cache # None => Current(cache, cachedAt)
  /\ \A r \in Requests : pc[r] = "answered" => Current(payload[r], now[r])

SteadyInv ==
  \A r \in Requests :
    /\ pc[r] # "idle" => kid[r] \in Kids
    /\ steady[r] => kid[r] \in provider
    /\ pc[r] = "answered" /\ steady[r] => kid[r] \in payload[r]

\* An idle slot has forgotten its last request.
IdleInv ==
  \A r \in Requests :
    pc[r] = "idle" => kid[r] = NoKid /\ now[r] = 0 /\ steady[r] = FALSE

IInv ==
  /\ TypeOK /\ LockInv /\ TimeInv /\ KeyInv /\ SteadyInv /\ IdleInv
  /\ RevocationBound /\ NoFalseRejection

\* How a coroutine leaves the lock's queue when it is resumed: it was not in
\* it, or it holds the lock and releases it.
From(r, q) ==
  \/ pc[r] = "idle" /\ q = lock
  \/ Holds(r) /\ q = Tail(lock)

-----------------------------------------------------------------------------
(* Queues. *)

\* Removing the head of a queue removes it from the listed set.
LEMMA TailLists ==
  ASSUME NEW S, NEW q \in Seq(S), q # <<>>, NEW P, Lists(q, P)
  PROVE  Lists(Tail(q), P \ {Head(q)})
<1>1. /\ Len(q) \in Nat /\ Len(q) >= 1
      /\ Tail(q) \in Seq(S) /\ Len(Tail(q)) = Len(q) - 1
      /\ Head(q) = q[1]
      /\ \A i \in 1..(Len(q) - 1) : Tail(q)[i] = q[i + 1]
  OBVIOUS
<1>2. \A i \in 1..Len(Tail(q)) : Tail(q)[i] \in P \ {Head(q)}
  BY <1>1 DEF Lists
<1>3. \A i, j \in 1..Len(Tail(q)) : Tail(q)[i] = Tail(q)[j] => i = j
  BY <1>1 DEF Lists
<1>4. ASSUME NEW r \in P \ {Head(q)}
      PROVE  \E i \in 1..Len(Tail(q)) : Tail(q)[i] = r
  <2>1. PICK i \in 1..Len(q) : q[i] = r
    BY DEF Lists
  <2>2. i - 1 \in 1..Len(Tail(q)) /\ Tail(q)[i - 1] = r
    BY <1>1, <2>1
  <2> QED BY <2>2
<1> QED BY <1>2, <1>3, <1>4 DEF Lists

\* Appending a newcomer to a queue adds it to the listed set.
LEMMA AppendLists ==
  ASSUME NEW S, NEW q \in Seq(S), NEW P, Lists(q, P), NEW r \in S, r \notin P
  PROVE  Lists(Append(q, r), P \cup {r})
<1>1. /\ Len(q) \in Nat
      /\ Append(q, r) \in Seq(S) /\ Len(Append(q, r)) = Len(q) + 1
      /\ \A i \in 1..Len(q) : Append(q, r)[i] = q[i]
      /\ Append(q, r)[Len(q) + 1] = r
  OBVIOUS
<1>2. \A i \in 1..(Len(q) + 1) : i \in 1..Len(q) \/ i = Len(q) + 1
  BY <1>1
<1>3. \A i \in 1..Len(Append(q, r)) : Append(q, r)[i] \in P \cup {r}
  BY <1>1, <1>2 DEF Lists
<1>4. \A i, j \in 1..Len(Append(q, r)) :
        Append(q, r)[i] = Append(q, r)[j] => i = j
  BY <1>1, <1>2 DEF Lists
<1>5. ASSUME NEW p \in P \cup {r}
      PROVE  \E i \in 1..Len(Append(q, r)) : Append(q, r)[i] = p
  BY <1>1 DEF Lists
<1> QED BY <1>3, <1>4, <1>5 DEF Lists

\* The queue a resumed coroutine leaves lists the other suspended requests, in
\* the same order, and none of them is fetching if the coroutine held the lock.
LEMMA QueueLeft ==
  ASSUME TypeOK, LockInv, NEW r \in Requests, NEW q, From(r, q)
  PROVE  /\ q \in Seq(Requests)
         /\ Lists(q, Active \ {r})
         /\ Ordered(lock, now) => Ordered(q, now)
         /\ \A s \in Requests \ {r} :
              pc[s] \in InGet => q = lock /\ Holds(s)
<1>1. CASE pc[r] = "idle" /\ q = lock
  BY <1>1 DEF TypeOK, LockInv, Lists, Active
<1>2. CASE Holds(r) /\ q = Tail(lock)
  <2>1. /\ lock \in Seq(Requests) /\ lock # <<>>
        /\ Tail(lock) \in Seq(Requests) /\ Len(lock) \in Nat
        /\ Len(Tail(lock)) = Len(lock) - 1
        /\ \A i \in 1..(Len(lock) - 1) : Tail(lock)[i] = lock[i + 1]
    BY <1>2 DEF TypeOK, Holds
  <2>2. Lists(Tail(lock), Active \ {r})
    BY <1>2, <2>1, TailLists DEF LockInv, Holds
  <2>3. Ordered(lock, now) => Ordered(Tail(lock), now)
    BY <2>1 DEF Ordered
  <2>4. \A s \in Requests \ {r} : pc[s] \notin InGet
    BY <1>2 DEF LockInv, Holds
  <2> QED BY <1>2, <2>1, <2>2, <2>3, <2>4
<1> QED BY <1>1, <1>2 DEF From

-----------------------------------------------------------------------------
(* Steps. *)

\* A lookup ends the request or queues it for a forced refresh.
LEMMA LookupCases ==
  ASSUME NEW r, NEW k, NEW keys, NEW f, NEW t, NEW st, NEW q,
         Lookup(r, k, keys, f, t, st, q)
  PROVE  \/ k \in keys /\ \E res \in {"accepted", "invalid"} :
                              Reply(r, res, k, t, st, q)
         \/ k \notin keys /\ f /\ Reply(r, "unknown_kid", k, t, st, q)
         \/ JoinLock(r, TRUE, k, st, q)
BY DEF Lookup

\* The initial states satisfy the invariant.
LEMMA InitInv == Init => IInv
<1> SUFFICES ASSUME Init PROVE IInv
  OBVIOUS
<1>1. TypeOK
  BY ClockAssumption, TTLAssumption, NoKidAssumption
  DEF Init, TypeOK, Never, NoVerdict, Results, InGet
<1>2. LockInv /\ TimeInv
  BY ClockAssumption DEF Init, LockInv, Lists, Active, TimeInv, Ordered, InGet
<1>3. KeyInv
  BY TTLAssumption DEF Init, KeyInv, Never
<1>4. SteadyInv /\ IdleInv /\ RevocationBound /\ NoFalseRejection
  BY DEF Init, SteadyInv, IdleInv, RevocationBound, NoFalseRejection, NoVerdict
<1> QED BY <1>1, <1>2, <1>3, <1>4 DEF IInv

\* The types of what a request's step changes, and of what it may leave alone.
CallTypes ==
  /\ lock \in Seq(Requests)
  /\ pc \in [Requests -> {"idle", "locking"} \cup InGet]
  /\ kid \in [Requests -> Kids \cup {NoKid}]
  /\ force \in [Requests -> BOOLEAN]
  /\ now \in [Requests -> Nat]
  /\ payload \in [Requests -> SUBSET Kids]
  /\ steady \in [Requests -> BOOLEAN]
  /\ verdict \in [result : Results, kid : Kids \cup {NoKid}, now : Nat,
                  steady : BOOLEAN]

OtherTypes ==
  /\ clock \in 0..MaxClock
  /\ provider \in SUBSET Kids
  /\ withdrawnAt \in [Kids -> Int]
  /\ cache = None \/ cache \in SUBSET Kids
  /\ cachedAt \in Nat

\* A reply keeps the types.
LEMMA ReplyType ==
  ASSUME TypeOK, NEW r \in Requests, NEW res \in Results,
         NEW k \in Kids \cup {NoKid}, NEW t \in Nat, NEW st \in BOOLEAN,
         NEW q \in Seq(Requests), Reply(r, res, k, t, st, q)
  PROVE  CallTypes'
BY DEF TypeOK, CallTypes, Reply

\* So does queueing for the lock.
LEMMA JoinType ==
  ASSUME TypeOK, NEW r \in Requests, NEW f \in BOOLEAN,
         NEW k \in Kids \cup {NoKid}, NEW st \in BOOLEAN,
         NEW q \in Seq(Requests), JoinLock(r, f, k, st, q)
  PROVE  CallTypes'
<1>1. clock \in Nat
  BY ClockAssumption DEF TypeOK
<1>2. lock' \in Seq(Requests)
  BY DEF JoinLock
<1>3. verdict' \in [result : Results, kid : Kids \cup {NoKid}, now : Nat,
                    steady : BOOLEAN]
  BY DEF JoinLock, NoVerdict, Results
<1> QED BY <1>1, <1>2, <1>3 DEF TypeOK, CallTypes, JoinLock

\* And a lookup.
LEMMA LookupType ==
  ASSUME TypeOK, NEW r \in Requests, NEW f \in BOOLEAN,
         NEW k \in Kids \cup {NoKid}, NEW keys, NEW t \in Nat,
         NEW st \in BOOLEAN, NEW q \in Seq(Requests),
         Lookup(r, k, keys, f, t, st, q)
  PROVE  CallTypes'
<1>1. ASSUME NEW res \in {"accepted", "invalid"}, Reply(r, res, k, t, st, q)
      PROVE  res \in Results
  BY DEF Results
<1>2. "unknown_kid" \in Results
  BY DEF Results
<1>3. CASE \E res \in {"accepted", "invalid"} : Reply(r, res, k, t, st, q)
  BY <1>1, <1>3, ReplyType, Zenon
<1>4. CASE Reply(r, "unknown_kid", k, t, st, q)
  BY <1>2, <1>4, ReplyType, Zenon
<1>5. CASE JoinLock(r, TRUE, k, st, q)
  <2>1. TRUE \in BOOLEAN
    OBVIOUS
  <2> QED BY <2>1, <1>5, JoinType, Zenon
<1> QED BY <1>3, <1>4, <1>5, LookupCases, Zenon

\* Every step keeps the types.
LEMMA TypeStep == TypeOK /\ LockInv /\ Next => TypeOK'
<1> SUFFICES ASSUME TypeOK, LockInv, Next PROVE TypeOK'
  OBVIOUS
<1> USE DEF cacheVars, providerVars, callVars
<1>0. OtherTypes /\ (CallTypes' /\ OtherTypes' => TypeOK')
  BY DEF TypeOK, CallTypes, OtherTypes
<1>1. clock \in Nat /\ lock \in Seq(Requests)
  BY ClockAssumption DEF TypeOK
<1>2. ASSUME NEW r \in Requests
      PROVE  /\ kid[r] \in Kids \cup {NoKid} /\ now[r] \in Nat
             /\ force[r] \in BOOLEAN /\ steady[r] \in BOOLEAN
             /\ Holds(r) => Tail(lock) \in Seq(Requests)
  BY DEF TypeOK, Holds
<1>3. /\ FALSE \in BOOLEAN /\ {"invalid", "unavailable"} \subseteq Results
      /\ NoVerdict \in [result : Results, kid : Kids \cup {NoKid}, now : Nat,
                        steady : BOOLEAN]
  BY DEF NoVerdict, Results
<1>4. ASSUME NEW r \in Requests, NEW k \in Kids \cup {NoKid}, Begin(r, k)
      PROVE  TypeOK'
  <2>1. OtherTypes'
    BY <1>0, <1>4 DEF OtherTypes, Begin
  <2>2. PICK st \in BOOLEAN : st = (k \in provider)
    <3>1. (k \in provider) \in BOOLEAN
      OBVIOUS
    <3> QED BY <3>1, Zenon
  <2>3. CASE Reply(r, "invalid", k, clock, FALSE, lock)
    BY <1>0, <1>1, <1>3, <2>1, <2>3, ReplyType
  <2>4. CASE Lookup(r, k, cache, FALSE, clock, st, lock)
    <3>1. CallTypes'
      BY <1>1, <1>3, <2>4, LookupType, Zenon
    <3> QED BY <1>0, <2>1, <3>1
  <2>5. CASE JoinLock(r, FALSE, k, st, lock)
    <3>1. CallTypes'
      BY <1>1, <1>3, <2>5, JoinType, Zenon
    <3> QED BY <1>0, <2>1, <3>1
  <2> QED BY <1>4, <2>2, <2>3, <2>4, <2>5 DEF Begin
<1>5. ASSUME NEW r \in Requests, RecheckHit(r) PROVE TypeOK'
  <2>1. Lookup(r, kid[r], cache, FALSE, now[r], steady[r], Tail(lock))
        /\ Holds(r)
    BY <1>5 DEF RecheckHit
  <2>2. CallTypes'
    BY <1>2, <1>3, <2>1, LookupType, Zenon
  <2>3. OtherTypes'
    BY <1>0, <1>5 DEF OtherTypes, RecheckHit
  <2> QED BY <1>0, <2>2, <2>3
<1>6. ASSUME NEW r \in Requests, SendGet(r) PROVE TypeOK'
  BY <1>3, <1>6 DEF TypeOK, SendGet, InGet
<1>7. ASSUME NEW r \in Requests, Answer(r) PROVE TypeOK'
  BY <1>3, <1>7 DEF TypeOK, Answer, InGet
<1>8. ASSUME NEW r \in Requests, Store(r) PROVE TypeOK'
  <2>1. /\ Lookup(r, kid[r], payload[r], force[r], now[r], steady[r], Tail(lock))
        /\ Holds(r) /\ payload[r] \in SUBSET Kids
    BY <1>8 DEF Store, LockInv, InGet, TypeOK
  <2>2. CallTypes'
    BY <1>2, <2>1, LookupType, Zenon
  <2>3. OtherTypes'
    BY <1>0, <1>2, <1>8, <2>1 DEF OtherTypes, Store
  <2> QED BY <1>0, <2>2, <2>3
<1>9. ASSUME NEW r \in Requests, FetchFails(r) PROVE TypeOK'
  <2>1. /\ Reply(r, "unavailable", kid[r], now[r], steady[r], Tail(lock))
        /\ Holds(r)
    BY <1>9 DEF FetchFails, LockInv
  <2>2. CallTypes'
    BY <1>2, <1>3, <2>1, ReplyType
  <2>3. OtherTypes'
    BY <1>0, <1>9 DEF OtherTypes, FetchFails
  <2> QED BY <1>0, <2>2, <2>3
<1>10. ASSUME NEW ks \in SUBSET Kids, Rotate(ks) PROVE TypeOK'
  <2>1. Never \in Int
    BY TTLAssumption DEF Never
  <2>2. withdrawnAt' \in [Kids -> Int]
    BY <1>1, <1>10, <2>1 DEF TypeOK, Rotate
  <2>3. steady' \in [Requests -> BOOLEAN]
    BY <1>10 DEF Rotate, TypeOK
  <2> QED BY <1>3, <1>10, <2>2, <2>3 DEF TypeOK, Rotate
<1>11. CASE Tick
  BY <1>3, <1>11, ClockAssumption DEF TypeOK, Tick
<1> QED BY <1>4, <1>5, <1>6, <1>7, <1>8, <1>9, <1>10, <1>11 DEF Next

-----------------------------------------------------------------------------
(* The lock's queue. *)

\* A resumed coroutine that replies leaves the queue as the invariant says.
LEMMA ReplyLock ==
  ASSUME TypeOK, LockInv, NEW r \in Requests, NEW res, NEW k, NEW t, NEW st,
         NEW q, From(r, q), Reply(r, res, k, t, st, q)
  PROVE  LockInv' /\ Active' = Active \ {r}
<1>1. /\ pc' = [pc EXCEPT ![r] = "idle"] /\ lock' = q
  BY DEF Reply
<1>2. Active' = Active \ {r}
  BY <1>1 DEF Active, TypeOK
<1>3. /\ Lists(q, Active \ {r})
      /\ \A s \in Requests \ {r} : pc[s] \in InGet => q = lock /\ Holds(s)
  BY QueueLeft
<1>4. Lists(lock', Active')
  BY <1>1, <1>2, <1>3
<1>5. \A s \in Requests : pc'[s] \in InGet => Holds(s)'
  BY <1>1, <1>3 DEF TypeOK, InGet, Holds
<1> QED BY <1>2, <1>4, <1>5 DEF LockInv

\* So does one that queues for the lock.
LEMMA JoinLockInv ==
  ASSUME TypeOK, LockInv, NEW r \in Requests, NEW f, NEW k, NEW st,
         NEW q, From(r, q), JoinLock(r, f, k, st, q)
  PROVE  LockInv' /\ Active' = (Active \ {r}) \cup {r}
<1>1. /\ pc' = [pc EXCEPT ![r] = "locking"] /\ lock' = Append(q, r)
  BY DEF JoinLock
<1>2. Active' = (Active \ {r}) \cup {r}
  BY <1>1 DEF Active, TypeOK
<1>3. /\ q \in Seq(Requests) /\ Lists(q, Active \ {r})
      /\ \A s \in Requests \ {r} : pc[s] \in InGet => q = lock /\ Holds(s)
  BY QueueLeft
<1>4. Lists(Append(q, r), (Active \ {r}) \cup {r})
  BY <1>3, AppendLists
<1>5. ASSUME NEW s \in Requests, pc'[s] \in InGet PROVE Holds(s)'
  <2>1. s # r /\ pc[s] \in InGet
    BY <1>1, <1>5 DEF TypeOK, InGet
  <2>2. q = lock /\ lock # <<>> /\ Head(lock) = s
    BY <1>3, <2>1 DEF Holds
  <2> QED BY <1>1, <1>3, <2>2 DEF Holds
<1> QED BY <1>1, <1>2, <1>4, <1>5 DEF LockInv

\* A call that goes on either replies or queues, out of a queue it may leave.
LEMMA LookupShape ==
  ASSUME NEW r, NEW k, NEW keys, NEW f, NEW t, NEW st, NEW q,
         Lookup(r, k, keys, f, t, st, q)
  PROVE  \/ \E res : Reply(r, res, k, t, st, q)
         \/ JoinLock(r, TRUE, k, st, q)
BY LookupCases, Zenon

\* Every step keeps the queue: it lists the suspended requests, each once, and
\* a fetching one holds the lock.
LEMMA LockStep == TypeOK /\ LockInv /\ Next => LockInv'
<1> SUFFICES ASSUME TypeOK, LockInv, Next PROVE LockInv'
  OBVIOUS
<1>1. ASSUME NEW r \in Requests, NEW k \in Kids \cup {NoKid}, Begin(r, k)
      PROVE  LockInv'
  <2>1. From(r, lock)
    BY <1>1 DEF Begin, From
  <2>2. \/ \E res, t, st : Reply(r, res, k, t, st, lock)
        \/ \E f, st : JoinLock(r, f, k, st, lock)
    BY <1>1, LookupShape, Zenon DEF Begin
  <2> QED BY <2>1, <2>2, ReplyLock, JoinLockInv
<1>2. ASSUME NEW r \in Requests, RecheckHit(r) \/ Store(r) \/ FetchFails(r)
      PROVE  LockInv'
  <2>1. From(r, Tail(lock))
    BY <1>2 DEF RecheckHit, Store, FetchFails, From, LockInv, InGet
  <2>2. \/ \E res : Reply(r, res, kid[r], now[r], steady[r], Tail(lock))
        \/ JoinLock(r, TRUE, kid[r], steady[r], Tail(lock))
    BY <1>2, LookupShape, Zenon DEF RecheckHit, Store, FetchFails
  <2> QED BY <2>1, <2>2, ReplyLock, JoinLockInv
<1>3. ASSUME NEW r \in Requests, SendGet(r) \/ Answer(r) PROVE LockInv'
  <2>1. Active' = Active /\ lock' = lock /\ Holds(r)
    BY <1>3 DEF SendGet, Answer, Active, TypeOK, LockInv, InGet
  <2>2. \A s \in Requests : pc'[s] \in InGet => s = r \/ pc[s] \in InGet
    BY <1>3 DEF SendGet, Answer, TypeOK
  <2> QED BY <2>1, <2>2 DEF LockInv, Lists, Holds
<1>4. CASE Tick \/ \E ks \in SUBSET Kids : Rotate(ks)
  BY <1>4 DEF Tick, Rotate, LockInv, Lists, Active, Holds, callVars
<1> QED BY <1>1, <1>2, <1>3, <1>4 DEF Next

-----------------------------------------------------------------------------
(* The stamps. *)

\* A resumed coroutine keeps the order of the stamps if the cache's new stamp
\* is not ahead of any other suspended request.
LEMMA CallTime ==
  ASSUME TypeOK, LockInv, TimeInv, NEW r \in Requests, NEW q, From(r, q),
         \/ \E res, k, t, st : Reply(r, res, k, t, st, q)
         \/ \E f, k, st : JoinLock(r, f, k, st, q),
         clock' = clock, cachedAt' <= clock,
         \A s \in Active \ {r} : cachedAt' <= now[s]
  PROVE  TimeInv'
<1>1. /\ q \in Seq(Requests) /\ Lists(q, Active \ {r}) /\ Ordered(q, now)
  BY QueueLeft DEF TimeInv
<1>2. clock \in Nat /\ \A s \in Requests : now[s] \in Nat
  BY ClockAssumption DEF TypeOK
<1>3. \A i \in 1..Len(q) : q[i] \in Requests /\ q[i] # r /\ now[q[i]] <= clock
  BY <1>1 DEF Lists, Active, TimeInv
<1>4. CASE \E res, k, t, st : Reply(r, res, k, t, st, q)
  <2>1. now' = [now EXCEPT ![r] = 0] /\ lock' = q
    BY <1>4 DEF Reply
  <2>2. Active' = Active \ {r}
    BY <1>4, ReplyLock
  <2>3. Ordered(lock', now')
    BY <1>1, <1>3, <2>1 DEF Ordered, TypeOK
  <2>4. \A s \in Active' : cachedAt' <= now'[s] /\ now'[s] <= clock'
    BY <2>1, <2>2 DEF TimeInv, TypeOK, Active
  <2> QED BY <2>3, <2>4 DEF TimeInv
<1>5. CASE \E f, k, st : JoinLock(r, f, k, st, q)
  <2>1. now' = [now EXCEPT ![r] = clock] /\ lock' = Append(q, r)
    BY <1>5 DEF JoinLock
  <2>2. Active' = (Active \ {r}) \cup {r}
    BY <1>5, JoinLockInv
  <2>3. /\ Len(q) \in Nat /\ Len(lock') = Len(q) + 1 /\ lock'[Len(q) + 1] = r
        /\ \A i \in 1..Len(q) : lock'[i] = q[i]
        /\ \A i \in 1..(Len(q) + 1) : i \in 1..Len(q) \/ i = Len(q) + 1
    BY <1>1, <2>1
  <2>4. now'[r] = clock /\ \A i \in 1..Len(q) : now'[q[i]] = now[q[i]]
    BY <1>3, <2>1 DEF TypeOK
  <2>5. ASSUME NEW i \in 1..Len(lock'), NEW j \in 1..Len(lock'), i <= j
        PROVE  now'[lock'[i]] <= now'[lock'[j]]
    <3>1. CASE j \in 1..Len(q)
      BY <1>1, <2>3, <2>4, <2>5, <3>1 DEF Ordered
    <3>2. CASE j = Len(q) + 1
      BY <1>2, <1>3, <2>3, <2>4, <3>2
    <3> QED BY <2>3, <3>1, <3>2
  <2>6. \A s \in Active' : cachedAt' <= now'[s] /\ now'[s] <= clock'
    BY <1>2, <2>1, <2>2 DEF TimeInv, TypeOK, Active
  <2> QED BY <2>5, <2>6 DEF TimeInv, Ordered
<1> QED BY <1>4, <1>5

\* Every step keeps the order of the stamps.
LEMMA TimeStep == TypeOK /\ LockInv /\ TimeInv /\ Next => TimeInv'
<1> SUFFICES ASSUME TypeOK, LockInv, TimeInv, Next PROVE TimeInv'
  OBVIOUS
<1>1. ASSUME NEW r \in Requests, NEW k \in Kids \cup {NoKid}, Begin(r, k)
      PROVE  TimeInv'
  <2>1. From(r, lock) /\ clock' = clock /\ cachedAt' = cachedAt
    BY <1>1 DEF Begin, From, cacheVars
  <2>2. \/ \E res, t, st : Reply(r, res, k, t, st, lock)
        \/ \E f, st : JoinLock(r, f, k, st, lock)
    BY <1>1, LookupShape, Zenon DEF Begin
  <2>3. cachedAt' <= clock /\ \A s \in Active \ {r} : cachedAt' <= now[s]
    BY <2>1 DEF TimeInv
  <2> QED BY <2>1, <2>2, <2>3, CallTime
<1>2. ASSUME NEW r \in Requests, RecheckHit(r) \/ Store(r) \/ FetchFails(r)
      PROVE  TimeInv'
  <2>1. Holds(r)
    BY <1>2 DEF RecheckHit, Store, FetchFails, LockInv, InGet
  <2>2. From(r, Tail(lock)) /\ clock' = clock
    BY <1>2, <2>1 DEF RecheckHit, Store, FetchFails, From
  <2>3. \/ \E res : Reply(r, res, kid[r], now[r], steady[r], Tail(lock))
        \/ JoinLock(r, TRUE, kid[r], steady[r], Tail(lock))
    BY <1>2, LookupShape, Zenon DEF RecheckHit, Store, FetchFails
  <2>4. cachedAt' = cachedAt \/ cachedAt' = now[r]
    BY <1>2 DEF RecheckHit, Store, FetchFails, cacheVars
  <2>5. r \in Active
    BY <1>2 DEF RecheckHit, Store, FetchFails, InGet, Active
  <2>6. ASSUME NEW s \in Active PROVE now[r] <= now[s]
    <3>1. PICK i \in 1..Len(lock) : lock[i] = s
      BY DEF LockInv, Lists
    <3>2. lock \in Seq(Requests) /\ lock[1] = r /\ 1 \in 1..Len(lock) /\ 1 <= i
      BY <2>1, <3>1 DEF Holds, TypeOK
    <3> QED BY <3>1, <3>2 DEF TimeInv, Ordered
  <2>7. cachedAt' <= clock /\ \A s \in Active \ {r} : cachedAt' <= now[s]
    BY <2>4, <2>5, <2>6 DEF TimeInv
  <2> QED BY <2>2, <2>3, <2>7, CallTime
<1>3. ASSUME NEW r \in Requests, SendGet(r) \/ Answer(r) PROVE TimeInv'
  <2>1. /\ Active' = Active /\ lock' = lock /\ now' = now /\ clock' = clock
        /\ cachedAt' = cachedAt
    BY <1>3 DEF SendGet, Answer, Active, TypeOK, InGet, cacheVars
  <2> QED BY <2>1 DEF TimeInv, Ordered
<1>4. CASE Tick
  <2>1. /\ Active' = Active /\ lock' = lock /\ now' = now /\ clock' = clock + 1
        /\ cachedAt' = cachedAt
    BY <1>4 DEF Tick, Active, callVars, cacheVars
  <2>2. clock \in Nat /\ cachedAt \in Nat /\ \A s \in Requests : now[s] \in Nat
    BY ClockAssumption DEF TypeOK
  <2> QED BY <2>1, <2>2 DEF TimeInv, Ordered, Active
<1>5. CASE \E ks \in SUBSET Kids : Rotate(ks)
  BY <1>5 DEF Rotate, TimeInv, Ordered, Active, cacheVars
<1> QED BY <1>1, <1>2, <1>3, <1>4, <1>5 DEF Next

-----------------------------------------------------------------------------
(* The keys. *)

\* Every step keeps what is known of the keys that were read from the provider.
LEMMA KeyStep == TypeOK /\ LockInv /\ TimeInv /\ KeyInv /\ Next => KeyInv'
<1> SUFFICES ASSUME TypeOK, LockInv, TimeInv, KeyInv, Next PROVE KeyInv'
  OBVIOUS
<1>1. clock \in Nat /\ \A k \in Kids : withdrawnAt[k] \in Int
  BY ClockAssumption DEF TypeOK
<1>2. ASSUME NEW r \in Requests, NEW q, UNCHANGED <<clock, providerVars>>,
             \/ \E res, k, t, st : Reply(r, res, k, t, st, q)
             \/ \E f, k, st : JoinLock(r, f, k, st, q),
             cache' # None => Current(cache', cachedAt')
      PROVE  KeyInv'
  <2>1. /\ pc'[r] # "answered"
        /\ \A s \in Requests \ {r} :
             pc'[s] = pc[s] /\ payload'[s] = payload[s] /\ now'[s] = now[s]
    BY <1>2 DEF Reply, JoinLock, TypeOK
  <2> QED BY <1>2, <2>1 DEF KeyInv, Current, providerVars
<1>3. ASSUME NEW r \in Requests, NEW k \in Kids \cup {NoKid}, Begin(r, k)
      PROVE  KeyInv'
  <2>1. \/ \E res, t, st : Reply(r, res, k, t, st, lock)
        \/ \E f, st : JoinLock(r, f, k, st, lock)
    BY <1>3, LookupShape, Zenon DEF Begin
  <2>2. /\ UNCHANGED <<clock, providerVars>>
        /\ cache' # None => Current(cache', cachedAt')
    BY <1>3 DEF Begin, KeyInv, cacheVars, Current
  <2> QED BY <1>2, <2>1, <2>2
<1>4. ASSUME NEW r \in Requests, RecheckHit(r) \/ Store(r) \/ FetchFails(r)
      PROVE  KeyInv'
  <2>1. \/ \E res : Reply(r, res, kid[r], now[r], steady[r], Tail(lock))
        \/ JoinLock(r, TRUE, kid[r], steady[r], Tail(lock))
    BY <1>4, LookupShape, Zenon DEF RecheckHit, Store, FetchFails
  <2>2. UNCHANGED <<clock, providerVars>>
    BY <1>4 DEF RecheckHit, Store, FetchFails
  <2>3. \/ cache' = cache /\ cachedAt' = cachedAt
        \/ pc[r] = "answered" /\ cache' = payload[r] /\ cachedAt' = now[r]
    BY <1>4 DEF RecheckHit, Store, FetchFails, cacheVars
  <2>4. cache' # None => Current(cache', cachedAt')
    BY <2>3 DEF KeyInv, Current
  <2> QED BY <1>2, <2>1, <2>2, <2>4
<1>5. ASSUME NEW r \in Requests, SendGet(r) PROVE KeyInv'
  <2>1. /\ \A s \in Requests : pc'[s] = "answered" => pc[s] = "answered"
        /\ UNCHANGED <<clock, cache, cachedAt, provider, withdrawnAt, payload, now>>
    BY <1>5 DEF SendGet, TypeOK, providerVars, cacheVars
  <2> QED BY <2>1 DEF KeyInv, Current
<1>6. ASSUME NEW r \in Requests, Answer(r) PROVE KeyInv'
  <2>1. /\ \A s \in Requests \ {r} : pc'[s] = pc[s] /\ payload'[s] = payload[s]
        /\ payload'[r] = provider
        /\ UNCHANGED <<clock, cache, cachedAt, provider, withdrawnAt, now>>
    BY <1>6 DEF Answer, TypeOK, providerVars, cacheVars
  <2> QED BY <2>1 DEF KeyInv, Current
<1>7. ASSUME NEW ks \in SUBSET Kids, Rotate(ks) PROVE KeyInv'
  <2>1. /\ provider' = ks /\ UNCHANGED <<clock, cache, cachedAt, pc, payload, now>>
        /\ \A k \in Kids : withdrawnAt'[k] = IF k \in ks THEN Never
                                            ELSE IF k \in provider THEN clock
                                            ELSE withdrawnAt[k]
    BY <1>7 DEF Rotate, cacheVars
  <2>2. Never <= clock
    BY <1>1, TTLAssumption DEF Never
  <2>3. ASSUME NEW kk \in SUBSET Kids, NEW t \in Nat, t <= clock, Current(kk, t)
        PROVE  Current(kk, t)'
    BY <1>1, <2>1, <2>3 DEF Current
  <2>4. \A k \in Kids : withdrawnAt'[k] <= clock'
    BY <1>1, <2>1, <2>2 DEF KeyInv
  <2>5. (cache # None => Current(cache, cachedAt))'
    <3>1. CASE cache = None
      BY <2>1, <3>1
    <3>2. CASE cache # None
      <4>1. cache \in SUBSET Kids /\ cachedAt \in Nat /\ cachedAt <= clock
        BY <3>2 DEF TypeOK, TimeInv
      <4> QED BY <2>1, <2>3, <3>2, <4>1 DEF KeyInv, Current
    <3> QED BY <3>1, <3>2
  <2>6. ASSUME NEW r \in Requests, pc'[r] = "answered"
        PROVE  Current(payload[r], now[r])'
    <3>1. /\ pc[r] = "answered" /\ payload[r] \in SUBSET Kids /\ now[r] \in Nat
          /\ now[r] <= clock
      BY <2>1, <2>6 DEF TypeOK, TimeInv, Active
    <3> QED BY <2>1, <2>3, <3>1 DEF KeyInv, Current
  <2> QED BY <2>4, <2>5, <2>6 DEF KeyInv
<1>8. CASE Tick
  <2>1. UNCHANGED <<cache, cachedAt, provider, withdrawnAt, pc, payload, now>>
        /\ clock' = clock + 1
    BY <1>8 DEF Tick, cacheVars, providerVars, callVars
  <2> QED BY <1>1, <2>1 DEF KeyInv, Current
<1> QED BY <1>3, <1>4, <1>5, <1>6, <1>7, <1>8 DEF Next

\* Every step keeps what is known of the kids published since a request began.
LEMMA SteadyStep == TypeOK /\ LockInv /\ SteadyInv /\ Next => SteadyInv'
<1> SUFFICES ASSUME TypeOK, LockInv, SteadyInv, Next PROVE SteadyInv'
  OBVIOUS
<1>1. ASSUME NEW r \in Requests, NEW q, UNCHANGED providerVars,
             \/ \E res, k, t, st : Reply(r, res, k, t, st, q)
             \/ \E f, k, st : /\ JoinLock(r, f, k, st, q)
                             /\ k \in Kids /\ (st => k \in provider)
      PROVE  SteadyInv'
  <2>1. \A s \in Requests \ {r} : /\ pc'[s] = pc[s] /\ kid'[s] = kid[s]
                                  /\ payload'[s] = payload[s]
                                  /\ steady'[s] = steady[s]
    BY <1>1 DEF Reply, JoinLock, TypeOK
  <2>2. CASE \E res, k, t, st : Reply(r, res, k, t, st, q)
    <3>1. pc'[r] = "idle" /\ steady'[r] = FALSE
      BY <2>2 DEF Reply, TypeOK
    <3> QED BY <1>1, <2>1, <3>1 DEF SteadyInv, providerVars
  <2>3. CASE \E f, k, st : /\ JoinLock(r, f, k, st, q)
                          /\ k \in Kids /\ (st => k \in provider)
    <3>1. pc'[r] = "locking" /\ kid'[r] \in Kids
          /\ (steady'[r] => kid'[r] \in provider)
      BY <2>3 DEF JoinLock, TypeOK
    <3> QED BY <1>1, <2>1, <3>1 DEF SteadyInv, providerVars
  <2> QED BY <1>1, <2>2, <2>3
<1>2. ASSUME NEW r \in Requests, NEW k \in Kids \cup {NoKid}, Begin(r, k)
      PROVE  SteadyInv'
  <2>1. UNCHANGED providerVars
    BY <1>2 DEF Begin
  <2>2. CASE \E res, t, st : Reply(r, res, k, t, st, lock)
    BY <1>1, <2>1, <2>2
  <2>3. PICK st \in BOOLEAN : st = (k \in provider)
    <3>1. (k \in provider) \in BOOLEAN
      OBVIOUS
    <3> QED BY <3>1, Zenon
  <2>4. CASE k \in Kids /\ \E f : JoinLock(r, f, k, st, lock)
    <3>1. st => k \in provider
      BY <2>3
    <3> QED BY <1>1, <2>1, <2>4, <3>1, Zenon
  <2>5. k # NoKid => k \in Kids
    OBVIOUS
  <2>6. \/ Reply(r, "invalid", k, clock, FALSE, lock)
        \/ k # NoKid /\ Lookup(r, k, cache, FALSE, clock, st, lock)
        \/ k # NoKid /\ JoinLock(r, FALSE, k, st, lock)
    BY <1>2, <2>3 DEF Begin
  <2> QED BY <2>2, <2>4, <2>5, <2>6, LookupShape, Zenon
<1>3. ASSUME NEW r \in Requests, RecheckHit(r) \/ Store(r) \/ FetchFails(r)
      PROVE  SteadyInv'
  <2>1. \/ \E res : Reply(r, res, kid[r], now[r], steady[r], Tail(lock))
        \/ JoinLock(r, TRUE, kid[r], steady[r], Tail(lock))
    BY <1>3, LookupShape, Zenon DEF RecheckHit, Store, FetchFails
  <2>2. UNCHANGED providerVars /\ pc[r] # "idle"
    BY <1>3 DEF RecheckHit, Store, FetchFails, InGet
  <2>3. kid[r] \in Kids /\ (steady[r] => kid[r] \in provider)
    BY <2>2 DEF SteadyInv
  <2> QED BY <1>1, <2>1, <2>2, <2>3, Zenon
<1>4. ASSUME NEW r \in Requests, SendGet(r) PROVE SteadyInv'
  BY <1>4 DEF SendGet, SteadyInv, TypeOK, providerVars
<1>5. ASSUME NEW r \in Requests, Answer(r) PROVE SteadyInv'
  BY <1>5 DEF Answer, SteadyInv, TypeOK, providerVars
<1>6. ASSUME NEW ks \in SUBSET Kids, Rotate(ks) PROVE SteadyInv'
  BY <1>6 DEF Rotate, SteadyInv, TypeOK
<1>7. CASE Tick
  BY <1>7 DEF Tick, SteadyInv, providerVars, callVars
<1> QED BY <1>2, <1>3, <1>4, <1>5, <1>6, <1>7 DEF Next

\* Every step leaves an idle slot empty.
LEMMA IdleStep == TypeOK /\ IdleInv /\ Next => IdleInv'
<1> SUFFICES ASSUME TypeOK, IdleInv, Next PROVE IdleInv'
  OBVIOUS
<1>1. ASSUME NEW r \in Requests, NEW q,
             \/ \E res, k, t, st : Reply(r, res, k, t, st, q)
             \/ \E f, k, st : JoinLock(r, f, k, st, q)
      PROVE  IdleInv'
  <2>1. \A s \in Requests \ {r} : /\ pc'[s] = pc[s] /\ kid'[s] = kid[s]
                                  /\ now'[s] = now[s] /\ steady'[s] = steady[s]
    BY <1>1 DEF Reply, JoinLock, TypeOK
  <2>2. pc'[r] # "idle" \/ (kid'[r] = NoKid /\ now'[r] = 0 /\ steady'[r] = FALSE)
    BY <1>1 DEF Reply, JoinLock, TypeOK
  <2> QED BY <2>1, <2>2 DEF IdleInv
<1>2. ASSUME NEW r \in Requests, NEW k \in Kids \cup {NoKid}, Begin(r, k)
      PROVE  IdleInv'
  <2>1. \/ \E res, t, st : Reply(r, res, k, t, st, lock)
        \/ \E f, st : JoinLock(r, f, k, st, lock)
    BY <1>2, LookupShape, Zenon DEF Begin
  <2> QED BY <1>1, <2>1
<1>3. ASSUME NEW r \in Requests, RecheckHit(r) \/ Store(r) \/ FetchFails(r)
      PROVE  IdleInv'
  <2>1. \/ \E res : Reply(r, res, kid[r], now[r], steady[r], Tail(lock))
        \/ JoinLock(r, TRUE, kid[r], steady[r], Tail(lock))
    BY <1>3, LookupShape, Zenon DEF RecheckHit, Store, FetchFails
  <2> QED BY <1>1, <2>1
<1>4. ASSUME NEW r \in Requests, SendGet(r) \/ Answer(r) PROVE IdleInv'
  BY <1>4 DEF SendGet, Answer, IdleInv, TypeOK
<1>5. ASSUME NEW ks \in SUBSET Kids, Rotate(ks) PROVE IdleInv'
  BY <1>5 DEF Rotate, IdleInv
<1>6. CASE Tick
  BY <1>6 DEF Tick, IdleInv, callVars
<1> QED BY <1>2, <1>3, <1>4, <1>5, <1>6 DEF Next

-----------------------------------------------------------------------------
(* The verdicts. *)

VerdictOK == RevocationBound /\ NoFalseRejection

\* A lookup of a kid in a key set that is current for less than TTL gives a
\* verdict as promised.
LEMMA LookupVerdict ==
  ASSUME TypeOK, NEW r, NEW k \in Kids, NEW keys \in SUBSET Kids, NEW f,
         NEW t \in Int, NEW st, NEW q, NEW at \in Int,
         Lookup(r, k, keys, f, t, st, q),
         Current(keys, at), t - at < TTL, f /\ st => k \in keys,
         UNCHANGED providerVars
  PROVE  VerdictOK'
<1>1. provider' = provider /\ withdrawnAt' = withdrawnAt /\ withdrawnAt[k] \in Int
  BY DEF providerVars, TypeOK
<1>2. CASE k \in keys /\ \E res \in {"accepted", "invalid"} :
                            Reply(r, res, k, t, st, q)
  <2>1. /\ verdict'.result # "unknown_kid" /\ verdict'.kid = k
        /\ verdict'.now = t
    BY <1>2 DEF Reply
  <2>2. k \in provider \/ withdrawnAt[k] >= at
    BY <1>2 DEF Current
  <2> QED BY <1>1, <2>1, <2>2, TTLAssumption
          DEF VerdictOK, RevocationBound, NoFalseRejection
<1>3. CASE k \notin keys /\ f /\ Reply(r, "unknown_kid", k, t, st, q)
  <2>1. verdict'.result = "unknown_kid" /\ verdict'.steady = st
    BY <1>3 DEF Reply
  <2>2. ~st
    BY <1>3, Zenon
  <2> QED BY <2>1, <2>2 DEF VerdictOK, RevocationBound, NoFalseRejection
<1>4. CASE JoinLock(r, TRUE, k, st, q)
  BY <1>4 DEF JoinLock, NoVerdict, VerdictOK, RevocationBound, NoFalseRejection
<1> QED BY <1>2, <1>3, <1>4, LookupCases, Zenon

\* Every step that gives a verdict gives it as promised.
LEMMA VerdictStep ==
  TypeOK /\ LockInv /\ TimeInv /\ KeyInv /\ SteadyInv /\ Next => VerdictOK'
<1> SUFFICES ASSUME TypeOK, LockInv, TimeInv, KeyInv, SteadyInv, Next
             PROVE  VerdictOK'
  OBVIOUS
<1>1. clock \in Nat /\ cachedAt \in Nat /\ \A r \in Requests : now[r] \in Nat
  BY ClockAssumption DEF TypeOK
<1>2. verdict' = NoVerdict => VerdictOK'
  BY DEF NoVerdict, VerdictOK, RevocationBound, NoFalseRejection
<1>3. ASSUME NEW r, NEW res, NEW k, NEW t, NEW st, NEW q,
             Reply(r, res, k, t, st, q), res \in {"invalid", "unavailable"}
      PROVE  VerdictOK'
  BY <1>3 DEF Reply, VerdictOK, RevocationBound, NoFalseRejection
<1>4. ASSUME NEW t, Fresh(t)
      PROVE  cache \in SUBSET Kids /\ Current(cache, cachedAt) /\ t - cachedAt < TTL
  BY <1>4 DEF Fresh, TypeOK, KeyInv
<1>5. ASSUME NEW r \in Requests, NEW k \in Kids \cup {NoKid}, Begin(r, k)
      PROVE  VerdictOK'
  <2>1. CASE k = NoKid /\ Reply(r, "invalid", k, clock, FALSE, lock)
    BY <1>3, <2>1
  <2>2. CASE /\ k # NoKid /\ Fresh(clock)
             /\ Lookup(r, k, cache, FALSE, clock, k \in provider, lock)
    <3>1. k \in Kids /\ UNCHANGED providerVars
      BY <1>5, <2>2 DEF Begin
    <3>2. /\ cache \in SUBSET Kids /\ Current(cache, cachedAt)
          /\ clock - cachedAt < TTL
      BY <1>4, <2>2
    <3>3. clock \in Int /\ cachedAt \in Int
      BY <1>1
    <3>4. PICK st : st = (k \in provider)
      OBVIOUS
    <3>5. Lookup(r, k, cache, FALSE, clock, st, lock)
      BY <2>2, <3>4
    <3>6. FALSE /\ st => k \in cache
      OBVIOUS
    <3> QED BY <3>1, <3>2, <3>3, <3>5, <3>6, LookupVerdict, Zenon
  <2>3. CASE JoinLock(r, FALSE, k, k \in provider, lock)
    BY <1>2, <2>3 DEF JoinLock
  <2> QED BY <1>5, <2>1, <2>2, <2>3 DEF Begin
<1>6. ASSUME NEW r \in Requests, RecheckHit(r) PROVE VerdictOK'
  <2>1. /\ Fresh(now[r])
        /\ Lookup(r, kid[r], cache, FALSE, now[r], steady[r], Tail(lock))
    BY <1>6 DEF RecheckHit
  <2>2. kid[r] \in Kids /\ UNCHANGED providerVars
    BY <1>6 DEF RecheckHit, SteadyInv
  <2>3. /\ cache \in SUBSET Kids /\ Current(cache, cachedAt)
        /\ now[r] - cachedAt < TTL
    BY <1>4, <2>1
  <2>4. now[r] \in Int /\ cachedAt \in Int
    BY <1>1
  <2> QED BY <2>1, <2>2, <2>3, <2>4, LookupVerdict, Zenon
<1>7. ASSUME NEW r \in Requests, Store(r) PROVE VerdictOK'
  <2>1. Lookup(r, kid[r], payload[r], force[r], now[r], steady[r], Tail(lock))
    BY <1>7 DEF Store
  <2>2. /\ kid[r] \in Kids /\ UNCHANGED providerVars /\ now[r] \in Int
        /\ payload[r] \in SUBSET Kids /\ Current(payload[r], now[r])
        /\ force[r] /\ steady[r] => kid[r] \in payload[r]
    BY <1>1, <1>7 DEF Store, SteadyInv, KeyInv, TypeOK
  <2>3. now[r] - now[r] < TTL
    BY <1>1, TTLAssumption
  <2> QED BY <2>1, <2>2, <2>3, LookupVerdict, Zenon
<1>8. ASSUME NEW r \in Requests, FetchFails(r) PROVE VerdictOK'
  BY <1>3, <1>8 DEF FetchFails
<1>9. ASSUME NEW r \in Requests, SendGet(r) \/ Answer(r) PROVE VerdictOK'
  BY <1>2, <1>9 DEF SendGet, Answer
<1>10. CASE Tick \/ \E ks \in SUBSET Kids : Rotate(ks)
  BY <1>2, <1>10 DEF Tick, Rotate
<1> QED BY <1>5, <1>6, <1>7, <1>8, <1>9, <1>10 DEF Next

-----------------------------------------------------------------------------
(* The theorems. *)

\* The invariant is inductive.
LEMMA Induction == IInv /\ [Next]_vars => IInv'
<1> SUFFICES ASSUME IInv, [Next]_vars PROVE IInv'
  OBVIOUS
<1>1. CASE Next
  BY <1>1, TypeStep, LockStep, TimeStep, KeyStep, SteadyStep, IdleStep, VerdictStep
  DEF IInv, VerdictOK
<1>2. CASE UNCHANGED vars
  BY <1>2 DEF IInv, vars, cacheVars, providerVars, callVars, TypeOK, LockInv,
     Lists, Active, Holds, TimeInv, Ordered, KeyInv, Current, SteadyInv, IdleInv,
     RevocationBound, NoFalseRejection
<1> QED BY <1>1, <1>2

\* The invariant holds in every reachable state.
THEOREM Invariance == Spec => []IInv
BY InitInv, Induction, PTL DEF Spec

\* The variables keep their types.
THEOREM TypeCorrect == Spec => []TypeOK
<1>1. IInv => TypeOK
  BY DEF IInv
<1> QED BY <1>1, Invariance, PTL

\* At most one request of the gateway talks to the identity provider, and it
\* holds the lock (_fetch_jwks).
THEOREM OneGetInFlight == Spec => []SingleFlight
<1>1. IInv => SingleFlight
  BY DEF IInv, LockInv, SingleFlight, Holds
<1> QED BY <1>1, Invariance, PTL

\* A withdrawn key is accepted for less than one TTL, by the clock value the
\* request read (validate_token).
THEOREM RevocationIsBounded == Spec => []RevocationBound
<1>1. IInv => RevocationBound
  BY DEF IInv
<1> QED BY <1>1, Invariance, PTL

\* No token is rejected for an unknown kid that was published all along.
THEOREM NoTokenFalselyRejected == Spec => []NoFalseRejection
<1>1. IInv => NoFalseRejection
  BY DEF IInv
<1> QED BY <1>1, Invariance, PTL

\* No step empties a filled cache or sets its stamp back, although stores are
\* stamped before the lock is requested (_fetch_jwks).
THEOREM CacheOnlyAdvances == Spec => CacheAdvances
<1>1. IInv /\ [Next]_vars
        => [cachedAt' >= cachedAt /\ (cache # None => cache' # None)]_vars
  <2> SUFFICES ASSUME IInv, Next
               PROVE  cachedAt' >= cachedAt /\ (cache # None => cache' # None)
    BY DEF vars
  <2>1. /\ cachedAt \in Nat
        /\ \A r \in Requests : now[r] \in Nat /\ payload[r] \in SUBSET Kids
    BY DEF IInv, TypeOK
  <2>2. \A r \in Requests : pc[r] = "answered" => now[r] >= cachedAt
    BY DEF IInv, TimeInv, Active
  <2>3. \/ cachedAt' = cachedAt /\ cache' = cache
        \/ \E r \in Requests :
             pc[r] = "answered" /\ cachedAt' = now[r] /\ cache' = payload[r]
    BY DEF Next, Begin, RecheckHit, SendGet, Answer, Store, FetchFails, Rotate,
       Tick, cacheVars
  <2> QED BY <2>1, <2>2, <2>3, NoneAssumption
<1> QED BY <1>1, Invariance, PTL DEF Spec, CacheAdvances

-----------------------------------------------------------------------------
(* The refinement. *)

\* A key of a set that is current for less than TTL is a recent one.
LEMMA CurrentIsRecent ==
  ASSUME TypeOK, NEW k \in Kids, NEW keys, NEW at \in Int, NEW t \in Int,
         k \in keys, Current(keys, at), t - at < TTL
  PROVE  Validation!Recent(k, t)
<1>1. withdrawnAt[k] \in Int /\ TTL \in Int
  BY TTLAssumption DEF TypeOK
<1>2. k \in provider \/ withdrawnAt[k] >= at
  BY DEF Current
<1> QED BY <1>1, <1>2 DEF Validation!Recent

\* A reply to a request that never waited is a judgement on the spot, if the verdict
\* is of that kind.
LEMMA ReplyJudges ==
  ASSUME TypeOK, IdleInv, NEW r \in Requests, pc[r] = "idle", NEW res, NEW k, NEW st,
         NEW q, Reply(r, res, k, clock, st, q), UNCHANGED <<clock, providerVars>>,
         \/ k = NoKid /\ res = "invalid" /\ st = FALSE
         \/ /\ k \in Kids /\ res \in {"accepted", "invalid"}
            /\ st = (k \in provider) /\ Validation!Recent(k, clock)
  PROVE  Validation!Judge(k)
<1>1. UNCHANGED <<kid, now, steady>>
  BY DEF Reply, TypeOK, IdleInv
<1>2. verdict' = [result |-> res, kid |-> k, now |-> clock, steady |-> st]
  BY DEF Reply
<1>3. UNCHANGED <<clock, Validation!keys, Validation!suspended>>
  BY <1>1 DEF Validation!keys, Validation!suspended, providerVars
<1> QED BY <1>2, <1>3 DEF Validation!Judge, Validation!Decoded

\* A reply to a suspended request decides it, if the verdict is a true one.
LEMMA ReplyDecides ==
  ASSUME TypeOK, SteadyInv, NEW r \in Requests, pc[r] # "idle", NEW res, NEW q,
         Reply(r, res, kid[r], now[r], steady[r], q), UNCHANGED <<clock, providerVars>>,
         \/ res \in {"accepted", "invalid"} /\ Validation!Recent(kid[r], now[r])
         \/ res = "unknown_kid" /\ ~steady[r]
         \/ res = "unavailable"
  PROVE  Validation!Decide(r)
<1>1. kid[r] # NoKid
  BY NoKidAssumption DEF SteadyInv
<1>2. /\ verdict' = [result |-> res, kid |-> kid[r], now |-> now[r], steady |-> steady[r]]
      /\ kid' = [kid EXCEPT ![r] = NoKid]
      /\ now' = [now EXCEPT ![r] = 0]
      /\ steady' = [steady EXCEPT ![r] = FALSE]
  BY DEF Reply
<1>3. UNCHANGED <<clock, Validation!keys>>
  BY DEF Validation!keys, providerVars
<1> QED BY <1>1, <1>2, <1>3 DEF Validation!Decide, Validation!Decoded

\* Queueing for the lock suspends a request, or renews the time of a suspended one.
LEMMA JoinSuspends ==
  ASSUME TypeOK, IdleInv, NEW r \in Requests, pc[r] = "idle", NEW f, NEW k \in Kids,
         NEW st, st = (k \in provider), NEW q, JoinLock(r, f, k, st, q),
         UNCHANGED <<clock, providerVars>>
  PROVE  Validation!Suspend(r, k)
BY DEF JoinLock, IdleInv, NoVerdict, providerVars, Validation!Suspend,
   Validation!keys, Validation!NoVerdict

LEMMA JoinRenews ==
  ASSUME TypeOK, SteadyInv, NEW r \in Requests, pc[r] # "idle", NEW f, NEW q,
         JoinLock(r, f, kid[r], steady[r], q), UNCHANGED <<clock, providerVars>>
  PROVE  Validation!Renew(r)
<1>1. kid[r] # NoKid
  BY NoKidAssumption DEF SteadyInv
<1>2. UNCHANGED <<kid, steady>>
  BY DEF JoinLock, TypeOK
<1> QED BY <1>1, <1>2 DEF JoinLock, NoVerdict, providerVars, Validation!Renew,
             Validation!keys, Validation!NoVerdict

\* The first lookup of a request, in a fresh cache, judges or suspends it.
LEMMA LookupFirst ==
  ASSUME TypeOK, IdleInv, NEW r \in Requests, pc[r] = "idle", NEW k \in Kids,
         NEW keys, NEW st, st = (k \in provider), NEW q,
         Lookup(r, k, keys, FALSE, clock, st, q), NEW at \in Int, Current(keys, at),
         clock - at < TTL, UNCHANGED <<clock, providerVars>>
  PROVE  Validation!Judge(k) \/ Validation!Suspend(r, k)
<1>1. clock \in Int
  BY ClockAssumption DEF TypeOK
<1>2. CASE k \in keys /\ \E res \in {"accepted", "invalid"} : Reply(r, res, k, clock, st, q)
  BY <1>1, <1>2, CurrentIsRecent, ReplyJudges
<1>3. CASE JoinLock(r, TRUE, k, st, q)
  BY <1>3, JoinSuspends
<1> QED BY <1>2, <1>3, LookupCases, Zenon

\* A later lookup decides it or renews its time.
LEMMA LookupLater ==
  ASSUME TypeOK, SteadyInv, NEW r \in Requests, pc[r] # "idle", NEW keys, NEW f, NEW q,
         Lookup(r, kid[r], keys, f, now[r], steady[r], q), NEW at \in Int,
         Current(keys, at), now[r] - at < TTL, f /\ steady[r] => kid[r] \in keys,
         UNCHANGED <<clock, providerVars>>
  PROVE  Validation!Decide(r) \/ Validation!Renew(r)
<1>1. now[r] \in Int /\ kid[r] \in Kids
  BY DEF TypeOK, SteadyInv
<1>2. CASE /\ kid[r] \in keys
           /\ \E res \in {"accepted", "invalid"} :
                Reply(r, res, kid[r], now[r], steady[r], q)
  BY <1>1, <1>2, CurrentIsRecent, ReplyDecides
<1>3. CASE kid[r] \notin keys /\ f /\ Reply(r, "unknown_kid", kid[r], now[r], steady[r], q)
  <2>1. ~steady[r]
    BY <1>3, Zenon
  <2> QED BY <1>3, <2>1, ReplyDecides
<1>4. CASE JoinLock(r, TRUE, kid[r], steady[r], q)
  BY <1>4, JoinRenews
<1> QED BY <1>2, <1>3, <1>4, LookupCases, Zenon

\* Every step of the cache is a step of the validation.
LEMMA ValidationStep == IInv /\ Next => Validation!Next
<1> SUFFICES ASSUME IInv, Next PROVE Validation!Next
  OBVIOUS
<1>1. TypeOK /\ TimeInv /\ KeyInv /\ SteadyInv /\ IdleInv
  BY DEF IInv
<1>2. clock \in Nat /\ cachedAt \in Nat /\ \A r \in Requests : now[r] \in Nat
  BY <1>1, ClockAssumption DEF TypeOK
<1>3. ASSUME NEW t, Fresh(t) PROVE Current(cache, cachedAt) /\ t - cachedAt < TTL
  BY <1>1, <1>3 DEF Fresh, KeyInv
<1>4. ASSUME NEW r \in Requests, NEW k \in Kids \cup {NoKid}, Begin(r, k)
      PROVE  Validation!Next
  <2>1. pc[r] = "idle" /\ UNCHANGED <<clock, providerVars>>
    BY <1>4 DEF Begin
  <2>2. CASE k = NoKid /\ Reply(r, "invalid", k, clock, FALSE, lock)
    BY <1>1, <2>1, <2>2, ReplyJudges DEF Validation!Next
  <2>3. PICK st : st = (k \in provider)
    OBVIOUS
  <2>4. CASE k # NoKid /\ Fresh(clock) /\ Lookup(r, k, cache, FALSE, clock, st, lock)
    <3>1. k \in Kids /\ cachedAt \in Int
      BY <1>2, <2>4
    <3>2. Validation!Judge(k) \/ Validation!Suspend(r, k)
      BY <1>1, <1>3, <2>1, <2>3, <2>4, <3>1, LookupFirst, Zenon
    <3> QED BY <3>1, <3>2 DEF Validation!Next
  <2>5. CASE k # NoKid /\ JoinLock(r, FALSE, k, st, lock)
    <3>1. k \in Kids
      BY <2>5
    <3>2. Validation!Suspend(r, k)
      BY <1>1, <2>1, <2>3, <2>5, <3>1, JoinSuspends, Zenon
    <3> QED BY <3>1, <3>2 DEF Validation!Next
  <2> QED BY <1>4, <2>2, <2>3, <2>4, <2>5 DEF Begin
<1>5. ASSUME NEW r \in Requests, RecheckHit(r) PROVE Validation!Next
  <2>1. /\ pc[r] # "idle" /\ UNCHANGED <<clock, providerVars>> /\ Fresh(now[r])
        /\ Lookup(r, kid[r], cache, FALSE, now[r], steady[r], Tail(lock))
    BY <1>5 DEF RecheckHit
  <2>2. cachedAt \in Int /\ (FALSE /\ steady[r] => kid[r] \in cache)
    BY <1>2
  <2>3. Validation!Decide(r) \/ Validation!Renew(r)
    BY <1>1, <1>3, <2>1, <2>2, LookupLater, Zenon
  <2> QED BY <2>3 DEF Validation!Next
<1>6. ASSUME NEW r \in Requests, Store(r) PROVE Validation!Next
  <2>1. /\ pc[r] = "answered" /\ UNCHANGED <<clock, providerVars>>
        /\ Lookup(r, kid[r], payload[r], force[r], now[r], steady[r], Tail(lock))
    BY <1>6 DEF Store
  <2>2. /\ pc[r] # "idle" /\ Current(payload[r], now[r]) /\ now[r] \in Int
        /\ now[r] - now[r] < TTL
        /\ force[r] /\ steady[r] => kid[r] \in payload[r]
    BY <1>1, <1>2, <2>1, TTLAssumption DEF KeyInv, SteadyInv
  <2>3. Validation!Decide(r) \/ Validation!Renew(r)
    BY <1>1, <2>1, <2>2, LookupLater, Zenon
  <2> QED BY <2>3 DEF Validation!Next
<1>7. ASSUME NEW r \in Requests, FetchFails(r) PROVE Validation!Next
  <2>1. /\ pc[r] # "idle" /\ UNCHANGED <<clock, providerVars>>
        /\ Reply(r, "unavailable", kid[r], now[r], steady[r], Tail(lock))
    BY <1>7 DEF FetchFails, InGet
  <2>2. Validation!Decide(r)
    BY <1>1, <2>1, ReplyDecides
  <2> QED BY <2>2 DEF Validation!Next
<1>8. ASSUME NEW r \in Requests, SendGet(r) \/ Answer(r) PROVE Validation!Next
  <2>1. Validation!Pause
    BY <1>8 DEF SendGet, Answer, providerVars, NoVerdict, Validation!Pause,
       Validation!keys, Validation!suspended, Validation!NoVerdict
  <2> QED BY <2>1 DEF Validation!Next
<1>9. ASSUME NEW ks \in SUBSET Kids, Rotate(ks) PROVE Validation!Next
  <2>1. Validation!Rotate(ks)
    BY <1>9 DEF Rotate, Never, NoVerdict, Validation!Rotate, Validation!Never,
       Validation!NoVerdict
  <2> QED BY <2>1 DEF Validation!Next
<1>10. CASE Tick
  <2>1. Validation!Tick
    BY <1>10 DEF Tick, providerVars, callVars, NoVerdict, Validation!Tick,
       Validation!keys, Validation!suspended, Validation!NoVerdict
  <2> QED BY <2>1 DEF Validation!Next
<1> QED BY <1>4, <1>5, <1>6, <1>7, <1>8, <1>9, <1>10 DEF Next

\* The cache, the lock and the GETs implement the validation that knows the keys:
\* validate_token says of a token only what the provider's keys of the last TTL allow.
THEOREM CacheImplementsValidation == Spec => ValidationImplemented
<1>1. Init => Validation!Init
  BY DEF Init, Never, NoVerdict, Validation!Init, Validation!Never, Validation!NoVerdict
<1>2. IInv /\ [Next]_vars => [Validation!Next]_(Validation!vars)
  <2>1. UNCHANGED vars => UNCHANGED Validation!vars
    BY DEF vars, providerVars, callVars, Validation!vars, Validation!keys,
       Validation!suspended
  <2> QED BY <2>1, ValidationStep
<1> QED BY <1>1, <1>2, Invariance, PTL DEF Spec, ValidationImplemented, Validation!Spec

-----------------------------------------------------------------------------
(* The safety behind EveryRequestEnds: what fairness has to work on. *)

\* The members of q before r.
Before(q, r) ==
  {s \in Requests : \E i, j \in 1..Len(q) : i < j /\ q[i] = s /\ q[j] = r}

\* Whenever a request waits, a suspended request holds the lock: r itself or one
\* before it.
HolderMoves ==
  \A r \in Active : \E h \in Active : Holds(h) /\ (h = r \/ h \in Before(lock, r))

\* No request is overtaken, and none queues more than twice: what is before it in the
\* queue only gets less, unless it goes to the end itself, for its forced refresh.
NotSetBack(r) ==
  (pc[r] # "idle" /\ pc'[r] # "idle") =>
    \/ Before(lock', r) \subseteq Before(lock, r) /\ force'[r] = force[r]
    \/ force[r] = FALSE /\ force'[r] = TRUE

NoOvertaking == [][\A r \in Requests : NotSetBack(r)]_vars

\* Taking the head off a queue, or appending another, puts nobody before r.
LEMMA TailBefore ==
  ASSUME NEW S, NEW q \in Seq(S), q # <<>>, NEW r
  PROVE  Before(Tail(q), r) \subseteq Before(q, r)
<1>1. /\ Len(q) \in Nat /\ Len(Tail(q)) = Len(q) - 1
      /\ \A i \in 1..(Len(q) - 1) : Tail(q)[i] = q[i + 1] /\ i + 1 \in 1..Len(q)
  OBVIOUS
<1> SUFFICES ASSUME NEW s \in Requests, NEW i \in 1..(Len(q) - 1), NEW j \in 1..(Len(q) - 1),
                    i < j, Tail(q)[i] = s, Tail(q)[j] = r
             PROVE  s \in Before(q, r)
  BY <1>1 DEF Before
<1>2. q[i + 1] = s /\ q[j + 1] = r /\ i + 1 < j + 1
  BY <1>1
<1> QED BY <1>1, <1>2 DEF Before

LEMMA AppendBefore ==
  ASSUME NEW S, NEW q \in Seq(S), NEW s \in S, NEW r, r # s
  PROVE  Before(Append(q, s), r) \subseteq Before(q, r)
<1>1. /\ Len(q) \in Nat /\ Len(Append(q, s)) = Len(q) + 1
      /\ \A i \in 1..Len(q) : Append(q, s)[i] = q[i]
      /\ Append(q, s)[Len(q) + 1] = s
  OBVIOUS
<1> SUFFICES ASSUME NEW p \in Requests, NEW i \in 1..(Len(q) + 1), NEW j \in 1..(Len(q) + 1),
                    i < j, Append(q, s)[i] = p, Append(q, s)[j] = r
             PROVE  p \in Before(q, r)
  BY <1>1 DEF Before
<1>2. j # Len(q) + 1
  BY <1>1
<1>3. j \in 1..Len(q) /\ i \in 1..Len(q)
  BY <1>1, <1>2
<1>4. q[i] = p /\ q[j] = r
  BY <1>1, <1>3
<1> QED BY <1>3, <1>4 DEF Before

\* The lock is never left to nobody while requests wait for it.
THEOREM LockIsMoving == Spec => []HolderMoves
<1>1. TypeOK /\ LockInv => HolderMoves
  <2> SUFFICES ASSUME TypeOK, LockInv, NEW r \in Active
               PROVE  \E h \in Active : Holds(h) /\ (h = r \/ h \in Before(lock, r))
    BY DEF HolderMoves
  <2>1. PICK j \in 1..Len(lock) : lock[j] = r
    BY DEF LockInv, Lists
  <2>2. Len(lock) \in Nat /\ 1 \in 1..Len(lock) /\ lock # <<>> /\ Head(lock) = lock[1]
    BY <2>1 DEF TypeOK
  <2>3. lock[1] \in Active /\ lock[1] \in Requests
    BY <2>2 DEF LockInv, Lists, Active
  <2>4. CASE j = 1
    BY <2>1, <2>2, <2>4 DEF Holds
  <2>5. CASE j # 1
    <3>1. lock[1] \in Before(lock, r)
      BY <2>1, <2>2, <2>3, <2>5 DEF Before
    <3> QED BY <2>2, <2>3, <3>1 DEF Holds
  <2> QED BY <2>4, <2>5
<1>2. IInv => HolderMoves
  BY <1>1 DEF IInv
<1> QED BY <1>2, Invariance, PTL

\* The queue that a resumed coroutine leaves puts nobody before another one.
LEMMA LeftBefore ==
  ASSUME TypeOK, NEW s, NEW q, From(s, q), NEW r
  PROVE  Before(q, r) \subseteq Before(lock, r)
<1>1. lock \in Seq(Requests)
  BY DEF TypeOK
<1>2. CASE q = lock
  BY <1>2
<1>3. CASE Holds(s) /\ q = Tail(lock)
  BY <1>1, <1>3, TailBefore DEF Holds
<1> QED BY <1>2, <1>3 DEF From

\* Its reply sets no other request back.
LEMMA ReplyKeepsOrder ==
  ASSUME TypeOK, NEW s \in Requests, NEW q, From(s, q), NEW res, NEW k, NEW t, NEW st,
         Reply(s, res, k, t, st, q), NEW r \in Requests
  PROVE  NotSetBack(r)
<1>1. r # s => force'[r] = force[r]
  BY DEF Reply, TypeOK
<1>2. pc'[s] = "idle" /\ lock' = q
  BY DEF Reply, TypeOK
<1> QED BY <1>1, <1>2, LeftBefore DEF NotSetBack

\* Its queueing sets back nobody but itself, for a forced refresh.
LEMMA JoinKeepsOrder ==
  ASSUME TypeOK, LockInv, NEW s \in Requests, NEW q, From(s, q), NEW f, NEW k, NEW st,
         JoinLock(s, f, k, st, q), pc[s] = "idle" \/ (f = TRUE /\ force[s] = FALSE),
         NEW r \in Requests
  PROVE  NotSetBack(r)
<1>1. lock' = Append(q, s) /\ force' = [force EXCEPT ![s] = f]
  BY DEF JoinLock
<1>2. CASE r = s
  BY <1>1, <1>2 DEF NotSetBack, TypeOK
<1>3. CASE r # s
  <2>1. force'[r] = force[r]
    BY <1>1, <1>3 DEF TypeOK
  <2>2. q \in Seq(Requests)
    BY QueueLeft
  <2>3. Before(lock', r) \subseteq Before(q, r)
    BY <1>1, <1>3, <2>2, AppendBefore
  <2>4. Before(q, r) \subseteq Before(lock, r)
    BY LeftBefore
  <2> QED BY <2>1, <2>3, <2>4 DEF NotSetBack
<1> QED BY <1>2, <1>3

\* A lookup queues only if it was not forced.
LEMMA LookupForces ==
  ASSUME NEW r, NEW k, NEW keys, NEW f, NEW t, NEW st, NEW q,
         Lookup(r, k, keys, f, t, st, q)
  PROVE  \/ \E res : Reply(r, res, k, t, st, q)
         \/ ~f /\ JoinLock(r, TRUE, k, st, q)
BY Zenon DEF Lookup

\* A request that stays suspended over a step of another one, or over its own, is not
\* set back, unless it begins its forced refresh.
THEOREM NobodyIsOvertaken == Spec => NoOvertaking
<1>1. ASSUME TypeOK, LockInv, Next, NEW r \in Requests PROVE NotSetBack(r)
  <2>1. ASSUME NEW s \in Requests, NEW k \in Kids \cup {NoKid}, Begin(s, k)
        PROVE  NotSetBack(r)
    <3>1. From(s, lock) /\ pc[s] = "idle"
      BY <2>1 DEF Begin, From
    <3>2. \/ \E res, t, st : Reply(s, res, k, t, st, lock)
          \/ \E f, st : JoinLock(s, f, k, st, lock)
      BY <2>1, LookupShape, Zenon DEF Begin
    <3> QED BY <1>1, <3>1, <3>2, ReplyKeepsOrder, JoinKeepsOrder
  <2>2. ASSUME NEW s \in Requests, RecheckHit(s) \/ Store(s) \/ FetchFails(s)
        PROVE  NotSetBack(r)
    <3>1. From(s, Tail(lock))
      BY <1>1, <2>2 DEF RecheckHit, Store, FetchFails, From, LockInv, InGet
    <3>2. \/ \E res : Reply(s, res, kid[s], now[s], steady[s], Tail(lock))
          \/ ~force[s] /\ JoinLock(s, TRUE, kid[s], steady[s], Tail(lock))
      <4>1. CASE RecheckHit(s)
        <5>1. /\ ~force[s]
              /\ Lookup(s, kid[s], cache, FALSE, now[s], steady[s], Tail(lock))
          BY <4>1 DEF RecheckHit
        <5> QED BY <5>1, LookupForces, Zenon
      <4>2. CASE Store(s)
        <5>1. Lookup(s, kid[s], payload[s], force[s], now[s], steady[s], Tail(lock))
          BY <4>2 DEF Store
        <5> QED BY <5>1, LookupForces, Zenon
      <4>3. CASE FetchFails(s)
        BY <4>3 DEF FetchFails
      <4> QED BY <2>2, <4>1, <4>2, <4>3
    <3>3. force[s] \in BOOLEAN
      BY <1>1 DEF TypeOK
    <3> QED BY <1>1, <3>1, <3>2, <3>3, ReplyKeepsOrder, JoinKeepsOrder
  <2>3. ASSUME UNCHANGED <<lock, force>> PROVE NotSetBack(r)
    BY <2>3 DEF NotSetBack
  <2>4. ASSUME NEW s \in Requests, SendGet(s) \/ Answer(s)
        PROVE  UNCHANGED <<lock, force>>
    BY <2>4 DEF SendGet, Answer
  <2>5. ASSUME Tick \/ \E ks \in SUBSET Kids : Rotate(ks)
        PROVE  UNCHANGED <<lock, force>>
    BY <2>5 DEF Tick, Rotate, callVars
  <2> QED BY <1>1, <2>1, <2>2, <2>3, <2>4, <2>5 DEF Next
<1>2. IInv /\ [Next]_vars => [\A r \in Requests : NotSetBack(r)]_vars
  BY <1>1 DEF IInv
<1> QED BY <1>2, Invariance, PTL DEF Spec, NoOvertaking
=============================================================================
