------------------------- MODULE RateLimiterProofs -------------------------
(***************************************************************************)
(* The fallback limiter of every process implements the sliding window,    *)
(* for every number of processes, clients and concurrent calls and every   *)
(* limit.  The deque is a suffix of the log of all allowed calls, and what *)
(* it forgot is at least Window old, so its length decides as the log does.*)
(***************************************************************************)
EXTENDS RateLimiter, FiniteSetTheorems, WellFoundedInduction, SequenceTheorems, TLAPS

\* A non-empty set of naturals has a least element.
LEMMA Least ==
  ASSUME NEW T, T \subseteq Nat, T # {}
  PROVE  \E x \in T : \A y \in T : x <= y
<1> DEFINE R == OpToRel(<, Nat)
<1>1. \E x \in T : \A y \in T : ~ (<<y, x>> \in R)
  BY NatLessThanWellFounded, WFMin, Zenon
<1>2. \A x, y \in Nat : y < x => <<y, x>> \in R
  BY Zenon DEF OpToRel
<1> HIDE DEF R
<1>3. PICK x \in T : \A y \in T : ~ (<<y, x>> \in R)
  BY <1>1
<1>4. \A y \in T : ~ (y < x)
  BY <1>2, <1>3, Zenon
<1> QED BY <1>4

\* The loop of _prune_key ends: it pops a prefix of hits that are at least
\* Window old, and stops at a younger one or at the end.
LEMMA ExpiredFacts ==
  ASSUME NEW q \in Seq(Nat), NEW t \in Nat
  PROVE  /\ Expired(q, t) \in 0..Len(q)
         /\ \A i \in 1..Expired(q, t) : q[i] <= t - Window
         /\ Expired(q, t) < Len(q) => q[Expired(q, t) + 1] > t - Window
<1> DEFINE Stop(n) == n < Len(q) => q[n + 1] > t - Window
           T == {n \in 0..Len(q) : Stop(n)}
<1>1. Len(q) \in T /\ T \subseteq Nat
  OBVIOUS
<1>2. PICK n \in T : \A m \in T : n <= m
  BY <1>1, Least
<1>3. ASSUME NEW i \in 1..n PROVE q[i] <= t - Window
  <2>1. i - 1 \in 0..Len(q) /\ i - 1 < n
    BY <1>2
  <2>2. i - 1 \notin T
    <3> HIDE DEF T
    <3> QED BY <1>1, <1>2, <2>1
  <2>3. ~ Stop(i - 1)
    BY <2>1, <2>2
  <2> QED BY <2>1, <2>3, WindowAssumption
<1>4. \E m \in 0..Len(q) : /\ \A i \in 1..m : q[i] <= t - Window
                           /\ m < Len(q) => q[m + 1] > t - Window
  BY <1>2, <1>3
<1> QED BY <1>4 DEF Expired

\* What _prune_key leaves: a suffix, without its expired prefix.
LEMMA PruneKeyFacts ==
  ASSUME NEW q \in Seq(Nat), NEW t \in Nat
  PROVE  /\ PruneKey(q, t) \in Seq(Nat)
         /\ Len(PruneKey(q, t)) = Len(q) - Expired(q, t)
         /\ \A i \in 1..Len(PruneKey(q, t)) :
              PruneKey(q, t)[i] = q[i + Expired(q, t)]
         /\ PruneKey(q, t) # <<>> => PruneKey(q, t)[1] > t - Window
<1> DEFINE n == Expired(q, t)
<1>1. /\ n \in 0..Len(q)
      /\ n < Len(q) => q[n + 1] > t - Window
  BY ExpiredFacts
<1> HIDE DEF n
<1>2. \A i \in (n + 1)..Len(q) : q[i] \in Nat
  BY <1>1
<1>3. /\ SubSeq(q, n + 1, Len(q)) \in Seq(Nat)
      /\ Len(SubSeq(q, n + 1, Len(q))) = Len(q) - n
      /\ \A i \in 1..(Len(q) - n) : SubSeq(q, n + 1, Len(q))[i] = q[i + n]
  <2>1. n + 1 \in Int /\ Len(q) \in Int
    BY <1>1
  <2>2. /\ SubSeq(q, n + 1, Len(q)) \in Seq(Nat)
        /\ Len(SubSeq(q, n + 1, Len(q))) =
             IF n + 1 <= Len(q) THEN Len(q) - (n + 1) + 1 ELSE 0
        /\ \A i \in 1..(Len(q) - (n + 1) + 1) :
             SubSeq(q, n + 1, Len(q))[i] = q[(n + 1) + i - 1]
    BY <1>2, <2>1, SubSeqProperties
  <2> QED BY <1>1, <2>1, <2>2
<1>4. PruneKey(q, t) = SubSeq(q, n + 1, Len(q))
  BY DEF PruneKey, n
<1>5. PruneKey(q, t) # <<>> => PruneKey(q, t)[1] > t - Window
  <2> SUFFICES ASSUME PruneKey(q, t) # <<>> PROVE PruneKey(q, t)[1] > t - Window
    OBVIOUS
  <2>1. Len(q) \in Nat /\ Len(q) - n >= 1
    BY <1>1, <1>3, <1>4
  <2>2. n < Len(q) /\ 1 \in 1..(Len(q) - n)
    BY <1>1, <2>1
  <2>3. PruneKey(q, t)[1] = q[1 + n]
    BY <1>3, <1>4, <2>2
  <2> QED BY <1>1, <2>2, <2>3
<1> QED BY <1>3, <1>4, <1>5 DEF n

-----------------------------------------------------------------------------

\* h is the suffix of the log l that is left when hits are forgotten, each of
\* them at least Window old at time t.
Remembers(h, l, t) ==
  /\ Len(h) <= Len(l)
  /\ \A i \in 1..Len(h) : h[i] = l[i + (Len(l) - Len(h))]
  /\ \A i \in 1..(Len(l) - Len(h)) : l[i] <= t - Window

Ordered(l) == \A i, j \in 1..Len(l) : i <= j => l[i] <= l[j]

LocalTypes ==
  /\ clock \in 0..MaxClock
  /\ hits \in [Keys -> Seq(Nat)]
  /\ lastCleanup \in [Gateways -> Nat]
  /\ localLog \in [Keys -> Seq(Nat)]
  /\ call \in [Calls -> {NoCall} \cup RunningCall]

LogInv ==
  \A k \in Keys :
    /\ Remembers(hits[k], localLog[k], clock)
    /\ Ordered(localLog[k])
    /\ \A i \in 1..Len(localLog[k]) : localLog[k][i] <= clock

SweepInv ==
  /\ \A g \in Gateways : lastCleanup[g] <= clock
  /\ IdleKeysForgotten

IInv == LocalTypes /\ LogInv /\ SweepInv /\ FallbackWindow

\* Pruning a remembering deque keeps it remembering.
LEMMA PruneRemembers ==
  ASSUME NEW h \in Seq(Nat), NEW l \in Seq(Nat), NEW t \in Nat,
         Remembers(h, l, t)
  PROVE  Remembers(PruneKey(h, t), l, t)
<1> DEFINE n == Expired(h, t)
           p == PruneKey(h, t)
<1>1. /\ n \in 0..Len(h)
      /\ \A i \in 1..n : h[i] <= t - Window
      /\ p \in Seq(Nat) /\ Len(p) = Len(h) - n
      /\ \A i \in 1..Len(p) : p[i] = h[i + n]
  BY ExpiredFacts, PruneKeyFacts
<1>2. Len(h) \in Nat /\ Len(l) \in Nat /\ Len(p) \in Nat /\ n \in Nat
  BY <1>1
<1> HIDE DEF n, p
<1>3. ASSUME NEW i \in 1..Len(p) PROVE p[i] = l[i + (Len(l) - Len(p))]
  <2>1. i + n \in 1..Len(h) /\ (i + n) + (Len(l) - Len(h)) = i + (Len(l) - Len(p))
    BY <1>1, <1>2
  <2> QED BY <1>1, <2>1 DEF Remembers
<1>4. ASSUME NEW i \in 1..(Len(l) - Len(p)) PROVE l[i] <= t - Window
  <2>1. CASE i <= Len(l) - Len(h)
    BY <1>2, <2>1 DEF Remembers
  <2>2. CASE i > Len(l) - Len(h)
    <3>1. i - (Len(l) - Len(h)) \in 1..n /\ i - (Len(l) - Len(h)) \in 1..Len(h)
      BY <1>1, <1>2, <2>2
    <3>2. h[i - (Len(l) - Len(h))] = l[i]
      BY <1>2, <3>1 DEF Remembers
    <3> QED BY <1>1, <3>1, <3>2
  <2> QED BY <1>2, <2>1, <2>2
<1> QED BY <1>1, <1>2, <1>3, <1>4 DEF Remembers, p

\* The length of a pruned deque decides as the log of all hits does.
LEMMA LengthDecides ==
  ASSUME NEW p \in Seq(Nat), NEW l \in Seq(Nat), NEW t \in Nat,
         Remembers(p, l, t), Ordered(l), p # <<>> => p[1] > t - Window
  PROVE  Len(p) < Max <=> (Len(l) >= Max => l[Len(l) - Max + 1] <= t - Window)
<1>1. Len(p) \in Nat /\ Len(l) \in Nat /\ Max \in Nat /\ Max >= 1 /\ Window \in Nat
      /\ Len(p) <= Len(l)
  BY MaxAssumption, WindowAssumption DEF Remembers
<1>2. ASSUME Len(p) < Max, Len(l) >= Max
      PROVE  l[Len(l) - Max + 1] <= t - Window
  <2>1. Len(l) - Max + 1 \in 1..(Len(l) - Len(p))
    BY <1>1, <1>2
  <2> QED BY <2>1 DEF Remembers
<1>3. ASSUME Len(p) >= Max
      PROVE  Len(l) >= Max /\ ~ (l[Len(l) - Max + 1] <= t - Window)
  <2>1. p # <<>> /\ 1 \in 1..Len(p)
    BY <1>1, <1>3
  <2> DEFINE a == 1 + (Len(l) - Len(p))
             b == Len(l) - Max + 1
  <2>2. l[a] > t - Window
    BY <2>1 DEF Remembers
  <2>3. a \in 1..Len(l) /\ b \in 1..Len(l) /\ a <= b /\ Len(l) >= Max
    BY <1>1, <1>3
  <2> HIDE DEF a, b
  <2>4. l[a] <= l[b] /\ l[a] \in Nat /\ l[b] \in Nat
    BY <2>3 DEF Ordered
  <2>5. ~ (l[b] <= t - Window)
    BY <1>1, <2>2, <2>4
  <2> QED BY <2>3, <2>5 DEF b
<1> QED BY <1>1, <1>2, <1>3

-----------------------------------------------------------------------------
(* One check of a fallback limiter. *)

\* The deques after a due sweep: they still remember, and the swept ones hold
\* young hits only.
LEMMA SweptFacts ==
  ASSUME LocalTypes, LogInv, SweepInv, NEW g \in Gateways
  PROVE  /\ Swept(g) \in [Keys -> Seq(Nat)]
         /\ \A k \in Keys :
              /\ Remembers(Swept(g)[k], localLog[k], clock)
              /\ k[1] # g => Swept(g)[k] = hits[k]
              /\ Swept(g)[k] # <<>> =>
                   Swept(g)[k][1] > (IF k[1] = g /\ SweepDue(g) THEN clock
                                     ELSE lastCleanup[k[1]]) - Window
<1>0. clock \in Nat
  BY ClockAssumption DEF LocalTypes
<1>1. ASSUME NEW k \in Keys
      PROVE  /\ hits[k] \in Seq(Nat) /\ localLog[k] \in Seq(Nat)
             /\ PruneKey(hits[k], clock) \in Seq(Nat)
             /\ PruneKey(hits[k], clock) # <<>> =>
                  PruneKey(hits[k], clock)[1] > clock - Window
             /\ Remembers(hits[k], localLog[k], clock)
             /\ Remembers(PruneKey(hits[k], clock), localLog[k], clock)
             /\ hits[k] # <<>> => hits[k][1] > lastCleanup[k[1]] - Window
  <2>1. hits[k] \in Seq(Nat) /\ localLog[k] \in Seq(Nat)
    BY DEF LocalTypes
  <2>2. Remembers(hits[k], localLog[k], clock)
    BY DEF LogInv
  <2>3. hits[k] # <<>> => hits[k][1] > lastCleanup[k[1]] - Window
    BY <2>1 DEF SweepInv, IdleKeysForgotten
  <2> QED BY <1>0, <2>1, <2>2, <2>3, PruneKeyFacts, PruneRemembers
<1>2. Swept(g) \in [Keys -> Seq(Nat)]
  BY <1>1 DEF Swept
<1>3. \A k \in Keys : Swept(g)[k] = IF k[1] = g /\ SweepDue(g)
                                  THEN PruneKey(hits[k], clock) ELSE hits[k]
  BY DEF Swept
<1> QED BY <1>1, <1>2, <1>3

\* A check of a fallback limiter keeps the invariant and is a step of the
\* sliding window.
LEMMA LocalStep ==
  ASSUME IInv, NEW g \in Gateways, NEW c \in Clients, LocalAllow(g, c),
         clock' = clock, call' \in [Calls -> {NoCall} \cup RunningCall]
  PROVE  IInv' /\ Fallback!Next
<1> DEFINE k == <<g, c>>
           h == Swept(g)
           q == PruneKey(h[k], clock)
           l == localLog[k]
           ok == Len(q) < Max
<1>1. k \in Keys /\ k[1] = g
  BY DEF Keys
<1>2. clock \in Nat /\ Window \in Nat /\ Window >= 1 /\ Max \in Nat /\ Max >= 1
  BY ClockAssumption, WindowAssumption, MaxAssumption DEF IInv, LocalTypes
<1>3. /\ h \in [Keys -> Seq(Nat)]
      /\ \A kk \in Keys :
           /\ Remembers(h[kk], localLog[kk], clock)
           /\ kk[1] # g => h[kk] = hits[kk]
           /\ h[kk] # <<>> =>
                h[kk][1] > (IF kk[1] = g /\ SweepDue(g) THEN clock
                            ELSE lastCleanup[kk[1]]) - Window
  BY SweptFacts DEF IInv
<1>4. /\ lastCleanup' = [lastCleanup EXCEPT ![g] = IF SweepDue(g) THEN clock ELSE @]
      /\ hits' = [h EXCEPT ![k] = IF ok THEN Append(q, clock) ELSE q]
      /\ localLog' = [localLog EXCEPT ![k] = IF ok THEN Append(@, clock) ELSE @]
      /\ localVerdict' = <<k, ok>>
  BY DEF LocalAllow
<1> HIDE DEF h, k
<1>5. h[k] \in Seq(Nat) /\ l \in Seq(Nat) /\ Remembers(h[k], l, clock)
      /\ Ordered(l) /\ \A i \in 1..Len(l) : l[i] <= clock
  BY <1>1, <1>3 DEF IInv, LocalTypes, LogInv
<1>6. /\ q \in Seq(Nat) /\ Remembers(q, l, clock)
      /\ q # <<>> => q[1] > clock - Window
  BY <1>2, <1>5, PruneKeyFacts, PruneRemembers
<1> HIDE DEF q, l
<1>7. ok <=> Fallback!Free(k)
  BY <1>2, <1>5, <1>6, LengthDecides DEF Fallback!Free, l
<1> DEFINE hk == IF ok THEN Append(q, clock) ELSE q
           lk == IF ok THEN Append(l, clock) ELSE l
<1>8. /\ hits'[k] = hk /\ localLog'[k] = lk
      /\ \A kk \in Keys \ {k} : hits'[kk] = h[kk] /\ localLog'[kk] = localLog[kk]
  BY <1>1, <1>3, <1>4 DEF l, IInv, LocalTypes
<1>9. /\ hk \in Seq(Nat) /\ lk \in Seq(Nat)
      /\ Remembers(hk, lk, clock) /\ Ordered(lk)
      /\ \A i \in 1..Len(lk) : lk[i] <= clock
  <2>1. CASE ~ ok
    BY <1>5, <1>6, <2>1
  <2>2. CASE ok
    <3>1. /\ Len(q) \in Nat /\ Len(l) \in Nat
          /\ hk = Append(q, clock) /\ lk = Append(l, clock)
          /\ hk \in Seq(Nat) /\ lk \in Seq(Nat)
          /\ Len(hk) = Len(q) + 1 /\ Len(lk) = Len(l) + 1
          /\ hk[Len(q) + 1] = clock /\ lk[Len(l) + 1] = clock
          /\ \A i \in 1..Len(q) : hk[i] = q[i]
          /\ \A i \in 1..Len(l) : lk[i] = l[i]
          /\ \A i \in 1..Len(l) : l[i] \in Nat
      BY <1>2, <1>5, <1>6, <2>2
    <3> HIDE DEF hk, lk
    <3>2. ASSUME NEW i \in 1..Len(hk)
          PROVE  hk[i] = lk[i + (Len(lk) - Len(hk))]
      <4>1. CASE i = Len(q) + 1
        BY <3>1, <4>1
      <4>2. CASE i \in 1..Len(q)
        <5>1. i + (Len(lk) - Len(hk)) = i + (Len(l) - Len(q))
              /\ i + (Len(l) - Len(q)) \in 1..Len(l)
          BY <1>6, <3>1, <4>2 DEF Remembers
        <5> QED BY <1>6, <3>1, <4>2, <5>1 DEF Remembers
      <4>3. i = Len(q) + 1 \/ i \in 1..Len(q)
        BY <3>1
      <4> QED BY <4>1, <4>2, <4>3
    <3>3. \A i \in 1..(Len(lk) - Len(hk)) : lk[i] <= clock - Window
      BY <1>6, <3>1 DEF Remembers
    <3>4. Remembers(hk, lk, clock)
      <4>1. Len(hk) <= Len(lk)
        BY <1>6, <3>1 DEF Remembers
      <4> QED BY <3>2, <3>3, <4>1 DEF Remembers
    <3>5. \A i \in 1..Len(lk) : lk[i] <= clock /\ (i \in 1..Len(l) \/ i = Len(l) + 1)
      BY <1>2, <1>5, <3>1
    <3>6. Ordered(lk)
      BY <1>2, <1>5, <3>1, <3>5 DEF Ordered
    <3> QED BY <3>1, <3>4, <3>5, <3>6
  <2> QED BY <2>1, <2>2
<1>10. hk # <<>> => hk[1] > clock - Window
  <2>1. CASE q = <<>> /\ ok
    <3>1. hk[1] = clock
      BY <2>1
    <3> QED BY <1>2, <3>1
  <2>2. CASE q # <<>>
    <3>1. hk[1] = q[1]
      BY <1>2, <1>6, <2>2
    <3> QED BY <1>6, <2>2, <3>1
  <2> QED BY <2>1, <2>2
<1>11. LocalTypes'
  <2>1. hits' \in [Keys -> Seq(Nat)]
    BY <1>1, <1>3, <1>4, <1>9
  <2>2. localLog' \in [Keys -> Seq(Nat)]
    BY <1>1, <1>4, <1>9 DEF IInv, LocalTypes, l
  <2>3. lastCleanup' \in [Gateways -> Nat]
    BY <1>2, <1>4 DEF IInv, LocalTypes
  <2> QED BY <2>1, <2>2, <2>3 DEF IInv, LocalTypes
<1>12. LogInv'
  <2> SUFFICES ASSUME NEW kk \in Keys
               PROVE  /\ Remembers(hits'[kk], localLog'[kk], clock)
                      /\ Ordered(localLog'[kk])
                      /\ \A i \in 1..Len(localLog'[kk]) : localLog'[kk][i] <= clock
    BY DEF LogInv, Remembers, Ordered, Keys
  <2>1. CASE kk = k
    <3> HIDE DEF hk, lk
    <3> QED BY <1>8, <1>9, <2>1
  <2>2. CASE kk # k
    BY <1>3, <1>8, <2>2 DEF IInv, LogInv
  <2> QED BY <2>1, <2>2
<1>13. SweepInv'
  <2>1. \A gg \in Gateways : lastCleanup'[gg] \in Nat /\ lastCleanup'[gg] <= clock
    BY <1>2, <1>4 DEF IInv, LocalTypes, SweepInv
  <2>2. ASSUME NEW kk \in Keys, hits'[kk] # <<>>
        PROVE  hits'[kk][1] > lastCleanup'[kk[1]] - Window
    <3>0. kk[1] \in Gateways
      BY DEF Keys
    <3>1. CASE kk = k
      <4>1. hk # <<>> /\ hits'[kk][1] = hk[1]
        BY <1>8, <2>2, <3>1
      <4> HIDE DEF hk
      <4>2. hk[1] > clock - Window
        BY <1>10, <4>1
      <4>3. hk[1] \in Nat
        BY <1>9, <4>1
      <4> QED BY <1>2, <2>1, <3>0, <4>1, <4>2, <4>3
    <3>2. CASE kk # k
      <4>1. h[kk] # <<>> /\ hits'[kk][1] = h[kk][1]
        BY <1>8, <2>2, <3>2
      <4>2. lastCleanup'[kk[1]] = IF kk[1] = g /\ SweepDue(g) THEN clock
                                  ELSE lastCleanup[kk[1]]
        BY <1>4, <3>0 DEF IInv, LocalTypes
      <4> QED BY <1>3, <4>1, <4>2
    <3> QED BY <3>1, <3>2
  <2>3. \A kk \in Keys : hits'[kk] # <<>> => Head(hits'[kk]) = hits'[kk][1]
    BY <1>11 DEF LocalTypes
  <2> QED BY <2>1, <2>2, <2>3 DEF SweepInv, IdleKeysForgotten, Keys
<1>14. ASSUME NEW i \in 1..(Len(lk) - Max)
       PROVE  lk[i + Max] - lk[i] >= Window
  <2>0. \A j \in 1..(Len(l) - Max) : l[j + Max] - l[j] >= Window
    BY <1>1 DEF IInv, FallbackWindow, Fallback!WindowBound, l
  <2>1. CASE ~ ok
    BY <2>0, <2>1
  <2>2. CASE ok
    <3>1. /\ Len(l) \in Nat /\ lk = Append(l, clock) /\ Len(lk) = Len(l) + 1
          /\ lk[Len(l) + 1] = clock
          /\ \A j \in 1..Len(l) : lk[j] = l[j] /\ l[j] \in Nat
      BY <1>2, <1>5, <2>2
    <3>2. i \in 1..(Len(l) + 1 - Max)
      <4> HIDE DEF lk
      <4> QED BY <1>2, <3>1
    <3> HIDE DEF lk
    <3>3. CASE i + Max = Len(l) + 1
      <4>1. i = Len(l) - Max + 1 /\ i \in 1..Len(l) /\ Len(l) >= Max
        BY <1>2, <3>1, <3>2, <3>3
      <4>2. l[i] <= clock - Window
        BY <1>7, <2>2, <4>1 DEF Fallback!Free, l
      <4> QED BY <1>2, <3>1, <3>3, <4>1, <4>2
    <3>4. CASE i + Max # Len(l) + 1
      <4>1. i \in 1..(Len(l) - Max) /\ i \in 1..Len(l) /\ i + Max \in 1..Len(l)
        BY <1>2, <3>1, <3>2, <3>4
      <4> QED BY <2>0, <3>1, <4>1
    <3> QED BY <3>3, <3>4
  <2> QED BY <2>1, <2>2
<1>15. FallbackWindow'
  <2> HIDE DEF lk
  <2> SUFFICES ASSUME NEW kk \in Keys
               PROVE  \A i \in 1..(Len(localLog'[kk]) - Max) :
                        localLog'[kk][i + Max] - localLog'[kk][i] >= Window
    BY DEF FallbackWindow, Fallback!WindowBound, Keys
  <2>1. CASE kk = k
    BY <1>8, <1>14, <2>1
  <2>2. CASE kk # k
    BY <1>8, <2>2 DEF IInv, FallbackWindow, Fallback!WindowBound
  <2> QED BY <2>1, <2>2
<1>16. Fallback!Next
  <2>1. CASE ok
    <3>1. Fallback!Allow(k)
      BY <1>4, <1>7, <2>1 DEF Fallback!Allow
    <3> QED BY <1>1, <3>1 DEF Fallback!Next
  <2>2. CASE ~ ok
    <3>1. localLog' = localLog
      BY <1>1, <1>4, <2>2 DEF IInv, LocalTypes
    <3>2. ok = FALSE
      BY <2>2
    <3>3. localVerdict' = <<k, FALSE>>
      BY <1>4, <3>2
    <3>4. ~ Fallback!Free(k)
      BY <1>7, <2>2
    <3>5. Fallback!Reject(k)
      BY <3>1, <3>3, <3>4 DEF Fallback!Reject
    <3> QED BY <1>1, <3>5 DEF Fallback!Next
  <2> QED BY <2>1, <2>2
<1> QED BY <1>11, <1>12, <1>13, <1>15, <1>16 DEF IInv

-----------------------------------------------------------------------------
(* The invariant and the theorems. *)

LEMMA InitInv == Init => IInv
<1> SUFFICES ASSUME Init PROVE IInv
  OBVIOUS
<1>1. LocalTypes
  BY ClockAssumption DEF Init, LocalTypes
<1>2. \A k \in Keys : hits[k] = <<>> /\ localLog[k] = <<>>
  BY DEF Init
<1>3. LogInv
  <2>1. Len(<<>>) = 0 /\ 1..0 = {} /\ 0 - 0 = 0
    OBVIOUS
  <2>2. Remembers(<<>>, <<>>, clock) /\ Ordered(<<>>)
    BY <2>1 DEF Remembers, Ordered
  <2> QED BY <1>2, <2>1, <2>2 DEF LogInv
<1>4. SweepInv
  BY <1>2 DEF Init, SweepInv, IdleKeysForgotten, Keys
<1>5. FallbackWindow
  BY <1>2, MaxAssumption DEF FallbackWindow, Fallback!WindowBound
<1> QED BY <1>1, <1>3, <1>4, <1>5 DEF IInv

\* What keeps the fallback limiters' variables and the clock keeps the invariant.
LEMMA OtherStep ==
  ASSUME IInv, UNCHANGED <<clock, fallbackVars>>,
         call' \in [Calls -> {NoCall} \cup RunningCall]
  PROVE  IInv' /\ UNCHANGED Fallback!vars
<1>1. UNCHANGED <<clock, hits, lastCleanup, localLog, localVerdict>>
  BY DEF fallbackVars
<1>2. LocalTypes'
  BY <1>1 DEF IInv, LocalTypes
<1>3. LogInv'
  BY <1>1 DEF IInv, LogInv, Remembers, Ordered
<1>4. SweepInv'
  BY <1>1 DEF IInv, SweepInv, IdleKeysForgotten
<1>5. FallbackWindow'
  BY <1>1 DEF IInv, FallbackWindow, Fallback!WindowBound
<1> QED BY <1>1, <1>2, <1>3, <1>4, <1>5 DEF IInv, Fallback!vars

\* Every action keeps the invariant and is a step of the sliding window, or
\* does not touch it.
LEMMA Step ==
  ASSUME IInv, [Next]_vars
  PROVE  IInv' /\ [Fallback!Next]_(Fallback!vars)
<1>0. /\ clock \in 0..MaxClock /\ MaxClock \in Nat
      /\ call \in [Calls -> {NoCall} \cup RunningCall]
  BY ClockAssumption DEF IInv, LocalTypes
<1>1. ASSUME NEW g \in Gateways, NEW c \in Clients, CheckLocal(g, c)
      PROVE  IInv' /\ Fallback!Next
  BY <1>0, <1>1, LocalStep DEF CheckLocal
<1>2. ASSUME NEW k \in Calls, NEW g \in Gateways, NEW c \in Clients, Send(k, g, c)
      PROVE  IInv' /\ UNCHANGED Fallback!vars
  <2>1. [state |-> "sent", gateway |-> g, client |-> c,
         stamp |-> clock, allowed |-> FALSE] \in RunningCall
    BY <1>0 DEF RunningCall
  <2>2. call' \in [Calls -> {NoCall} \cup RunningCall]
    BY <1>0, <1>2, <2>1 DEF Send
  <2> QED BY <1>2, <2>2, OtherStep DEF Send
<1>3. ASSUME NEW k \in Calls, RunScript(k)
      PROVE  IInv' /\ UNCHANGED Fallback!vars
  <2> DEFINE ok == Cardinality(Kept(call[k].client, call[k].stamp)) < Max
  <2>1. call' = [call EXCEPT ![k] =
                   IF @.state = "late" THEN NoCall
                   ELSE [@ EXCEPT !.state = "ran", !.allowed = ok]]
    BY <1>3 DEF RunScript
  <2>2. ok \in BOOLEAN
    OBVIOUS
  <2> HIDE DEF ok
  <2>3. PICK b \in BOOLEAN : b = ok
    BY <2>2, Zenon
  <2>4. call' = [call EXCEPT ![k] =
                   IF @.state = "late" THEN NoCall
                   ELSE [@ EXCEPT !.state = "ran", !.allowed = b]]
    BY <2>1, <2>3, Zenon
  <2>5. call[k] \in RunningCall
    BY <1>0, <1>3 DEF RunScript
  <2>6. [call[k] EXCEPT !.state = "ran", !.allowed = b] \in RunningCall
    BY <2>5 DEF RunningCall
  <2>7. call' \in [Calls -> {NoCall} \cup RunningCall]
    BY <1>0, <2>4, <2>6
  <2> QED BY <1>3, <2>7, OtherStep DEF RunScript
<1>4. ASSUME NEW k \in Calls, Return(k)
      PROVE  IInv' /\ UNCHANGED Fallback!vars
  <2>1. call' \in [Calls -> {NoCall} \cup RunningCall]
    BY <1>0, <1>4 DEF Return
  <2> QED BY <1>4, <2>1, OtherStep DEF Return
<1>5. ASSUME NEW k \in Calls, FallBack(k)
      PROVE  IInv' /\ Fallback!Next
  <2>1. call[k] \in RunningCall
    BY <1>0, <1>5 DEF FallBack
  <2>2. call[k].gateway \in Gateways /\ call[k].client \in Clients
        /\ [call[k] EXCEPT !.state = "late"] \in RunningCall
    BY <2>1 DEF RunningCall
  <2>3. call' \in [Calls -> {NoCall} \cup RunningCall]
    BY <1>0, <1>5, <2>2 DEF FallBack
  <2> QED BY <1>5, <2>2, <2>3, LocalStep DEF FallBack
<1>6. ASSUME Tick
      PROVE  IInv' /\ Fallback!Tick
  <2>1. /\ clock' = clock + 1 /\ clock < MaxClock
        /\ UNCHANGED <<hits, lastCleanup, localLog, localVerdict, call>>
    BY <1>6 DEF Tick, fallbackVars
  <2>2. LocalTypes'
    BY <1>0, <2>1 DEF IInv, LocalTypes
  <2>3. LogInv'
    <3> SUFFICES ASSUME NEW k \in Keys
                 PROVE  /\ Remembers(hits[k], localLog[k], clock')
                        /\ Ordered(localLog[k])
                        /\ \A i \in 1..Len(localLog[k]) : localLog[k][i] <= clock'
      BY <2>1 DEF LogInv, Remembers, Ordered, Keys
    <3>1. /\ Remembers(hits[k], localLog[k], clock) /\ Ordered(localLog[k])
          /\ \A i \in 1..Len(localLog[k]) : localLog[k][i] <= clock
          /\ hits[k] \in Seq(Nat) /\ localLog[k] \in Seq(Nat)
      BY DEF IInv, LogInv, LocalTypes
    <3>2. \A i \in 1..Len(localLog[k]) : localLog[k][i] \in Nat
      BY <3>1
    <3>3. \A i \in 1..Len(localLog[k]) : localLog[k][i] <= clock'
      BY <1>0, <2>1, <3>1, <3>2
    <3>4. ASSUME NEW i \in 1..(Len(localLog[k]) - Len(hits[k]))
          PROVE  localLog[k][i] <= clock' - Window
      <4>1. Len(hits[k]) \in Nat /\ Len(localLog[k]) \in Nat
        BY <3>1
      <4>2. i \in 1..Len(localLog[k])
        BY <4>1
      <4>3. localLog[k][i] <= clock - Window
        BY <3>1 DEF Remembers
      <4> QED BY <1>0, <2>1, <3>2, <4>2, <4>3, WindowAssumption
    <3> QED BY <3>1, <3>3, <3>4 DEF Remembers
  <2>4. SweepInv'
    <3>1. \A g \in Gateways : lastCleanup[g] <= clock + 1
      BY <1>0 DEF IInv, LocalTypes, SweepInv
    <3> QED BY <2>1, <3>1 DEF IInv, SweepInv, IdleKeysForgotten
  <2>5. FallbackWindow'
    BY <2>1 DEF IInv, FallbackWindow, Fallback!WindowBound
  <2>6. Fallback!Tick
    BY <2>1 DEF Fallback!Tick
  <2> QED BY <2>2, <2>3, <2>4, <2>5, <2>6 DEF IInv
<1>7. ASSUME UNCHANGED vars
      PROVE  IInv' /\ UNCHANGED Fallback!vars
  BY <1>0, <1>7, OtherStep DEF vars
<1> QED
  <2>1. CASE Next
    BY <1>1, <1>2, <1>3, <1>4, <1>5, <1>6, <2>1 DEF Next, Fallback!Next
  <2> QED BY <1>7, <2>1

\* Every deque is the part of its log that can still matter, and no log has too
\* many hits in a window: the invariant from which the rest follows.
THEOREM Invariance == Spec => []IInv
<1>1. IInv /\ [Next]_vars => IInv'
  BY Step
<1> QED BY InitInv, <1>1, PTL DEF Spec

\* The fallback of ratelimit.py, which forgets hits and sweeps only now and
\* then, implements the limiter that remembers every allowed call.
THEOREM FallbackIsSlidingWindow == Spec => FallbackImplementsWindow
<1>1. Init => Fallback!Init
  <2> SUFFICES ASSUME Init PROVE Fallback!Init
    OBVIOUS
  <2> QED BY DEF Init, Fallback!Init
<1>2. IInv /\ [Next]_vars => [Fallback!Next]_(Fallback!vars)
  BY Step
<1> QED BY <1>1, <1>2, Invariance, PTL DEF Spec, FallbackImplementsWindow, Fallback!Spec

\* _LocalSlidingWindow never allows Max + 1 calls of a client within Window.
THEOREM FallbackKeepsTheLimit == Spec => []FallbackWindow
<1>1. IInv => FallbackWindow
  BY DEF IInv
<1> QED BY <1>1, Invariance, PTL

\* The sweep leaves no client whose hits were all too old: the dictionary of
\* deques does not grow with the clients of the past.
THEOREM FallbackForgetsIdleClients == Spec => []IdleKeysForgotten
<1>1. IInv => IdleKeysForgotten
  BY DEF IInv, SweepInv
<1> QED BY <1>1, Invariance, PTL

-----------------------------------------------------------------------------
(* The limit on Redis's answers.  Scripts run with stamps out of order, so the       *)
(* argument counts: every call that was allowed on a stamp younger than Window has a *)
(* member of its own in the sorted set, which never holds more than Max.             *)

RedisTypes ==
  /\ redisUrl \in RedisUrls
  /\ zset \in [Clients -> SUBSET Members]
  /\ expireAt \in [Clients -> Nat]
  /\ redisLog \in [Clients -> Seq(Nat)]
  /\ localVerdict \in {<<>>} \cup (Keys \X BOOLEAN)

\* No stamp is of the future, and a caller waits for at most Delay.
StampInv ==
  \A k \in Calls : call[k] # NoCall =>
    /\ call[k].stamp <= clock
    /\ call[k].state # "late" => clock <= call[k].stamp + Delay

\* The set is never over-full, and Redis drops it only when all of it is too old.
SetInv ==
  \A c \in Clients :
    /\ Cardinality(zset[c]) <= Max
    /\ \A m \in zset[c] : m[1] <= clock /\ m[1] + Window <= expireAt[c]

AnswerInv ==
  \A c \in Clients :
    /\ Ordered(redisLog[c])
    /\ \A i \in 1..Len(redisLog[c]) : redisLog[c][i] <= clock

\* What is younger than T: members, allowed calls that wait for their answer, and
\* answers that can only belong to stamps younger than T.
Young(c, T) == {m \in zset[c] : m[1] > T}
Ran(c, T) == {k \in Calls : /\ call[k] # NoCall /\ call[k].state = "ran"
                            /\ call[k].allowed = TRUE
                            /\ call[k].client = c /\ call[k].stamp > T}
Answered(c, T) == {i \in 1..Len(redisLog[c]) : redisLog[c][i] > T + Delay}

CountInv ==
  \A c \in Clients : \A T \in (clock - Window)..MaxClock :
    /\ IsFiniteSet(Ran(c, T))
    /\ Cardinality(Answered(c, T)) + Cardinality(Ran(c, T)) <= Cardinality(Young(c, T))

RInv == RedisTypes /\ StampInv /\ SetInv /\ AnswerInv /\ CountInv /\ RedisWindow

LEMMA MembersFinite ==
  /\ IsFiniteSet(Members)
  /\ \A t : /\ IsFiniteSet({t} \X (0..(Max - 1)))
            /\ Cardinality({t} \X (0..(Max - 1))) = Max
<1>1. IsFiniteSet(0..MaxClock) /\ IsFiniteSet(0..(Max - 1)) /\ Cardinality(0..(Max - 1)) = Max
  BY FS_Interval, MaxAssumption, ClockAssumption
<1>2. IsFiniteSet(Members)
  BY <1>1, FS_Product DEF Members
<1>3. ASSUME NEW t
      PROVE  /\ IsFiniteSet({t} \X (0..(Max - 1)))
             /\ Cardinality({t} \X (0..(Max - 1))) = Max
  <2>1. IsFiniteSet({t}) /\ Cardinality({t}) = 1
    BY FS_Singleton
  <2>2. Cardinality({t} \X (0..(Max - 1))) = 1 * Max
    BY <1>1, <2>1, FS_Product
  <2>3. IsFiniteSet({t} \X (0..(Max - 1)))
    BY <1>1, <2>1, FS_Product
  <2>4. 1 * Max = Max
    BY MaxAssumption
  <2> QED BY <2>2, <2>3, <2>4
<1> QED BY <1>2, <1>3

\* A set that is not full leaves a member of every score to make.
LEMMA NewMemberFacts ==
  ASSUME NEW set \in SUBSET Members, NEW t \in 0..MaxClock, Cardinality(set) < Max
  PROVE  /\ NewMember(set, t) \in Members /\ NewMember(set, t) \notin set
         /\ NewMember(set, t)[1] = t
<1> DEFINE all == {t} \X (0..(Max - 1))
<1>1. IsFiniteSet(set) /\ Cardinality(set) \in Nat
  BY MembersFinite, FS_Subset, FS_CardinalityType
<1>2. \E m \in all : m \notin set
  <2> SUFFICES ASSUME all \subseteq set PROVE FALSE
    OBVIOUS
  <2>1. Cardinality(all) <= Cardinality(set) /\ Cardinality(all) = Max
    BY <1>1, FS_Subset, MembersFinite
  <2> HIDE DEF all
  <2> QED BY <1>1, <2>1, MaxAssumption
<1>3. NewMember(set, t) \in all /\ NewMember(set, t) \notin set
  BY <1>2 DEF NewMember
<1> QED BY <1>3 DEF Members

\* The sets that are counted are finite.
LEMMA CountedFinite ==
  ASSUME NEW c \in Clients, NEW T \in Int, RedisTypes
  PROVE  /\ IsFiniteSet(zset[c]) /\ Cardinality(zset[c]) \in Nat
         /\ IsFiniteSet(Young(c, T)) /\ Cardinality(Young(c, T)) \in Nat
         /\ Cardinality(Young(c, T)) <= Cardinality(zset[c])
         /\ IsFiniteSet(Answered(c, T)) /\ Cardinality(Answered(c, T)) \in Nat
<1>1. IsFiniteSet(zset[c]) /\ Young(c, T) \in SUBSET zset[c]
  BY MembersFinite, FS_Subset DEF RedisTypes, Young
<1>2. redisLog[c] \in Seq(Nat) /\ Len(redisLog[c]) \in Nat
  BY DEF RedisTypes
<1>3. IsFiniteSet(1..Len(redisLog[c])) /\ Answered(c, T) \in SUBSET (1..Len(redisLog[c]))
  BY <1>2, FS_Interval DEF Answered
<1>4. IsFiniteSet(Young(c, T)) /\ Cardinality(Young(c, T)) <= Cardinality(zset[c])
      /\ IsFiniteSet(Answered(c, T))
  BY <1>1, <1>3, FS_Subset
<1> QED BY <1>1, <1>4, FS_CardinalityType

LEMMA RInitInv == Init => RInv
<1> SUFFICES ASSUME Init PROVE RInv
  OBVIOUS
<1>1. RedisTypes
  BY DEF Init, RedisTypes
<1>2. StampInv
  BY DEF Init, StampInv
<1>3. SetInv
  BY FS_EmptySet, MaxAssumption DEF Init, SetInv
<1>4. \A c \in Clients : redisLog[c] = <<>> /\ Len(redisLog[c]) = 0
  BY DEF Init
<1>5. AnswerInv /\ RedisWindow
  BY <1>4, MaxAssumption DEF AnswerInv, RedisWindow, Ordered
<1>6. CountInv
  <2>1. \A c \in Clients : \A T : Ran(c, T) = {} /\ Young(c, T) = {} /\ Answered(c, T) = {}
    BY <1>4 DEF Init, Ran, Young, Answered
  <2> QED BY <2>1, FS_EmptySet DEF CountInv
<1> QED BY <1>1, <1>2, <1>3, <1>5, <1>6 DEF RInv

\* A call that is sent or given up, and the fallback's own work.
LEMMA GatewayStep ==
  ASSUME IInv, RInv, UNCHANGED <<clock, redisUrl, redisVars, redisLog>>,
         localVerdict' \in {<<>>} \cup (Keys \X BOOLEAN), StampInv',
         \A k \in Calls : (call'[k] # NoCall /\ call'[k].state = "ran") => call'[k] = call[k]
  PROVE  RInv'
<1>1. redisUrl' = redisUrl /\ zset' = zset /\ expireAt' = expireAt /\ redisLog' = redisLog
      /\ clock' = clock
  BY DEF redisVars
<1>2. RedisTypes' /\ SetInv' /\ AnswerInv' /\ RedisWindow'
  BY <1>1 DEF RInv, RedisTypes, SetInv, AnswerInv, RedisWindow, Ordered
<1>3. ASSUME NEW c \in Clients, NEW T \in (clock - Window)..MaxClock
      PROVE  /\ IsFiniteSet(Ran(c, T)')
             /\ Cardinality(Answered(c, T)') + Cardinality(Ran(c, T)')
                  <= Cardinality(Young(c, T)')
  <2>1. Answered(c, T)' = Answered(c, T) /\ Young(c, T)' = Young(c, T)
    BY <1>1 DEF Answered, Young
  <2>2. Ran(c, T)' \in SUBSET Ran(c, T)
    BY DEF Ran
  <2>3. /\ IsFiniteSet(Ran(c, T))
        /\ Cardinality(Answered(c, T)) + Cardinality(Ran(c, T)) <= Cardinality(Young(c, T))
    BY <1>3 DEF RInv, CountInv
  <2>4. IsFiniteSet(Ran(c, T)') /\ Cardinality(Ran(c, T)') <= Cardinality(Ran(c, T))
    BY <2>2, <2>3, FS_Subset
  <2>5. Cardinality(Ran(c, T)') \in Nat /\ Cardinality(Ran(c, T)) \in Nat
    BY <2>3, <2>4, FS_CardinalityType
  <2>6. T \in Int /\ Cardinality(Answered(c, T)) \in Nat /\ Cardinality(Young(c, T)) \in Nat
    <3>1. clock \in Int /\ Window \in Int /\ MaxClock \in Int
      BY ClockAssumption, WindowAssumption DEF IInv, LocalTypes
    <3>2. T \in Int
      BY <3>1
    <3> QED BY <3>2, CountedFinite DEF RInv
  <2> QED BY <2>1, <2>3, <2>4, <2>5, <2>6
<1>4. CountInv'
  BY <1>1, <1>3 DEF CountInv
<1> QED BY <1>2, <1>4 DEF RInv

\* The script keeps what is young, and a member more is a call more at most.
LEMMA ScriptStep ==
  ASSUME IInv, RInv, NEW k \in Calls, RunScript(k)
  PROVE  RInv'
<1> DEFINE c == call[k].client
           t == call[k].stamp
           kept == Kept(c, t)
           ok == Cardinality(kept) < Max
           new == NewMember(kept, t)
<1>1. /\ clock \in Nat /\ clock <= MaxClock /\ Window \in Nat /\ Window >= 1
      /\ MaxClock \in Nat /\ Max \in Nat
  BY ClockAssumption, WindowAssumption, MaxAssumption DEF IInv, LocalTypes
<1>2. /\ call[k] \in RunningCall /\ c \in Clients /\ t \in 0..MaxClock /\ t <= clock
      /\ call[k] # NoCall /\ call[k].state \in {"sent", "late"}
      /\ call[k].state # "late" => clock <= t + Delay
  BY DEF RunScript, IInv, LocalTypes, RInv, StampInv, RunningCall
<1>3. /\ zset' = [zset EXCEPT ![c] = IF ok THEN kept \cup {new} ELSE kept]
      /\ expireAt' = [expireAt EXCEPT ![c] = IF ok THEN clock + Window ELSE @]
      /\ call' = [call EXCEPT ![k] = IF @.state = "late" THEN NoCall
                                     ELSE [@ EXCEPT !.state = "ran", !.allowed = ok]]
      /\ clock' = clock /\ redisUrl' = redisUrl /\ localVerdict' = localVerdict
      /\ redisLog' = redisLog
  BY DEF RunScript, fallbackVars
<1>4. /\ kept \in SUBSET zset[c] /\ kept \in SUBSET Members /\ zset[c] \in SUBSET Members
      /\ IsFiniteSet(kept) /\ Cardinality(kept) \in Nat
      /\ Cardinality(kept) <= Cardinality(zset[c])
  <2>1. kept \in SUBSET zset[c] /\ zset[c] \in SUBSET Members
    BY <1>2 DEF Kept, RInv, RedisTypes
  <2>2. IsFiniteSet(zset[c])
    BY <2>1, MembersFinite, FS_Subset
  <2> HIDE DEF kept
  <2>3. IsFiniteSet(kept) /\ Cardinality(kept) <= Cardinality(zset[c])
    BY <2>1, <2>2, FS_Subset
  <2> QED BY <2>1, <2>3, FS_CardinalityType
<1>5. ASSUME ok
      PROVE  /\ new \in Members /\ new \notin kept /\ new[1] = t
             /\ Cardinality(kept \cup {new}) = Cardinality(kept) + 1
             /\ Cardinality(kept \cup {new}) <= Max
  <2> HIDE DEF kept, t
  <2>1. new \in Members /\ new \notin kept /\ new[1] = t
    BY <1>2, <1>4, <1>5, NewMemberFacts
  <2>2. Cardinality(kept \cup {new}) = Cardinality(kept) + 1
    BY <1>4, <2>1, FS_AddElement
  <2> QED BY <1>1, <1>4, <1>5, <2>1, <2>2
<1>6. \A m \in zset[c] : m[1] \in Nat
  BY <1>4 DEF Members
<1>7. \A m \in zset[c] : m[1] > clock - Window => m \in kept
  <2> SUFFICES ASSUME NEW m \in zset[c], m[1] > clock - Window PROVE m \in kept
    OBVIOUS
  <2>1. m[1] + Window <= expireAt[c] /\ expireAt[c] \in Nat
    BY <1>2 DEF RInv, SetInv, RedisTypes
  <2>2. clock < expireAt[c] /\ m[1] > t - Window
    BY <1>1, <1>2, <1>6, <2>1
  <2> QED BY <2>2 DEF Kept
<1> HIDE DEF kept, new, c, t
<1>8. zset'[c] = IF ok THEN kept \cup {new} ELSE kept
  BY <1>2, <1>3 DEF RInv, RedisTypes
<1>9. RedisTypes'
  <2>1. (IF ok THEN kept \cup {new} ELSE kept) \in SUBSET Members
    BY <1>4, <1>5
  <2>2. zset' \in [Clients -> SUBSET Members]
    BY <1>3, <2>1 DEF RInv, RedisTypes
  <2>3. expireAt' \in [Clients -> Nat]
    <3>1. clock + Window \in Nat
      BY <1>1
    <3> HIDE DEF ok
    <3> QED BY <1>3, <3>1 DEF RInv, RedisTypes
  <2> QED BY <1>3, <2>2, <2>3 DEF RInv, RedisTypes
<1>10. SetInv'
  <2> SUFFICES ASSUME NEW d \in Clients
               PROVE  /\ Cardinality(zset'[d]) <= Max
                      /\ \A m \in zset'[d] : m[1] <= clock /\ m[1] + Window <= expireAt'[d]
    BY <1>3 DEF SetInv
  <2>1. CASE d # c
    BY <1>3, <2>1 DEF RInv, RedisTypes, SetInv
  <2>2. CASE d = c /\ ok
    <3>1. expireAt'[c] = clock + Window
      BY <1>2, <1>3, <2>2 DEF RInv, RedisTypes
    <3>2. \A m \in kept : m[1] <= clock /\ m[1] \in Nat
      BY <1>2, <1>4, <1>6 DEF RInv, SetInv
    <3>3. zset'[d] = kept \cup {new} /\ expireAt'[d] = clock + Window
      BY <1>8, <2>2, <3>1
    <3>4. Cardinality(kept \cup {new}) <= Max /\ new[1] = t
      BY <1>5, <2>2
    <3>5. \A m \in kept \cup {new} : m[1] \in Nat /\ m[1] <= clock
      BY <1>2, <3>2, <3>4
    <3>6. \A n \in Nat : n <= clock => n + Window <= clock + Window
      BY <1>1
    <3> QED BY <3>3, <3>4, <3>5, <3>6
  <2>3. CASE d = c /\ ~ok
    <3>1. zset'[c] = kept /\ expireAt'[c] = expireAt[c]
      BY <1>2, <1>3, <1>8, <2>3 DEF RInv, RedisTypes
    <3>2. Cardinality(zset[c]) \in Nat /\ Cardinality(zset[c]) <= Max
      BY <1>2, <1>4, MembersFinite, FS_Subset, FS_CardinalityType DEF RInv, SetInv
    <3> QED BY <1>1, <1>2, <1>4, <2>3, <3>1, <3>2 DEF RInv, SetInv
  <2> QED BY <2>1, <2>2, <2>3
<1>11. PICK b \in BOOLEAN : b = ok
  <2>1. ok \in BOOLEAN
    OBVIOUS
  <2> QED BY <2>1, Zenon
<1>12. /\ call'[k] = IF call[k].state = "late" THEN NoCall
                     ELSE [call[k] EXCEPT !.state = "ran", !.allowed = b]
       /\ \A j \in Calls \ {k} : call'[j] = call[j]
  <2>1. call \in [Calls -> {NoCall} \cup RunningCall]
    BY DEF IInv, LocalTypes
  <2> HIDE DEF ok
  <2> QED BY <1>3, <1>11, <2>1
<1>13. ASSUME call'[k] # NoCall
       PROVE  /\ call[k].state # "late"
              /\ call'[k].state = "ran" /\ call'[k].allowed = b
              /\ call'[k].client = c /\ call'[k].stamp = t
  <2>1. call[k].state # "late" /\ call'[k] = [call[k] EXCEPT !.state = "ran", !.allowed = b]
    BY <1>12, <1>13
  <2> QED BY <1>2, <2>1 DEF RunningCall, c, t
<1>14. StampInv'
  <2> SUFFICES ASSUME NEW j \in Calls, call'[j] # NoCall
               PROVE  /\ call'[j].stamp <= clock
                      /\ call'[j].state # "late" => clock <= call'[j].stamp + Delay
    BY <1>3 DEF StampInv
  <2>1. CASE j = k
    BY <1>2, <1>13, <2>1
  <2>2. CASE j # k
    BY <1>12, <2>2 DEF RInv, StampInv
  <2> QED BY <2>1, <2>2
<1>15. AnswerInv' /\ RedisWindow'
  BY <1>3 DEF RInv, AnswerInv, RedisWindow, Ordered
<1>16. ASSUME NEW d \in Clients, NEW T \in (clock - Window)..MaxClock
       PROVE  /\ IsFiniteSet(Ran(d, T)')
              /\ Cardinality(Answered(d, T)') + Cardinality(Ran(d, T)')
                   <= Cardinality(Young(d, T)')
  <2>1. T \in Int /\ T >= clock - Window
    BY <1>1
  <2>2. /\ IsFiniteSet(Ran(d, T)) /\ Cardinality(Ran(d, T)) \in Nat
        /\ Cardinality(Answered(d, T)) + Cardinality(Ran(d, T)) <= Cardinality(Young(d, T))
        /\ IsFiniteSet(Young(d, T)) /\ Cardinality(Young(d, T)) \in Nat
        /\ Cardinality(Answered(d, T)) \in Nat
    BY <1>16, <2>1, CountedFinite, FS_CardinalityType DEF RInv, CountInv
  <2>3. Answered(d, T)' = Answered(d, T)
    BY <1>3 DEF Answered
  <2>4. k \notin Ran(d, T)
    BY <1>2 DEF Ran
  <2>5. Ran(d, T)' = IF k \in Ran(d, T)' THEN Ran(d, T) \cup {k} ELSE Ran(d, T)
    BY <1>12, <2>4 DEF Ran
  <2>6. k \in Ran(d, T)' => d = c /\ ok /\ t > T
    <3> SUFFICES ASSUME k \in Ran(d, T)' PROVE d = c /\ ok /\ t > T
      OBVIOUS
    <3>1. call'[k] # NoCall /\ call'[k].allowed = TRUE /\ call'[k].client = d
          /\ call'[k].stamp > T
      BY DEF Ran
    <3> QED BY <1>11, <1>13, <3>1
  <2>7. /\ IsFiniteSet(Young(d, T)')
        /\ Young(d, T) \subseteq Young(d, T)'
    <3>1. CASE d # c
      BY <1>3, <2>2, <3>1 DEF Young, RInv, RedisTypes
    <3>2. CASE d = c
      <4>1. Young(d, T) \subseteq kept
        BY <1>1, <1>6, <1>7, <2>1, <3>2 DEF Young
      <4>2. Young(d, T) \subseteq Young(d, T)'
        BY <1>8, <3>2, <4>1 DEF Young
      <4>3. Young(d, T)' \in SUBSET Members
        BY <1>9, <3>2 DEF Young, RedisTypes
      <4> QED BY <4>2, <4>3, MembersFinite, FS_Subset
    <3> QED BY <3>1, <3>2
  <2>8. CASE k \notin Ran(d, T)'
    <3>1. Ran(d, T)' = Ran(d, T)
      BY <2>5, <2>8
    <3>2. Cardinality(Young(d, T)) <= Cardinality(Young(d, T)')
          /\ Cardinality(Young(d, T)') \in Nat
      BY <2>7, FS_Subset, FS_CardinalityType
    <3> QED BY <2>2, <2>3, <3>1, <3>2
  <2>9. CASE k \in Ran(d, T)'
    <3>1. /\ d = c /\ ok /\ t > T
          /\ Ran(d, T)' = Ran(d, T) \cup {k}
      BY <2>5, <2>6, <2>9
    <3>2. Cardinality(Ran(d, T)') = Cardinality(Ran(d, T)) + 1 /\ IsFiniteSet(Ran(d, T)')
      BY <2>2, <2>4, <3>1, FS_AddElement
    <3>3. new \in Young(d, T)' /\ new \notin Young(d, T)
      <4>1. new \in zset'[c] /\ new[1] > T
        BY <1>5, <1>8, <3>1
      <4>2. new \notin Young(c, T)
        BY <1>1, <1>5, <1>6, <1>7, <2>1, <3>1 DEF Young
      <4> QED BY <3>1, <4>1, <4>2 DEF Young
    <3>4. Young(d, T) \cup {new} \in SUBSET Young(d, T)'
      BY <2>7, <3>3
    <3>5. Cardinality(Young(d, T) \cup {new}) = Cardinality(Young(d, T)) + 1
      BY <2>2, <3>3, FS_AddElement
    <3>6. Cardinality(Young(d, T)) + 1 <= Cardinality(Young(d, T)')
          /\ Cardinality(Young(d, T)') \in Nat
      BY <2>7, <3>4, <3>5, FS_Subset, FS_CardinalityType
    <3> QED BY <2>2, <2>3, <3>2, <3>6
  <2> QED BY <2>8, <2>9
<1>17. CountInv'
  BY <1>3, <1>16 DEF CountInv
<1> QED BY <1>9, <1>10, <1>14, <1>15, <1>17 DEF RInv

\* An answer takes the place of its call.  It is the newest, and if Max answers before
\* it were younger than Window - Delay, they and it would have Max + 1 members.
LEMMA ReturnStep ==
  ASSUME IInv, RInv, NEW k \in Calls, Return(k)
  PROVE  RInv'
<1> DEFINE c == call[k].client
           t == call[k].stamp
           l == redisLog[c]
           ll == redisLog'[c]
<1>1. /\ clock \in Nat /\ clock <= MaxClock /\ Window \in Nat /\ Window >= 1
      /\ MaxClock \in Nat /\ Max \in Nat /\ Max >= 1 /\ Delay \in Nat
  BY ClockAssumption, WindowAssumption, MaxAssumption, DelayAssumption DEF IInv, LocalTypes
<1>2. /\ call[k] \in RunningCall /\ c \in Clients /\ t \in 0..MaxClock
      /\ call[k] # NoCall /\ call[k].state = "ran" /\ clock <= t + Delay
  BY DEF Return, IInv, LocalTypes, RInv, StampInv, RunningCall
<1>3. /\ redisLog' = [redisLog EXCEPT ![c] = IF call[k].allowed THEN Append(@, clock) ELSE @]
      /\ call' = [call EXCEPT ![k] = NoCall]
      /\ clock' = clock /\ redisUrl' = redisUrl /\ localVerdict' = localVerdict
      /\ zset' = zset /\ expireAt' = expireAt
  BY DEF Return, fallbackVars, redisVars
<1>4. call'[k] = NoCall /\ \A j \in Calls \ {k} : call'[j] = call[j]
  BY <1>3 DEF IInv, LocalTypes
<1> HIDE DEF c, t
<1>5. l \in Seq(Nat) /\ Len(l) \in Nat /\ (\A i \in 1..Len(l) : l[i] \in Nat /\ l[i] <= clock)
      /\ Ordered(l)
  BY <1>2 DEF RInv, RedisTypes, AnswerInv
<1>6. /\ ll = IF call[k].allowed THEN Append(l, clock) ELSE l
      /\ \A d \in Clients \ {c} : redisLog'[d] = redisLog[d]
  BY <1>2, <1>3 DEF RInv, RedisTypes
<1> HIDE DEF l, ll
<1>7. /\ call[k].allowed = TRUE =>
           /\ ll \in Seq(Nat) /\ Len(ll) = Len(l) + 1 /\ ll[Len(l) + 1] = clock
           /\ \A i \in 1..Len(l) : ll[i] = l[i]
      /\ call[k].allowed # TRUE => ll = l
  <2>1. call[k].allowed \in BOOLEAN
    BY <1>2 DEF RunningCall
  <2>2. CASE call[k].allowed = TRUE
    <3>1. ll = Append(l, clock)
      BY <1>6, <2>2
    <3>2. /\ ll \in Seq(Nat) /\ Len(ll) = Len(l) + 1 /\ ll[Len(l) + 1] = clock
          /\ \A i \in 1..Len(l) : ll[i] = l[i]
      BY <1>1, <1>5, <3>1, AppendProperties
    <3> QED BY <2>2, <3>2, Zenon
  <2>3. CASE call[k].allowed # TRUE
    <3>1. call[k].allowed = FALSE
      BY <2>1, <2>3, Zenon
    <3> QED BY <1>6, <2>3, <3>1
  <2> QED BY <2>2, <2>3
<1>8. RedisTypes'
  <2>1. ll \in Seq(Nat)
    BY <1>5, <1>7
  <2>2. redisLog' \in [Clients -> Seq(Nat)]
    BY <1>3, <1>6, <2>1 DEF RInv, RedisTypes, ll
  <2> QED BY <1>3, <2>2 DEF RInv, RedisTypes
<1>9. StampInv' /\ SetInv'
  BY <1>3, <1>4 DEF RInv, StampInv, SetInv
<1>10. AnswerInv'
  <2> SUFFICES ASSUME NEW d \in Clients
               PROVE  /\ Ordered(redisLog'[d])
                      /\ \A i \in 1..Len(redisLog'[d]) : redisLog'[d][i] <= clock
    BY <1>3 DEF AnswerInv, Ordered
  <2>1. CASE d # c
    BY <1>6, <2>1 DEF RInv, AnswerInv
  <2>2. CASE d = c /\ call[k].allowed # TRUE
    BY <1>5, <1>7, <2>2 DEF ll
  <2>3. CASE d = c /\ call[k].allowed = TRUE
    <3>1. \A i \in 1..Len(ll) : i \in 1..Len(l) \/ i = Len(l) + 1
      BY <1>5, <1>7, <2>3
    <3>2. \A i \in 1..Len(ll) : ll[i] <= clock
      BY <1>1, <1>5, <1>7, <2>3, <3>1
    <3>3. Ordered(ll)
      BY <1>1, <1>5, <1>7, <2>3, <3>1, <3>2 DEF Ordered
    <3> QED BY <2>3, <3>2, <3>3 DEF ll
  <2> QED BY <2>1, <2>2, <2>3
<1>11. ASSUME NEW d \in Clients, NEW T \in (clock - Window)..MaxClock
       PROVE  /\ IsFiniteSet(Ran(d, T)) /\ Cardinality(Ran(d, T)) \in Nat
              /\ Cardinality(Answered(d, T)) + Cardinality(Ran(d, T)) <= Cardinality(Young(d, T))
              /\ IsFiniteSet(Answered(d, T)) /\ Cardinality(Answered(d, T)) \in Nat
              /\ Cardinality(Young(d, T)) \in Nat
              /\ Cardinality(Young(d, T)) <= Cardinality(zset[d])
              /\ Cardinality(zset[d]) \in Nat /\ Cardinality(zset[d]) <= Max
              /\ T \in Int
  <2>1. T \in Int
    BY <1>1
  <2> QED BY <1>11, <2>1, CountedFinite, FS_CardinalityType DEF RInv, CountInv, SetInv
<1>12. ASSUME NEW d \in Clients, NEW T \in (clock - Window)..MaxClock
       PROVE  /\ IsFiniteSet(Ran(d, T)')
              /\ Cardinality(Answered(d, T)') + Cardinality(Ran(d, T)')
                   <= Cardinality(Young(d, T)')
  <2>1. Young(d, T)' = Young(d, T)
    BY <1>3 DEF Young
  <2>2. Ran(d, T)' = Ran(d, T) \ {k}
    BY <1>4 DEF Ran
  <2>3. IsFiniteSet(Ran(d, T)')
        /\ Cardinality(Ran(d, T)') = IF k \in Ran(d, T) THEN Cardinality(Ran(d, T)) - 1
                                     ELSE Cardinality(Ran(d, T))
    BY <1>11, <2>2, FS_RemoveElement
  <2>4. CASE d = c /\ call[k].allowed = TRUE /\ clock > T + Delay
    <3>1. Answered(d, T)' = Answered(d, T) \cup {Len(l) + 1} /\ Len(l) + 1 \notin Answered(d, T)
      <4>1. Answered(d, T)' = {i \in 1..Len(ll) : ll[i] > T + Delay}
        BY <2>4 DEF Answered, ll
      <4>2. Answered(d, T) = {i \in 1..Len(l) : l[i] > T + Delay}
        BY <2>4 DEF Answered, l
      <4>3. 1..Len(ll) = (1..Len(l)) \cup {Len(l) + 1} /\ Len(l) + 1 \notin 1..Len(l)
        BY <1>5, <1>7, <2>4
      <4>4. \A i \in 1..Len(l) : ll[i] = l[i]
        BY <1>7, <2>4
      <4>5. ll[Len(l) + 1] = clock
        BY <1>7, <2>4
      <4> QED BY <2>4, <4>1, <4>2, <4>3, <4>4, <4>5
    <3>2. Cardinality(Answered(d, T)') = Cardinality(Answered(d, T)) + 1
      BY <1>11, <3>1, FS_AddElement
    <3>3. k \in Ran(d, T)
      <4>1. t > T
        BY <1>1, <1>2, <1>11, <2>4
      <4> QED BY <1>2, <2>4, <4>1 DEF Ran, c, t
    <3> QED BY <1>11, <2>1, <2>3, <3>2, <3>3
  <2>5. CASE ~(d = c /\ call[k].allowed = TRUE /\ clock > T + Delay)
    <3>1. Answered(d, T)' = Answered(d, T)
      <4>1. CASE d # c
        BY <1>6, <4>1 DEF Answered
      <4>2. CASE d = c /\ call[k].allowed # TRUE
        BY <1>7, <4>2 DEF Answered, l, ll
      <4>3. CASE d = c /\ call[k].allowed = TRUE
        <5>1. Answered(d, T)' = {i \in 1..Len(ll) : ll[i] > T + Delay}
          BY <4>3 DEF Answered, ll
        <5>2. Answered(d, T) = {i \in 1..Len(l) : l[i] > T + Delay}
          BY <4>3 DEF Answered, l
        <5>3. 1..Len(ll) = (1..Len(l)) \cup {Len(l) + 1}
          BY <1>5, <1>7, <4>3
        <5>4. (\A i \in 1..Len(l) : ll[i] = l[i]) /\ ll[Len(l) + 1] = clock
          BY <1>7, <4>3
        <5> QED BY <2>5, <4>3, <5>1, <5>2, <5>3, <5>4
      <4> QED BY <4>1, <4>2, <4>3
    <3> QED BY <1>11, <2>1, <2>3, <3>1
  <2> QED BY <2>4, <2>5
<1>13. CountInv'
  BY <1>3, <1>12 DEF CountInv
<1>14. ASSUME NEW i \in 1..(Len(ll) - Max)
       PROVE  ll[i + Max] - ll[i] >= Window - Delay
  <2>0. \A j \in 1..(Len(l) - Max) : l[j + Max] - l[j] >= Window - Delay
    BY <1>2 DEF RInv, RedisWindow, l
  <2>1. CASE call[k].allowed # TRUE
    BY <1>7, <2>0, <2>1
  <2>2. CASE call[k].allowed = TRUE /\ i + Max # Len(l) + 1
    <3>1. i \in 1..(Len(l) - Max) /\ i \in 1..Len(l) /\ i + Max \in 1..Len(l)
      <4>1. Len(ll) = Len(l) + 1
        BY <1>7, <2>2
      <4>2. Len(l) \in Nat
        BY <1>5
      <4> QED BY <1>1, <2>2, <4>1, <4>2
    <3>2. ll[i + Max] = l[i + Max] /\ ll[i] = l[i]
      BY <1>7, <2>2, <3>1
    <3> QED BY <2>0, <3>1, <3>2
  <2>3. CASE call[k].allowed = TRUE /\ i + Max = Len(l) + 1
    <3>0. Len(l) \in Nat /\ i \in 1..(Len(l) + 1 - Max)
      <4>1. Len(ll) = Len(l) + 1
        BY <1>7, <2>3
      <4>2. Len(l) \in Nat
        BY <1>5
      <4> QED BY <1>1, <4>1, <4>2
    <3>1. i \in 1..Len(l) /\ Len(l) - i + 1 = Max
      BY <1>1, <2>3, <3>0
    <3>2. ll[i + Max] = clock /\ ll[i] = l[i] /\ l[i] \in Nat /\ l[i] <= clock
      BY <1>5, <1>7, <2>3, <3>1
    <3>3. SUFFICES ASSUME l[i] > (clock - Window) + Delay PROVE FALSE
      BY <1>1, <3>2
    <3> DEFINE T == clock - Window
    <3>4. T \in (clock - Window)..MaxClock /\ T \in Int
      BY <1>1
    <3>5. i..Len(l) \in SUBSET Answered(c, T)
      <4> SUFFICES ASSUME NEW j \in i..Len(l) PROVE j \in Answered(c, T)
        OBVIOUS
      <4>1. j \in 1..Len(l) /\ i <= j
        BY <1>5, <3>1
      <4>2. l[i] <= l[j] /\ l[j] \in Nat
        BY <1>5, <3>1, <4>1 DEF Ordered
      <4>3. l[j] > T + Delay
        BY <1>1, <3>2, <3>3, <4>2
      <4> QED BY <4>1, <4>3 DEF Answered, l
    <3> HIDE DEF T
    <3>6. Cardinality(i..Len(l)) = Max
      BY <1>1, <1>5, <3>1, FS_Interval
    <3>7. Max <= Cardinality(Answered(c, T))
      BY <1>2, <1>11, <3>4, <3>5, <3>6, FS_Subset
    <3>8. k \in Ran(c, T)
      <4>1. clock > T + Delay
        BY <1>1, <3>2, <3>3 DEF T
      <4>2. t > T
        BY <1>1, <1>2, <3>4, <4>1
      <4> QED BY <1>2, <2>3, <4>2 DEF Ran, c, t
    <3>9. Cardinality(Ran(c, T)) # 0
      BY <1>2, <1>11, <3>4, <3>8, FS_EmptySet
    <3> QED BY <1>1, <1>2, <1>11, <3>4, <3>7, <3>9
  <2> QED BY <2>1, <2>2, <2>3
<1>15. RedisWindow'
  <2> SUFFICES ASSUME NEW d \in Clients
               PROVE  \A i \in 1..(Len(redisLog'[d]) - Max) :
                        redisLog'[d][i + Max] - redisLog'[d][i] >= Window - Delay
    BY DEF RedisWindow
  <2>1. CASE d = c
    BY <1>14, <2>1 DEF ll
  <2>2. CASE d # c
    BY <1>6, <2>2 DEF RInv, RedisWindow
  <2> QED BY <2>1, <2>2
<1> QED BY <1>8, <1>9, <1>10, <1>13, <1>15 DEF RInv

\* With time fewer stamps are young.
LEMMA TickStep ==
  ASSUME IInv, RInv, Tick
  PROVE  RInv'
<1>1. /\ clock \in Nat /\ MaxClock \in Nat /\ Window \in Nat /\ Delay \in Nat
      /\ call \in [Calls -> {NoCall} \cup RunningCall]
  BY ClockAssumption, WindowAssumption, DelayAssumption DEF IInv, LocalTypes
<1>2. /\ clock' = clock + 1 /\ clock < MaxClock
      /\ redisUrl' = redisUrl /\ localVerdict' = localVerdict /\ zset' = zset
      /\ expireAt' = expireAt /\ redisLog' = redisLog /\ call' = call
      /\ \A k \in Calls :
           (call[k] # NoCall /\ call[k].state # "late") => clock < call[k].stamp + Delay
  BY DEF Tick, fallbackVars, redisVars
<1>3. RedisTypes' /\ RedisWindow'
  BY <1>2 DEF RInv, RedisTypes, RedisWindow
<1>4. StampInv'
  <2> SUFFICES ASSUME NEW k \in Calls, call[k] # NoCall
               PROVE  /\ call[k].stamp <= clock + 1
                      /\ call[k].state # "late" => clock + 1 <= call[k].stamp + Delay
    BY <1>2 DEF StampInv
  <2>1. call[k].stamp \in Nat /\ call[k].stamp <= clock
    BY <1>1 DEF RunningCall, RInv, StampInv
  <2> QED BY <1>1, <1>2, <2>1
<1>5. SetInv'
  <2>1. \A c \in Clients : \A m \in zset[c] : m[1] \in Nat
    BY DEF RInv, RedisTypes, Members
  <2> QED BY <1>1, <1>2, <2>1 DEF RInv, SetInv
<1>6. AnswerInv'
  <2>1. \A c \in Clients : \A i \in 1..Len(redisLog[c]) : redisLog[c][i] \in Nat
    BY DEF RInv, RedisTypes
  <2> QED BY <1>1, <1>2, <2>1 DEF RInv, AnswerInv, Ordered
<1>7. CountInv'
  <2>1. \A T \in ((clock + 1) - Window)..MaxClock : T \in (clock - Window)..MaxClock
    BY <1>1
  <2>2. \A c, T : Ran(c, T)' = Ran(c, T) /\ Young(c, T)' = Young(c, T)
                 /\ Answered(c, T)' = Answered(c, T)
    BY <1>2 DEF Ran, Young, Answered
  <2> QED BY <1>2, <2>1, <2>2 DEF RInv, CountInv
<1> QED BY <1>3, <1>4, <1>5, <1>6, <1>7 DEF RInv

LEMMA RStep ==
  ASSUME IInv, RInv, [Next]_vars
  PROVE  RInv'
<1>1. /\ clock \in Nat /\ Delay \in Nat
      /\ call \in [Calls -> {NoCall} \cup RunningCall]
  BY ClockAssumption, DelayAssumption DEF IInv, LocalTypes
<1>2. ASSUME NEW g \in Gateways, NEW c \in Clients, LocalAllow(g, c)
      PROVE  localVerdict' \in {<<>>} \cup (Keys \X BOOLEAN)
  <2>1. PICK b \in BOOLEAN : localVerdict' = <<<<g, c>>, b>>
    <3>1. (Len(PruneKey(Swept(g)[<<g, c>>], clock)) < Max) \in BOOLEAN
      OBVIOUS
    <3> QED BY <1>2, <3>1, Zenon DEF LocalAllow
  <2> QED BY <2>1 DEF Keys
<1>3. ASSUME NEW g \in Gateways, NEW c \in Clients, CheckLocal(g, c)
      PROVE  RInv'
  <2>1. localVerdict' \in {<<>>} \cup (Keys \X BOOLEAN)
    BY <1>2, <1>3 DEF CheckLocal
  <2>2. StampInv'
    BY <1>3 DEF CheckLocal, RInv, StampInv
  <2> QED BY <1>3, <2>1, <2>2, GatewayStep DEF CheckLocal
<1>4. ASSUME NEW k \in Calls, NEW g \in Gateways, NEW c \in Clients, Send(k, g, c)
      PROVE  RInv'
  <2>1. call'[k].stamp = clock /\ call'[k].state = "sent"
        /\ \A j \in Calls \ {k} : call'[j] = call[j]
    BY <1>1, <1>4 DEF Send
  <2>2. StampInv'
    BY <1>1, <1>4, <2>1 DEF Send, RInv, StampInv
  <2>3. localVerdict' \in {<<>>} \cup (Keys \X BOOLEAN)
    BY <1>4 DEF Send, fallbackVars, RInv, RedisTypes
  <2> QED BY <1>4, <2>1, <2>2, <2>3, GatewayStep DEF Send
<1>5. ASSUME NEW k \in Calls, FallBack(k)
      PROVE  RInv'
  <2>1. call[k] \in RunningCall /\ call[k].gateway \in Gateways /\ call[k].client \in Clients
    BY <1>1, <1>5 DEF FallBack, RunningCall
  <2>2. localVerdict' \in {<<>>} \cup (Keys \X BOOLEAN)
    BY <1>2, <1>5, <2>1 DEF FallBack
  <2>3. /\ call'[k] # NoCall => call'[k].state = "late" /\ call'[k].stamp = call[k].stamp
        /\ \A j \in Calls \ {k} : call'[j] = call[j]
    BY <1>1, <1>5, <2>1 DEF FallBack, RunningCall
  <2>4. StampInv'
    BY <1>5, <2>3 DEF FallBack, RInv, StampInv
  <2> QED BY <1>5, <2>2, <2>3, <2>4, GatewayStep DEF FallBack
<1>6. ASSUME UNCHANGED vars PROVE RInv'
  <2>1. localVerdict' \in {<<>>} \cup (Keys \X BOOLEAN) /\ StampInv'
    BY <1>6 DEF vars, fallbackVars, RInv, RedisTypes, StampInv
  <2> QED BY <1>6, <2>1, GatewayStep DEF vars
<1>7. CASE Next
  BY <1>3, <1>4, <1>5, <1>7, ScriptStep, ReturnStep, TickStep DEF Next
<1> QED BY <1>6, <1>7

\* What Redis's sorted sets, the calls on the way and the answers have to do with one
\* another in every reachable state.
THEOREM RedisInvariance == Spec => []RInv
<1>1. RInv /\ IInv /\ [Next]_vars => RInv'
  BY RStep
<1> QED BY RInitInv, <1>1, Invariance, PTL DEF Spec

\* The limiters' variables keep their types.
THEOREM TypeCorrect == Spec => []TypeOK
<1>1. IInv /\ RInv => TypeOK
  BY DEF IInv, LocalTypes, RInv, RedisTypes, TypeOK
<1> QED BY <1>1, Invariance, RedisInvariance, PTL

\* All processes together allow on Redis's answers no Max + 1 calls of a client within
\* Window - Delay, however their scripts are reordered, lost or late.
THEOREM RedisKeepsTheLimit == Spec => []RedisWindow
<1>1. RInv => RedisWindow
  BY DEF RInv
<1> QED BY <1>1, RedisInvariance, PTL

-----------------------------------------------------------------------------
(* What is left of the documented limit. *)

\* A log without Max + 1 calls within an age, and none of the future, has at most Max
\* that are younger: they stand in its last Max places.
LEMMA RecentAreLast ==
  ASSUME NEW q \in Seq(Nat), NEW age \in Int, clock \in Nat,
         \A i \in 1..Len(q) : q[i] <= clock,
         \A i \in 1..(Len(q) - Max) : q[i + Max] - q[i] >= age
  PROVE  \A i \in Recent(q, age) : i \in 1..Len(q) /\ i > Len(q) - Max
<1>1. Len(q) \in Nat /\ DOMAIN q = 1..Len(q) /\ \A i \in 1..Len(q) : q[i] \in Nat
  OBVIOUS
<1> SUFFICES ASSUME NEW i \in 1..Len(q), q[i] > clock - age, i <= Len(q) - Max
             PROVE  FALSE
  BY <1>1, MaxAssumption DEF Recent
<1>2. i \in 1..(Len(q) - Max) /\ i + Max \in 1..Len(q)
  BY <1>1, MaxAssumption
<1>3. q[i + Max] - q[i] >= age /\ q[i + Max] <= clock
  BY <1>2
<1>4. q[i] \in Nat /\ q[i + Max] \in Nat
  BY <1>1, <1>2
<1> QED BY <1>3, <1>4

LEMMA RecentBounded ==
  ASSUME NEW q \in Seq(Nat), NEW age \in Int, clock \in Nat,
         \A i \in 1..Len(q) : q[i] <= clock,
         \A i \in 1..(Len(q) - Max) : q[i + Max] - q[i] >= age
  PROVE  /\ IsFiniteSet(Recent(q, age))
         /\ Cardinality(Recent(q, age)) <= Max
<1> DEFINE last == (Len(q) - Max + 1)..Len(q)
<1>1. Len(q) \in Int /\ Len(q) - Max + 1 \in Int
  BY MaxAssumption
<1>2. IsFiniteSet(last) /\ Cardinality(last) = Max
  BY <1>1, FS_Interval, MaxAssumption
<1>3. Recent(q, age) \in SUBSET last
  BY <1>1, RecentAreLast, MaxAssumption
<1> HIDE DEF last
<1> QED BY <1>2, <1>3, FS_Subset

\* The calls that some fallbacks allowed within Window: at most Max for each.
LEMMA FallbacksBounded ==
  ASSUME IInv, NEW c \in Clients, NEW G \in SUBSET Gateways, IsFiniteSet(G)
  PROVE  LET S == UNION {{g} \X Recent(localLog[<<g, c>>], Window) : g \in G}
         IN  IsFiniteSet(S) /\ Cardinality(S) <= Cardinality(G) * Max
<1> DEFINE S == UNION {{g} \X Recent(localLog[<<g, c>>], Window) : g \in G}
           T == G \X (0..(Max - 1))
           f == [p \in S |-> <<p[1], Len(localLog[<<p[1], c>>]) - p[2]>>]
<1>1. IsFiniteSet(T) /\ Cardinality(T) = Cardinality(G) * Max
  <2>1. IsFiniteSet(0..(Max - 1)) /\ Cardinality(0..(Max - 1)) = Max
    BY FS_Interval, MaxAssumption
  <2> QED BY <2>1, FS_Product
<1>2. ASSUME NEW g \in G
      PROVE  /\ Len(localLog[<<g, c>>]) \in Nat
             /\ \A i \in Recent(localLog[<<g, c>>], Window) :
                  i \in 1..Len(localLog[<<g, c>>]) /\ i > Len(localLog[<<g, c>>]) - Max
  <2> DEFINE q == localLog[<<g, c>>]
  <2>1. <<g, c>> \in Keys
    BY DEF Keys
  <2>2. q \in Seq(Nat) /\ clock \in Nat
    BY <2>1, ClockAssumption DEF IInv, LocalTypes
  <2>3. \A i \in 1..Len(q) : q[i] <= clock
    BY <2>1 DEF IInv, LogInv
  <2>4. \A i \in 1..(Len(q) - Max) : q[i + Max] - q[i] >= Window
    BY <2>1 DEF IInv, FallbackWindow, Fallback!WindowBound
  <2> HIDE DEF q
  <2>5. Len(q) \in Nat /\ Window \in Int
    BY <2>2, WindowAssumption
  <2>6. \A i \in Recent(q, Window) : i \in 1..Len(q) /\ i > Len(q) - Max
    BY <2>2, <2>3, <2>4, <2>5, RecentAreLast
  <2> QED BY <2>5, <2>6 DEF q
<1>3. ASSUME NEW p \in S
      PROVE  /\ p = <<p[1], p[2]>> /\ p[1] \in G
             /\ Len(localLog[<<p[1], c>>]) \in Nat /\ p[2] \in Nat
             /\ Len(localLog[<<p[1], c>>]) - p[2] \in 0..(Max - 1)
  <2>1. PICK g \in G : p \in {g} \X Recent(localLog[<<g, c>>], Window)
    OBVIOUS
  <2>2. p = <<g, p[2]>> /\ p[1] = g /\ p[2] \in Recent(localLog[<<g, c>>], Window)
    BY <2>1
  <2>3. Len(localLog[<<g, c>>]) \in Nat /\ p[2] \in 1..Len(localLog[<<g, c>>])
        /\ p[2] > Len(localLog[<<g, c>>]) - Max
    BY <1>2, <2>2
  <2> QED BY <2>2, <2>3, MaxAssumption
<1> HIDE DEF S
<1>4. f \in [S -> T]
  BY <1>3
<1>5. ASSUME NEW a \in S, NEW b \in S, f[a] = f[b] PROVE a = b
  <2>1. f[a] = <<a[1], Len(localLog[<<a[1], c>>]) - a[2]>>
        /\ f[b] = <<b[1], Len(localLog[<<b[1], c>>]) - b[2]>>
    OBVIOUS
  <2>2. a[1] = b[1] /\ Len(localLog[<<a[1], c>>]) - a[2] = Len(localLog[<<a[1], c>>]) - b[2]
    BY <1>5, <2>1
  <2>3. a[2] = b[2]
    BY <1>3, <2>2
  <2> QED BY <1>3, <2>2, <2>3
<1>6. DOMAIN f = S
  OBVIOUS
<1> HIDE DEF f, T
<1>7. f \in Injection(S, T)
  BY <1>4, <1>5, <1>6 DEF Injection, IsInjective
<1>8. IsFiniteSet(S) /\ Cardinality(S) <= Cardinality(T)
  BY <1>1, <1>7, FS_Injection
<1> QED BY <1>1, <1>8 DEF S

\* Redis and the fallbacks of any processes together keep a limit too, though not the
\* documented one: Max calls for Redis and Max for each fallback.
THEOREM DeploymentKeepsALimit == Spec => []DeploymentLimit
<1>1. IInv /\ RInv => DeploymentLimit
  <2> SUFFICES ASSUME IInv, RInv, NEW c \in Clients, NEW G \in SUBSET Gateways,
                      IsFiniteSet(G)
               PROVE  Cardinality(Recent(redisLog[c], Window - Delay))
                        + Cardinality(UNION {{g} \X Recent(localLog[<<g, c>>], Window) : g \in G})
                      <= Max + Cardinality(G) * Max
    BY DEF DeploymentLimit
  <2> DEFINE R == Recent(redisLog[c], Window - Delay)
             S == UNION {{g} \X Recent(localLog[<<g, c>>], Window) : g \in G}
  <2>1. IsFiniteSet(R) /\ Cardinality(R) <= Max
    <3>1. redisLog[c] \in Seq(Nat) /\ clock \in Nat /\ Window - Delay \in Int
      BY ClockAssumption, WindowAssumption, DelayAssumption
      DEF RInv, RedisTypes, IInv, LocalTypes
    <3>2. \A i \in 1..Len(redisLog[c]) : redisLog[c][i] <= clock
      BY DEF RInv, AnswerInv
    <3>3. \A i \in 1..(Len(redisLog[c]) - Max) :
            redisLog[c][i + Max] - redisLog[c][i] >= Window - Delay
      BY DEF RInv, RedisWindow
    <3> QED BY <3>1, <3>2, <3>3, RecentBounded
  <2>2. IsFiniteSet(S) /\ Cardinality(S) <= Cardinality(G) * Max
    BY FallbacksBounded
  <2> HIDE DEF R, S
  <2>3. Cardinality(R) \in Nat /\ Cardinality(S) \in Nat /\ Cardinality(G) \in Nat
    BY <2>1, <2>2, FS_CardinalityType
  <2>4. Cardinality(G) * Max \in Nat
    BY <2>3, MaxAssumption
  <2>5. Cardinality(R) + Cardinality(S) <= Max + Cardinality(G) * Max
    BY <2>1, <2>2, <2>3, <2>4, MaxAssumption
  <2> QED BY <2>5 DEF R, S
<1> QED BY <1>1, Invariance, RedisInvariance, PTL
=============================================================================
