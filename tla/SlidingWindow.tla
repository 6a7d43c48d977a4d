--------------------------- MODULE SlidingWindow ---------------------------
(***************************************************************************)
(* What a rate limiter promises each client: a call is allowed exactly     *)
(* when fewer than Max calls were allowed within the last Window.  log     *)
(* keeps the times of all allowed calls; an implementation may forget.     *)
(***************************************************************************)
EXTENDS Integers, Sequences

CONSTANTS
  Clients,    \* whose calls are limited
  Max,        \* calls allowed within a window
  Window,     \* length of the window
  MaxClock    \* bound on the clock

VARIABLES
  clock,    \* the time
  log,      \* the times at which calls of each client were allowed, in order
  verdict   \* the answer to the last call: <<client, allowed>>, or <<>>

vars == <<clock, log, verdict>>

TypeOK ==
  /\ clock \in 0..MaxClock
  /\ log \in [Clients -> Seq(Nat)]
  /\ verdict \in {<<>>} \cup (Clients \X BOOLEAN)

Init ==
  /\ clock = 0
  /\ log = [c \in Clients |-> <<>>]
  /\ verdict = <<>>

\* Fewer than Max calls of c were allowed since clock - Window: the one Max
\* places back, if there is one, is at least Window old.
Free(c) ==
  Len(log[c]) >= Max => log[c][Len(log[c]) - Max + 1] <= clock - Window

Allow(c) ==
  /\ Free(c)
  /\ log' = [log EXCEPT ![c] = Append(@, clock)]
  /\ verdict' = <<c, TRUE>>
  /\ UNCHANGED clock

Reject(c) ==
  /\ ~Free(c)
  /\ verdict' = <<c, FALSE>>
  /\ UNCHANGED <<clock, log>>

Tick ==
  /\ clock < MaxClock
  /\ clock' = clock + 1
  /\ UNCHANGED <<log, verdict>>

Next ==
  \/ \E c \in Clients : Allow(c)
  \/ \E c \in Clients : Reject(c)
  \/ Tick

Spec == Init /\ [][Next]_vars

\* No Max + 1 allowed calls of a client lie within less than Window.
WindowBound ==
  \A c \in Clients : \A i \in 1..(Len(log[c]) - Max) :
    log[c][i + Max] - log[c][i] >= Window
=============================================================================
