-------------------------- MODULE ConsumerLending --------------------------
(***************************************************************************)
(* What the consumer cache promises the tools, without keys, entries,      *)
(* clocks or scans: a consumer is started by one call, may then be lent to *)
(* any call of the same configuration as long as it runs, is retired once  *)
(* and never lent again.  A call is asking until it has a consumer; it may *)
(* lose it, but gets no other.  The steps of a call relate what it is, w,  *)
(* to what it was, v, and are not meant to be explored.                    *)
(***************************************************************************)
CONSTANTS
  Calls,      \* slots for concurrent calls
  Consumers,  \* consumer objects
  None        \* no call, no object, no consumer

VARIABLES
  object,  \* each consumer object: its configuration and its state
  call     \* each call: the configuration it needs and the consumer it holds

vars == <<object, call>>

Init ==
  /\ object = [i \in Consumers |-> None]
  /\ call = [r \in Calls |-> None]

Is(i, state) == object[i] # None /\ object[i].state = state

\* The stop of a consumer is called for, whatever comes of it.
Retire(i) ==
  /\ Is(i, "running")
  /\ object' = [object EXCEPT ![i].state = "retired"]

\* A call retires a consumer on its way, whoever holds it, and goes on asking.
Wait(w) == w.holds = None /\ \E i \in Consumers : Retire(i)

Lend(w) ==
  /\ w.holds # None
  /\ object[w.holds] = [config |-> w.config, state |-> "running"]
  /\ UNCHANGED object

\* It makes a consumer; the object is none that a call still holds.
Make(w) ==
  /\ w.holds # None
  /\ object[w.holds] = None \/ Is(w.holds, "retired")
  /\ \A s \in Calls : call[s] # None => call[s].holds # w.holds
  /\ object' = [object EXCEPT ![w.holds] = [config |-> w.config, state |-> "starting"]]

Starting(v) == v.holds # None /\ Is(v.holds, "starting")

Open(v) == Starting(v) /\ object' = [object EXCEPT ![v.holds].state = "running"]

\* A consumer whose start was cut short is not lent, and its call is over.
Lose(v) == Starting(v) /\ object' = [object EXCEPT ![v.holds].state = "retired"]

\* A call fails with its consumer, and retires one of the same configuration.
Fail(v) ==
  /\ v.holds # None
  /\ \E i \in Consumers : Retire(i) /\ object[i].config = v.config

\* A call is over, but leaves no consumer behind that is starting.
Leave(v) == ~Starting(v) /\ UNCHANGED object

\* A new call asks for a consumer, or one that has been asking for it.
Asks(v, w) == w # None /\ (v = None \/ v = [w EXCEPT !.holds = None])

Turn(v, w) ==
  \/ Asks(v, w) /\ (Wait(w) \/ Lend(w) \/ Make(w))
  \/ v # None /\ w = v /\ Open(v)
  \/ v # None /\ w = None /\ (Lose(v) \/ Fail(v) \/ Leave(v))

Next ==
  \E r \in Calls :
    /\ Turn(call[r], call'[r])
    /\ call' = [call EXCEPT ![r] = call'[r]]

Spec == Init /\ [][Next]_vars
=============================================================================
