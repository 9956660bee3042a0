---- MODULE ExecutionSlots ----
(***************************************************************************)
(* The slots that provider streams, commands and MCP calls share           *)
(* (execution-slots.ts).  `use' re-checks a condition in a loop: a caller  *)
(* that finds no room puts itself into the wake set, whoever leaves wakes  *)
(* everybody, and each caller woken checks again in a microtask of its     *)
(* own, when others may have taken the room.                               *)
(***************************************************************************)
EXTENDS Integers, FiniteSets

CONSTANTS Callers,   \* the concurrent users of the slots
          Keys,      \* the keys with a limit of their own, `profile:<id>'
          NoKey,     \* what a caller without a key passes
          KeyOf,     \* the key each caller passes
          Limit,     \* calls in progress at once
          KeyLimit,  \* calls in progress at once with one key
          MaxCalls   \* bound: calls made by one caller

ASSUME SlotsAssumption ==
  /\ IsFiniteSet(Callers)
  /\ NoKey \notin Keys
  /\ KeyOf \in [Callers -> Keys \union {NoKey}]
  /\ Limit \in Nat \ {0} /\ KeyLimit \in Nat \ {0}
  /\ MaxCalls \in Nat

VARIABLES pc,       \* where each caller is
          aborted,  \* whether its current signal is aborted
          calls,    \* the calls it has made
          active,   \* the counter of calls in progress
          perKey    \* the same by key; 0 stands for no entry
slotVars == <<pc, aborted, calls, active, perKey>>

(* The two counters never fall below zero: an end, an abort or a wake-up   *)
(* gives back no slot that was not taken.                                  *)
SlotsTypeOK ==
  /\ pc \in [Callers -> {"idle", "waiting", "woken", "holding"}]
  /\ aborted \in [Callers -> BOOLEAN]
  /\ calls \in [Callers -> Nat]
  /\ active \in Nat
  /\ perKey \in [Keys -> Nat]

SlotsInit ==
  /\ pc = [c \in Callers |-> "idle"]
  /\ aborted = [c \in Callers |-> FALSE]
  /\ calls = [c \in Callers |-> 0]
  /\ active = 0
  /\ perKey = [k \in Keys |-> 0]

Full(c) ==
  \/ active >= Limit
  \/ KeyOf[c] \in Keys /\ perKey[KeyOf[c]] >= KeyLimit

----
(* One pass of the loop, with `signal' the state of c's abort signal: c is *)
(* turned away, waits, or takes a slot.                                    *)

TurnedAway(c, signal) ==
  /\ signal
  /\ pc' = [pc EXCEPT ![c] = "idle"]
  /\ UNCHANGED <<active, perKey>>

Wait(c, signal) ==
  /\ ~signal /\ Full(c)
  /\ pc' = [pc EXCEPT ![c] = "waiting"]
  /\ UNCHANGED <<active, perKey>>

Take(c, signal) ==
  /\ ~signal /\ ~Full(c)
  /\ pc' = [pc EXCEPT ![c] = "holding"]
  /\ active' = active + 1
  /\ perKey' = IF KeyOf[c] \in Keys
               THEN [perKey EXCEPT ![KeyOf[c]] = @ + 1] ELSE perKey

Check(c, signal) ==
  TurnedAway(c, signal) \/ Wait(c, signal) \/ Take(c, signal)

\* A call checks at once, perhaps with a signal that is already aborted.
Use(c) ==
  /\ pc[c] = "idle"
  /\ calls[c] < MaxCalls
  /\ calls' = [calls EXCEPT ![c] = @ + 1]
  /\ \E signal \in BOOLEAN :
       /\ aborted' = [aborted EXCEPT ![c] = signal]
       /\ Check(c, signal)

\* Mutant: `if' in place of `while', whoever is woken goes in.
RecheckNothing(c) ==
  /\ pc[c] = "woken"
  /\ pc' = [pc EXCEPT ![c] = "holding"]
  /\ active' = active + 1
  /\ perKey' = IF KeyOf[c] \in Keys
               THEN [perKey EXCEPT ![KeyOf[c]] = @ + 1] ELSE perKey
  /\ UNCHANGED <<aborted, calls>>

Recheck(c) ==
  /\ pc[c] = "woken"
  /\ Check(c, aborted[c])
  /\ UNCHANGED <<aborted, calls>>

\* Mutant: an abort gives a slot back, whether its caller has one or not.
AbortReleases(c) ==
  /\ pc[c] # "idle" /\ ~aborted[c]
  /\ aborted' = [aborted EXCEPT ![c] = TRUE]
  /\ active' = active - 1
  /\ pc' = [pc EXCEPT ![c] = IF @ = "waiting" THEN "woken" ELSE @]
  /\ UNCHANGED <<calls, perKey>>

\* The user stops c; a waiting c is woken by its abort listener.
Abort(c) ==
  /\ pc[c] # "idle" /\ ~aborted[c]
  /\ aborted' = [aborted EXCEPT ![c] = TRUE]
  /\ pc' = [pc EXCEPT ![c] = IF @ = "waiting" THEN "woken" ELSE @]
  /\ UNCHANGED <<calls, active, perKey>>

Released(c) ==
  /\ active' = active - 1
  /\ perKey' = IF KeyOf[c] \in Keys
               THEN [perKey EXCEPT ![KeyOf[c]] = @ - 1] ELSE perKey
  /\ UNCHANGED <<aborted, calls>>

\* Mutant: the slot is handed to one of those who wait.
LeaveWakesOne(c) ==
  /\ pc[c] = "holding"
  /\ \E w \in Callers \ {c} :
       pc' = [pc EXCEPT ![c] = "idle",
                        ![w] = IF @ = "waiting" THEN "woken" ELSE @]
  /\ Released(c)

\* Mutant: nobody is woken.
LeaveQuietly(c) ==
  /\ pc[c] = "holding"
  /\ pc' = [pc EXCEPT ![c] = "idle"]
  /\ Released(c)

\* The action ended, well or badly: the `finally' block.
Leave(c) ==
  /\ pc[c] = "holding"
  /\ pc' = [d \in Callers |-> IF d = c THEN "idle"
                              ELSE IF pc[d] = "waiting" THEN "woken" ELSE pc[d]]
  /\ Released(c)

SlotsNext == \E c \in Callers : Use(c) \/ Recheck(c) \/ Abort(c) \/ Leave(c)

\* Microtasks run, and every action ends: a stream is aborted after ten
\* minutes, a command and an MCP call by their own timeouts.  Nobody has to
\* call or to abort.
SlotsFairness == \A c \in Callers : WF_slotVars(Recheck(c)) /\ WF_slotVars(Leave(c))

SlotsSpec == SlotsInit /\ [][SlotsNext]_slotVars
SlotsFairSpec == SlotsSpec /\ SlotsFairness

----
Holders == {c \in Callers : pc[c] = "holding"}
HoldersOf(k) == {c \in Holders : KeyOf[c] = k}

(* However calls, wake-ups and aborts interleave, no more callers are      *)
(* inside than the limit, and no more than the key limit with one key.     *)
SlotsWithinLimits ==
  /\ Cardinality(Holders) <= Limit
  /\ \A k \in Keys : Cardinality(HoldersOf(k)) <= KeyLimit

(* No wake-up is lost: a caller in the wake set still has no room, so it   *)
(* never sleeps while a slot it could take is free.                        *)
NobodySleepsBesideAFreeSlot ==
  \A c \in Callers : pc[c] = "waiting" => Full(c)

(* A caller that waits gets a slot or, once aborted, gives up.             *)
EveryCallEnds ==
  \A c \in Callers :
    pc[c] \in {"waiting", "woken"} ~> pc[c] \in {"holding", "idle"}
====
