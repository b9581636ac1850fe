---------------------------- MODULE SensorStreams ---------------------------
(***************************************************************************)
(* What the multi-HAL promises the framework: every device is a bounded    *)
(* first-in first-out stream.  Events arrive a few at a time, numbered     *)
(* without gaps, and are taken one at a time, oldest first, none lost,     *)
(* repeated or altered, with the handle replaced by the global handle of   *)
(* the sensor of the module that made them.                                *)
(***************************************************************************)
EXTENDS SensorHandles

CONSTANTS Capacity, Serials, EventKinds, NoEvent

VARIABLES modules,  \* the module each stream belongs to
          pending,  \* the events of each stream that were not taken yet
          made,     \* serial number of each stream's next event
          taken     \* the last event taken from each stream

vars == <<modules, pending, made, taken>>

Streams == DOMAIN modules

Init ==
  /\ modules \in Seq(1 .. ModuleCount)
  /\ pending = [d \in Streams |-> <<>>]
  /\ made = [d \in Streams |-> 0]
  /\ taken = [d \in Streams |-> NoEvent]

(* Arriving events, n of them with the given kinds.                        *)
Numbered(from, kinds) ==
  [k \in DOMAIN kinds |-> [serial |-> (from + k - 1) % Serials,
                           type |-> kinds[k].type, handle |-> kinds[k].handle]]

Arrive(d) ==
  \E n \in 1 .. (Capacity - Len(pending[d])) :
    \E kinds \in [1 .. n -> EventKinds] :
      /\ pending' = [pending EXCEPT ![d] = @ \o Numbered(made[d], kinds)]
      /\ made' = [made EXCEPT ![d] = (@ + n) % Serials]
      /\ UNCHANGED <<modules, taken>>

Take(d) ==
  /\ pending[d] # <<>>
  /\ pending' = [pending EXCEPT ![d] = Tail(@)]
  /\ taken' = [taken EXCEPT ![d] =
                 copy_event_remap_handle(Head(pending[d]), modules[d])]
  /\ UNCHANGED <<modules, made>>

Next == \E d \in Streams : Arrive(d) \/ Take(d)

Spec == Init /\ [][Next]_vars
=============================================================================
