----------------------------- MODULE AgpsStates -----------------------------
(***************************************************************************)
(* The transition tables of the AGPS network interface (NIF) arbiter:      *)
(* AgpsReleasedState, AgpsPendingState, AgpsAcquiredState and              *)
(* AgpsReleasingState of loc_eng_agps.cpp, with the subscriber list they   *)
(* read and edit.  A machine value is the state object mStatePtr points at *)
(* and the linked list mSubscribers, kept as the set of its active and the *)
(* set of its inactive entries: addSubscriber never lists an ID twice, and *)
(* the order of the list matters only to DSStateMachine, which keeps it.   *)
(*                                                                         *)
(* Every handler maps a machine and an event to the set of outcomes it may *)
(* have.  An outcome is the machine afterwards, the notifications handed   *)
(* to subscribers, and the request passed to sendRsrcRequest.  There is    *)
(* more than one outcome only where the code reads freed memory.           *)
(***************************************************************************)
CONSTANTS Clients,  \* subscriber IDs: ATL connection handles, BIT addresses,
                    \* emergency SUPL connection handles
          Kind      \* the subscriber class this NIF serves

ASSUME KindAssumption == Kind \in {"ATL", "BIT", "DS"}

States == {"Released", "Pending", "Acquired", "Releasing"}
Asks   == {"NONE", "REQUEST", "RELEASE"}
NULL   == "NULL"    \* no subscriber comes with GRANTED, RELEASED and DENIED
Status == {"UNSUBSCRIBE", "GRANTED", "RELEASED", "DENIED"}

Machine == [state : States, active : SUBSET Clients, inactive : SUBSET Clients]

Outcome == [m : Machine, told : SUBSET [to : Clients, status : Status],
            ask : Asks]

NewMachine == [state |-> "Released", active |-> {}, inactive |-> {}]

(* DSSubscriber stays listed, inactive, until the interface is down; ATL   *)
(* and BIT subscribers leave at once.                                      *)
waitForCloseComplete == Kind = "DS"

Listed(m)               == m.active \cup m.inactive
hasSubscribers(m)       == Listed(m) # {}
hasActiveSubscribers(m) == m.active # {}

(* A notification for each of ids.                                         *)
Tell(ids, status) == [to : ids, status : {status}]

Then(m, told, ask) == [m |-> m, told |-> told, ask |-> ask]

In(m, state) == [m EXCEPT !.state = state]

addSubscriber(m, s) ==
  IF s \in Listed(m) THEN m ELSE [m EXCEPT !.active = @ \cup {s}]

(* Variant: postNotifyDelete is not honoured.                              *)
notifyAndKeep(m, ids) == m

(* notifySubscribers with postNotifyDelete: everyone in ids is told and    *)
(* taken off the list.                                                     *)
notifyAndDelete(m, ids) ==
  [m EXCEPT !.active = @ \ ids, !.inactive = @ \ ids]

dropAllSubscribers(m) == [m EXCEPT !.active = {}, !.inactive = {}]

-----------------------------------------------------------------------------
(* Variant: the subscriber that waits for the close stays active.          *)
leaveStaysActive(m, s) ==
  {Then([m EXCEPT !.inactive = @ \cup {s}], {}, "NONE")}

(* The first half of every RSRC_UNSUBSCRIBE branch: the subscriber becomes *)
(* inactive (DSSubscriber::setInactive reports the close), or is told and  *)
(* deleted.  In the second case the notification's rcver is the very   *)
(* object that the first pass of the notifySubscribers loop deletes, so    *)
(* its second pass compares every remaining entry with a freed ID: none    *)
(* matches, or one other entry t does and is told and deleted as well.     *)
leave(m, s) ==
  IF waitForCloseComplete
  THEN {Then([m EXCEPT !.active = @ \ {s}, !.inactive = @ \cup {s}],
             Tell({s}, "UNSUBSCRIBE"), "NONE")}
  ELSE {Then(notifyAndDelete(m, {s, t}), Tell({s, t}, "UNSUBSCRIBE"), "NONE")
          : t \in Listed(m)}

(* AgpsReleasedState::onRsrcEvent.  started is sendRsrcRequest's success.  *)
releasedOnEvent(m, event, s, started) ==
  CASE event = "SUBSCRIBE" ->
         {Then(In(addSubscriber(m, s), IF started THEN "Pending" ELSE m.state),
               {}, "REQUEST")}
    [] event = "UNSUBSCRIBE" -> {Then(m, Tell({s}, "UNSUBSCRIBE"), "NONE")}
    [] OTHER -> {Then(m, {}, "NONE")}

(* Variant: the machine does not wait for the close to complete.           *)
releaseNotAwaited(o) ==
  IF ~hasActiveSubscribers(o.m)
  THEN Then(In(o.m, "Released"), o.told, "RELEASE")
  ELSE o

(* The second half of RSRC_UNSUBSCRIBE in Pending and Acquired.            *)
releaseIfUnused(o) ==
  IF ~hasSubscribers(o.m) THEN Then(In(o.m, "Released"), o.told, "RELEASE")
  ELSE IF ~hasActiveSubscribers(o.m)
       THEN Then(In(o.m, "Releasing"), o.told, "RELEASE")
       ELSE o

(* AgpsPendingState::onRsrcEvent.                                          *)
pendingOnEvent(m, event, s) ==
  CASE event = "SUBSCRIBE"   -> {Then(addSubscriber(m, s), {}, "NONE")}
    [] event = "UNSUBSCRIBE" -> {releaseIfUnused(o) : o \in leave(m, s)}
    [] event = "GRANTED"     ->
         {Then(In(m, "Acquired"), Tell(m.active, "GRANTED"), "NONE")}
    [] event = "DENIED"      ->
         {Then(In(notifyAndDelete(m, Listed(m)), "Released"),
               Tell(Listed(m), "DENIED"), "NONE")}
    [] OTHER -> {Then(m, {}, "NONE")}

(* Variant: the loss of the interface is not handled.                      *)
acquiredIgnoresLoss(m, event, s) ==
  CASE event = "SUBSCRIBE"   ->
         {Then(addSubscriber(m, s), Tell({s}, "GRANTED"), "NONE")}
    [] event = "UNSUBSCRIBE" -> {releaseIfUnused(o) : o \in leave(m, s)}
    [] OTHER -> {Then(m, {}, "NONE")}

(* AgpsAcquiredState::onRsrcEvent.                                         *)
acquiredOnEvent(m, event, s) ==
  CASE event = "SUBSCRIBE"   ->
         {Then(addSubscriber(m, s), Tell({s}, "GRANTED"), "NONE")}
    [] event = "UNSUBSCRIBE" -> {releaseIfUnused(o) : o \in leave(m, s)}
    [] event = "RELEASED"    ->
         {Then(In(notifyAndDelete(m, Listed(m)), "Released"),
               Tell(Listed(m), "RELEASED"), "NONE")}
    [] OTHER -> {Then(m, {}, "NONE")}

(* AgpsReleasingState::onRsrcEvent.                                        *)
releasingOnEvent(m, event, s) ==
  CASE event = "SUBSCRIBE"   -> {Then(addSubscriber(m, s), {}, "NONE")}
    [] event = "UNSUBSCRIBE" ->
         {IF hasSubscribers(o.m) THEN o
          ELSE Then(In(o.m, "Released"), o.told, "NONE") : o \in leave(m, s)}
    [] event \in {"DENIED", "RELEASED"} ->
         {Then(In(notifyAndDelete(m, m.inactive),
                  IF hasActiveSubscribers(m) THEN "Pending" ELSE "Released"),
               Tell(m.inactive, event),
               IF hasActiveSubscribers(m) THEN "REQUEST" ELSE "NONE")}
    [] OTHER -> {Then(m, {}, "NONE")}

(* mStatePtr->onRsrcEvent(event, s).                                       *)
onRsrcEvent(m, event, s, started) ==
  CASE m.state = "Released"  -> releasedOnEvent(m, event, s, started)
    [] m.state = "Pending"   -> pendingOnEvent(m, event, s)
    [] m.state = "Acquired"  -> acquiredOnEvent(m, event, s)
    [] m.state = "Releasing" -> releasingOnEvent(m, event, s)
=============================================================================
