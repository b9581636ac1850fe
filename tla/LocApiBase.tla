----------------------------- MODULE LocApiBase -----------------------------
(***************************************************************************)
(* The API base class of the GPS HAL (core/LocApiBase.cpp) with its        *)
(* adapters (LocAdapterBase, LocEngAdapter) and the context that makes it  *)
(* (ContextBase, LocDualContext): clients add and remove adapters, the     *)
(* modem's callback thread walks the same array to deliver events and      *)
(* requests, and the MsgTask thread opens and closes the modem's handle.   *)
(* Nothing locks the array mLocAdapters, so each read and write of it by   *)
(* one thread may fall between two of another.                             *)
(***************************************************************************)
EXTENDS Naturals, Sequences

CONSTANTS Adapters,      \* the clients' adapters
          mEvtMask,      \* the events each of them asks for
          MAX_ADAPTERS,  \* size of the array
          MaxQueue,      \* bound on queued messages, for clients and modem
          MaxCrashes,    \* bound on modem crashes
          MaxCalls       \* bound on reports and requests of the modem

VARIABLES api,           \* which implementation createLocApi has found
          excluded,      \* mExcludedMask: of the context it was made for
          mLocAdapters,  \* the array
          client,        \* where the client thread is in add or remove
          queue,         \* of the MsgTask
          modem,         \* [up, open, mask]: it, and the events it reports
          upcall,        \* the callback thread's walk over the array
          enabled,       \* adapters that handle requests (mAgpsEnabled)
          crashes, calls

vars == <<api, excluded, mLocAdapters, client, queue, modem, upcall,
          enabled, crashes, calls>>

NULL   == "NULL"
Slots  == 1 .. MAX_ADAPTERS

(* LBSProxyBase::getLocApi, the RPC library and the target decide; the     *)
(* default implementation does nothing and never calls up.                 *)
createLocApi(mpq, lbs, rpc) ==
  IF ~mpq /\ (lbs \/ rpc) THEN "real" ELSE "dummy"

Real == api # "dummy"

Idle     == [step |-> "idle", of |-> NULL, at |-> 0, last |-> 0]
NoUpcall == [kind |-> "none", i |-> 0, told |-> <<>>, from |-> {}, undisturbed |-> TRUE]

(* The calls that TO_ALL_ADAPTERS and TO_1ST_HANDLING_ADAPTER make:        *)
(* position, satellite, status and NMEA reports to all;                    *)
(* XTRA, time, location, ATL, emergency and NI requests to the first.      *)
Kinds == {"report", "request"}

(* LocDualContext: the foreground context excludes nothing, the background *)
(* one the reports.                                                        *)
ExclMasks == {{}, {"report"}}

Init ==
  /\ \E mpq, lbs, rpc \in BOOLEAN : api = createLocApi(mpq, lbs, rpc)
  /\ excluded \in ExclMasks
  /\ mLocAdapters = [i \in Slots |-> NULL]
  /\ client = Idle
  /\ queue = <<>>
  /\ modem = [up |-> TRUE, open |-> FALSE, mask |-> {}]
  /\ upcall = NoUpcall
  /\ enabled = {}
  /\ crashes = 0 /\ calls = 0

-----------------------------------------------------------------------------
Open(mask)  == [type |-> "Open", mask |-> mask, to |-> NULL]
Ssr         == [type |-> "Ssr", mask |-> {}, to |-> NULL]
Told(up, a) == [type |-> IF up THEN "EngineUp" ELSE "EngineDown",
                mask |-> {}, to |-> a]

(* The loop of TO_ALL_ADAPTERS ends at the first NULL.                     *)
Walked == {a \in Adapters : \E i \in Slots : /\ mLocAdapters[i] = a
                                             /\ \A j \in 1 .. i : mLocAdapters[j] # NULL}

Present == {mLocAdapters[i] : i \in Slots} \ {NULL}

getEvtMask == (UNION {mEvtMask[a] : a \in Walked}) \ excluded

(* The virtual open() and close() of the found implementation: events are  *)
(* added to those of the handle, and a modem that is down has none.        *)
opened(m, mask) ==
  IF m.up THEN [m EXCEPT !.open = TRUE, !.mask = @ \cup (mask \ excluded)] ELSE m
closed(m) == [m EXCEPT !.open = FALSE, !.mask = {}]

(* LocOpenMsg, LocSsrMsg and the adapters' messages, on the MsgTask.       *)
proc ==
  /\ queue # <<>>
  /\ LET msg == Head(queue)
     IN  modem' = CASE Real /\ msg.type = "Open" -> opened(modem, msg.mask)
                    [] Real /\ msg.type = "Ssr"  -> opened(closed(modem), getEvtMask)
                    [] OTHER -> modem
  /\ queue' = Tail(queue)
  /\ UNCHANGED <<api, excluded, mLocAdapters, client, upcall, enabled,
                 crashes, calls>>

-----------------------------------------------------------------------------
(* addAdapter, from the constructor of LocAdapterBase: the first free slot *)
(* unless the adapter comes before it; nothing if the array is full.       *)
addAdapter(a) ==
  LET free == {i \in Slots : mLocAdapters[i] = NULL}
      slot == CHOOSE i \in free : \A j \in free : i <= j
  IN  /\ client.step = "idle" /\ Len(queue) < MaxQueue
      /\ a \notin {mLocAdapters[i] : i \in Slots}
      /\ \/ /\ free # {}
            /\ mLocAdapters' = [mLocAdapters EXCEPT ![slot] = a]
            /\ queue' = Append(queue, Open(mEvtMask[a]))
         \/ free = {} /\ UNCHANGED <<mLocAdapters, queue>>
      /\ UNCHANGED <<api, excluded, client, modem, upcall, enabled,
                     crashes, calls>>

(* loc_init: the adapter takes requests some time after it was added.      *)
setAgpsEnabled(a) ==
  /\ a \in {mLocAdapters[i] : i \in Slots} \ enabled
  /\ enabled' = enabled \cup {a}
  /\ UNCHANGED <<api, excluded, mLocAdapters, client, queue, modem,
                 upcall, crashes, calls>>

(* Variant: the rest of the array is not searched.                         *)
lastIsItself(j) == j

(* The last adapter in the array, found while slot j is NULL.              *)
LastSlot(j) ==
  CHOOSE i \in j .. MAX_ADAPTERS :
    /\ \A k \in j + 1 .. i : mLocAdapters[k] # NULL
    /\ i = MAX_ADAPTERS \/ mLocAdapters[i + 1] = NULL

(* removeAdapter, from the destructor: the slot is cleared ...             *)
removeAdapter(a) ==
  /\ client.step = "idle" /\ Len(queue) < MaxQueue
  /\ \E j \in Slots :
       /\ mLocAdapters[j] = a /\ \A i \in 1 .. j : mLocAdapters[i] # NULL
       /\ mLocAdapters' = [mLocAdapters EXCEPT ![j] = NULL]
       /\ client' = [step |-> "fill", of |-> a, at |-> j,
                     last |-> LastSlot(j)]
  /\ upcall' = [upcall EXCEPT !.undisturbed = FALSE]
  /\ enabled' = enabled \ {a}
  /\ UNCHANGED <<api, excluded, queue, modem, crashes, calls>>

(* ... the last adapter is copied into it ...                              *)
fillHole ==
  /\ client.step = "fill"
  /\ mLocAdapters' = [mLocAdapters EXCEPT ![client.at] = mLocAdapters[client.last]]
  /\ client' = [client EXCEPT !.step = "clear"]
  /\ UNCHANGED <<api, excluded, queue, modem, upcall, enabled,
                 crashes, calls>>

(* ... its old slot is cleared, and the handle is closed with the last     *)
(* adapter, or else opened again.                                          *)
clearLast ==
  LET left == [mLocAdapters EXCEPT ![client.last] = NULL]
      mask == UNION {mEvtMask[a] : a \in Adapters \cap {left[i] : i \in Slots}}
  IN  /\ client.step = "clear"
      /\ mLocAdapters' = left
      /\ client' = Idle
      /\ \/ /\ client.last = 1
            /\ modem' = IF Real THEN closed(modem) ELSE modem
            /\ UNCHANGED queue
         \/ /\ client.last # 1
            /\ queue' = Append(queue, Open(mask \ excluded))
            /\ UNCHANGED modem
      /\ upcall' = [upcall EXCEPT !.undisturbed = FALSE]
      /\ UNCHANGED <<api, excluded, enabled, crashes, calls>>

-----------------------------------------------------------------------------
(* handleEngineUpEvent begins with the message that reopens the handle.    *)
Before(kind) == IF kind = "engineUp" THEN <<Ssr>> ELSE <<>>

(* An upward call, on the thread of the modem's callbacks.                 *)
startCall(kind) ==
  /\ Real /\ upcall.kind = "none"
  /\ Len(queue) < MaxQueue
  /\ upcall' = [kind |-> kind, i |-> 1, told |-> <<>>,
                from |-> IF kind = "request" THEN Present \cap enabled ELSE Present,
                undisturbed |-> client.step = "idle"]
  /\ queue' = queue \o Before(kind)
  /\ UNCHANGED <<api, excluded, mLocAdapters, client, enabled>>

reportUp == \E kind \in Kinds :
  /\ modem.up /\ modem.open /\ calls < MaxCalls
  /\ startCall(kind)
  /\ calls' = calls + 1
  /\ UNCHANGED <<modem, crashes>>

(* The modem goes down, and comes back: handleEngineDownEvent,             *)
(* handleEngineUpEvent.                                                    *)
engineDown ==
  /\ modem.up /\ crashes < MaxCrashes
  /\ startCall("engineDown")
  /\ modem' = [closed(modem) EXCEPT !.up = FALSE]
  /\ crashes' = crashes + 1
  /\ UNCHANGED calls

engineUp ==
  /\ ~modem.up
  /\ startCall("engineUp")
  /\ modem' = [modem EXCEPT !.up = TRUE]
  /\ UNCHANGED <<crashes, calls>>

(* LocEngAdapter answers a request if mAgpsEnabled; LocAdapterBase never.  *)
handles(a) == upcall.kind = "request" /\ a \in enabled

Going == /\ upcall.kind # "none"
         /\ upcall.i <= MAX_ADAPTERS /\ mLocAdapters[upcall.i] # NULL

(* One turn of the loop: the adapter at i.  An engine event becomes a      *)
(* message of the adapter's own.                                           *)
callAdapter ==
  LET a == mLocAdapters[upcall.i]
      takes == upcall.kind # "request" \/ a \in enabled
  IN  /\ Going
      /\ upcall' = [upcall EXCEPT !.i = IF handles(a) THEN MAX_ADAPTERS + 1 ELSE @ + 1,
                                  !.told = IF takes THEN Append(@, a) ELSE @]
      /\ queue' = IF upcall.kind \in {"engineUp", "engineDown"}
                  THEN Append(queue, Told(upcall.kind = "engineUp", a)) ELSE queue
      /\ UNCHANGED <<api, excluded, mLocAdapters, client, modem,
                     enabled, crashes, calls>>

endCall ==
  /\ upcall.kind # "none" /\ ~Going
  /\ upcall' = NoUpcall
  /\ UNCHANGED <<api, excluded, mLocAdapters, client, queue, modem,
                 enabled, crashes, calls>>

Next ==
  \/ proc
  \/ \E a \in Adapters : addAdapter(a) \/ setAgpsEnabled(a) \/ removeAdapter(a)
  \/ fillHole \/ clearLast
  \/ reportUp \/ engineDown \/ engineUp \/ callAdapter \/ endCall

Spec == Init /\ [][Next]_vars

-----------------------------------------------------------------------------
(* Nothing is on its way that would still open or close the handle.        *)
Settled == /\ client.step = "idle" /\ modem.up /\ Real
           /\ \A i \in 1 .. Len(queue) : queue[i].type \notin {"Open", "Ssr"}

(* Whatever the order of adding, removing, crashing and coming back: once  *)
(* the messages about the handle are done, the modem reports every event   *)
(* that an adapter in the array has asked for and the context does not     *)
(* exclude, even one that was asked for while the modem was down.          *)
EventsRegistered ==
  Settled => \A a \in Present : mEvtMask[a] \ excluded \subseteq modem.mask

(* A walk over the array that no removal disturbs calls every adapter that *)
(* was there when it began, once; a request stops at the first one that    *)
(* handles it, and finds one if there is one (LocApiBase.h: "deliver to    *)
(* the first handling adapter").  Removals before the walk leave no hole   *)
(* that would hide an adapter.                                             *)
CallsDelivered ==
  upcall.kind # "none" /\ ~Going /\ upcall.undisturbed =>
    LET told == {upcall.told[k] : k \in 1 .. Len(upcall.told)}
    IN  /\ \A j, k \in 1 .. Len(upcall.told) : upcall.told[j] = upcall.told[k] => j = k
        /\ IF upcall.kind = "request"
           THEN Len(upcall.told) <= 1 /\ (upcall.from # {} => told # {})
           ELSE upcall.from \subseteq told

(* When an adapter handles LocEngUp, and restarts its session, the handle  *)
(* has been negotiated with the new modem, unless that has crashed too     *)
(* ("This will take care of renegotiating the loc handle").                *)
UpFindsHandle ==
  queue # <<>> /\ Settled /\ Present # {} =>
    (Head(queue).type = "EngineUp" => modem.open)

-----------------------------------------------------------------------------
(* The inductive invariant of GpsEngineProofs.  Between the steps of a      *)
(* removal the array is what it was before, full up to n, except for the   *)
(* slot at which the adapter was.                                          *)
AllEvents == UNION {mEvtMask[a] : a \in Adapters}
Message   == [type : {"Open", "Ssr", "EngineUp", "EngineDown"},
              mask : SUBSET AllEvents, to : Adapters \cup {NULL}]

BaseTypeOK ==
  /\ client.step \in {"idle", "fill", "clear"}
  /\ queue \in Seq(Message)
  /\ modem \in [up : BOOLEAN, open : BOOLEAN, mask : SUBSET AllEvents]
  /\ upcall \in [kind : Kinds \cup {"none", "engineUp", "engineDown"},
                 i : 0 .. MAX_ADAPTERS + 1, told : Seq(Adapters),
                 from : SUBSET Adapters, undisturbed : BOOLEAN]
  /\ upcall.kind # "none" => upcall.i >= 1
  /\ enabled \subseteq Adapters

Packed(array, n) ==
  \A i \in Slots : /\ array[i] # NULL <=> i <= n
                   /\ \A j \in 1 .. n : array[i] = array[j] => i = j

ArraySound ==
  \E n \in 0 .. MAX_ADAPTERS, full \in [Slots -> Adapters \cup {NULL}] :
    /\ Packed(full, n)
    /\ client.step = "idle" => mLocAdapters = full
    /\ client.step # "idle" => client.last = n /\ client.at \in 1 .. n
    /\ client.step = "fill" => mLocAdapters = [full EXCEPT ![client.at] = NULL]
    /\ client.step = "clear" =>
         mLocAdapters = [full EXCEPT ![client.at] = IF client.at = n THEN NULL ELSE full[n]]

(* The events of an adapter are registered, or a message that registers    *)
(* them is queued; so is one that opens the handle, if it is closed.       *)
Registering(q, a) ==
  \E k \in 1 .. Len(q) : \/ q[k].type = "Ssr"
                         \/ q[k].type = "Open" /\ mEvtMask[a] \ excluded \subseteq q[k].mask

Opening(q) == \E k \in 1 .. Len(q) : q[k].type \in {"Open", "Ssr"}

HandleSound ==
  Real /\ modem.up /\ client.step = "idle" =>
    \A a \in Present :
      /\ mEvtMask[a] \ excluded \subseteq modem.mask \/ Registering(queue, a)
      /\ modem.open \/ Opening(queue)

(* A walk that nothing disturbed has called what it passed, or has found   *)
(* the adapter that handles the request.                                   *)
WalkSound ==
  upcall.kind # "none" /\ upcall.undisturbed =>
    /\ client.step = "idle" /\ upcall.from \subseteq Present
    /\ \/ /\ \A k \in 1 .. upcall.i - 1 : mLocAdapters[k] # NULL
          /\ IF upcall.kind # "request"
             THEN /\ Len(upcall.told) = upcall.i - 1
                  /\ \A k \in 1 .. upcall.i - 1 : upcall.told[k] = mLocAdapters[k]
             ELSE /\ upcall.told = <<>> /\ upcall.from \subseteq enabled
                  /\ \A k \in 1 .. upcall.i - 1 : mLocAdapters[k] \notin upcall.from
       \/ /\ upcall.kind = "request" /\ Len(upcall.told) = 1
          /\ upcall.i = MAX_ADAPTERS + 1

BaseInv == BaseTypeOK /\ ArraySound /\ HandleSound /\ WalkSound
=============================================================================
