---------------------------- MODULE GraphicBuffer ----------------------------
(***************************************************************************)
(* libshims/ui: GraphicBuffer objects, the GraphicBufferAllocator with its  *)
(* list of allocations, and the GraphicBufferMapper.  Each object is used   *)
(* by a thread of its own.  The allocator calls the gralloc device first    *)
(* and takes sLock for the list afterwards, so a call is two steps.  The    *)
(* device may give a freed handle out again.                                *)
(***************************************************************************)
EXTENDS Integers, FiniteSets

CONSTANTS Objects, Handles,
          Sizes,         \* width, height, format and usage of a buffer, as one value
          MaxHandles     \* bound on the native handles alive at once

VARIABLES gb,            \* the objects
          call,          \* what an object's thread is doing inside the allocator
          allocated,     \* handles the gralloc device has given out
          sAllocList,    \* the allocator's records
          natives,       \* native_handle objects that are open
          registered,    \* handles registered with the mapper
          reissued       \* handles given out again while a record was being removed

gbvars == <<gb, call, allocated, sAllocList, natives, registered, reissued>>

NoSize == "0x0"
Dead == [state |-> "dead", mOwner |-> "none", handle |-> 0, size |-> NoSize]
Quiet == [op |-> "none", h |-> 0, then |-> Dead]

GbInit == /\ gb = [o \in Objects |-> Dead]
          /\ call = [o \in Objects |-> Quiet]
          /\ allocated = {} /\ sAllocList = {} /\ natives = {} /\ registered = {}
          /\ reissued = {}

Live(o) == gb[o].state = "live" /\ call[o] = Quiet

\* The constructors without an allocation: an empty buffer, or one around a
\* handle of the caller's, which it owns when keepOwnership says so.
Construct(o) ==
    /\ gb[o] = Dead /\ call[o] = Quiet
    /\ gb' = [gb EXCEPT ![o] = [state |-> "live", mOwner |-> "ownData", handle |-> 0,
                                size |-> NoSize]]
    /\ UNCHANGED <<call, allocated, sAllocList, natives, registered, reissued>>

Wrap(o, h, size, keepOwnership) ==
    /\ gb[o] = Dead /\ call[o] = Quiet
    /\ h \notin allocated \cup natives /\ Cardinality(natives) < MaxHandles
    /\ gb' = [gb EXCEPT ![o] = [state |-> "live", handle |-> h, size |-> size,
                                mOwner |-> IF keepOwnership THEN "ownHandle" ELSE "ownNone"]]
    /\ natives' = natives \cup {h}
    /\ registered' = registered \cup {h}
    /\ UNCHANGED <<call, allocated, sAllocList, reissued>>

---------------------------------------------------------------------------
\* initSize and GraphicBufferAllocator::alloc: the device, which may fail, then
\* the record.
initSize(o, b, size) ==
    \/ \E h \in Handles \ (allocated \cup natives) :
          /\ allocated' = allocated \cup {h}
          /\ gb' = [gb EXCEPT ![o] = [b EXCEPT !.handle = h, !.size = size]]
          /\ call' = [call EXCEPT ![o] = [op |-> "add", h |-> h, then |-> Dead]]
          /\ reissued' = IF \E p \in Objects : call[p].op = "remove" /\ call[p].h = h
                         THEN reissued \cup {h} ELSE reissued
    \/ /\ gb' = [gb EXCEPT ![o] = b]
       /\ call' = [call EXCEPT ![o] = Quiet]
       /\ UNCHANGED <<allocated, reissued>>

ConstructSized(o, size) ==
    /\ gb[o] = Dead /\ call[o] = Quiet
    /\ initSize(o, [state |-> "live", mOwner |-> "ownData", handle |-> 0,
                    size |-> NoSize], size)
    /\ UNCHANGED <<sAllocList, natives, registered>>

alloc_record(o) ==
    /\ call[o].op = "add"
    /\ sAllocList' = sAllocList \cup {call[o].h}
    /\ call' = [call EXCEPT ![o] = Quiet]
    /\ UNCHANGED <<gb, allocated, natives, registered, reissued>>

\* GraphicBufferAllocator::free; what the object is afterwards is in then.  When
\* the device refuses, the record stays and the caller goes on.
free(o, then) ==
    LET h == gb[o].handle
    IN \/ /\ allocated' = allocated \ {h}
          /\ reissued' = reissued \ {h}
          /\ call' = [call EXCEPT ![o] = [op |-> "remove", h |-> h, then |-> then]]
          /\ UNCHANGED gb
       \/ /\ call' = [call EXCEPT ![o] = [op |-> "refused", h |-> h, then |-> then]]
          /\ UNCHANGED <<gb, allocated, reissued>>

\* The object without its handle goes on: allocates, unflattens or is gone.
Resume(o, b, then) ==
    IF then.state = "realloc" THEN initSize(o, b, then.size)
    ELSE /\ gb' = [gb EXCEPT ![o] = IF then = Dead THEN Dead ELSE b]
         /\ call' = [call EXCEPT ![o] = IF then.state = "parcel"
                                        THEN [op |-> "parcel", h |-> 0, then |-> Dead]
                                        ELSE Quiet]
         /\ UNCHANGED <<allocated, reissued>>

\* Variant: the handle is not forgotten when its buffer has been freed.
recordKeepsHandle(o) ==
    /\ call[o].op \in {"remove", "refused"}
    /\ sAllocList' = IF call[o].op = "remove" THEN sAllocList \ {call[o].h} ELSE sAllocList
    /\ Resume(o, gb[o], call[o].then)
    /\ UNCHANGED <<natives, registered>>

free_record(o) ==
    /\ call[o].op \in {"remove", "refused"}
    /\ sAllocList' = IF call[o].op = "remove" THEN sAllocList \ {call[o].h} ELSE sAllocList
    /\ Resume(o, [gb[o] EXCEPT !.handle = 0], call[o].then)
    /\ UNCHANGED <<natives, registered>>

\* reallocate: nothing to do for the same size, else free and allocate.
reallocate(o, size) ==
    /\ Live(o) /\ gb[o].mOwner = "ownData"
    /\ ~(gb[o].handle # 0 /\ gb[o].size = size)
    /\ IF gb[o].handle # 0
       THEN free(o, [gb[o] EXCEPT !.state = "realloc", !.size = size])
       ELSE initSize(o, gb[o], size)
    /\ UNCHANGED <<sAllocList, natives, registered>>

---------------------------------------------------------------------------
\* free_handle of a buffer around a handle it owns, or does not own.
CloseHandle(o) ==
    IF gb[o].mOwner = "ownHandle"
    THEN /\ natives' = natives \ {gb[o].handle}
         /\ registered' = registered \ {gb[o].handle}
    ELSE UNCHANGED <<natives, registered>>

Destroy(o) ==
    /\ Live(o)
    /\ IF gb[o].handle # 0 /\ gb[o].mOwner = "ownData"
       THEN free(o, Dead) /\ UNCHANGED <<natives, registered>>
       ELSE /\ IF gb[o].handle # 0 THEN CloseHandle(o) ELSE UNCHANGED <<natives, registered>>
            /\ gb' = [gb EXCEPT ![o] = Dead]
            /\ UNCHANGED <<call, allocated, reissued>>
    /\ UNCHANGED sAllocList

\* unflatten: a parcel that is too short or no buffer changes nothing; one with
\* too many fds empties the object, whose handle is then lost; else the handle
\* it had is freed first.
unflatten(o, outcome) ==
    /\ Live(o)
    /\ CASE outcome = "too large" ->
              /\ gb' = [gb EXCEPT ![o] = [@ EXCEPT !.handle = 0, !.size = NoSize]]
              /\ UNCHANGED <<call, allocated, natives, registered, reissued>>
         [] outcome = "good" /\ gb[o].handle # 0 /\ gb[o].mOwner = "ownData" ->
              free(o, [gb[o] EXCEPT !.state = "parcel"]) /\ UNCHANGED <<natives, registered>>
         [] OTHER ->
              /\ IF gb[o].handle # 0 THEN CloseHandle(o) ELSE UNCHANGED <<natives, registered>>
              /\ gb' = [gb EXCEPT ![o].handle = 0]
              /\ call' = [call EXCEPT ![o] = [op |-> "parcel", h |-> 0, then |-> Dead]]
              /\ UNCHANGED <<allocated, reissued>>
    /\ UNCHANGED sAllocList

\* The handle in the parcel: it cannot be created, there is none, it cannot be
\* registered and is lost, or the object owns it.
unflatten_handle(o, h, size, outcome) ==
    /\ call[o].op = "parcel"
    /\ call' = [call EXCEPT ![o] = Quiet]
    /\ IF outcome = "done"
       THEN gb' = [gb EXCEPT ![o] = [state |-> "live", size |-> size, handle |-> h,
                                     mOwner |-> "ownHandle"]]
       ELSE gb' = [gb EXCEPT ![o] = [gb[o] EXCEPT !.size = NoSize,
                       !.mOwner = IF outcome = "no memory" THEN gb[o].mOwner ELSE "ownHandle"]]
    /\ IF outcome \in {"register fails", "done"}
       THEN /\ h \notin allocated \cup natives /\ Cardinality(natives) < MaxHandles
            /\ natives' = natives \cup {h}
            /\ registered' = IF outcome = "done" THEN registered \cup {h} ELSE registered
       ELSE UNCHANGED <<natives, registered>>
    /\ UNCHANGED <<allocated, sAllocList, reissued>>

GbNext ==
    \E o \in Objects :
        \/ Construct(o) \/ alloc_record(o) \/ free_record(o) \/ Destroy(o)
        \/ \E s \in Sizes : ConstructSized(o, s) \/ reallocate(o, s)
        \/ \E s \in Sizes, h \in Handles : \E k \in BOOLEAN : Wrap(o, h, s, k)
        \/ \E r \in {"too large", "good"} : unflatten(o, r)
        \/ \E s \in Sizes, h \in Handles :
              \E r \in {"no memory", "empty", "register fails", "done"} :
                  unflatten_handle(o, h, s, r)

GbSpec == GbInit /\ [][GbNext]_gbvars

---------------------------------------------------------------------------
Owns(o, h) == gb[o].handle = h /\ gb[o].mOwner \in {"ownData", "ownHandle"}
              /\ call[o].op \notin {"remove", "refused"}

\* A handle has one owner at most, who finds it alive when it frees it: nothing
\* is freed twice or used after it was freed, also when a reallocation fails
\* half way.
OwnedOnce ==
    \A h \in Handles :
        /\ Cardinality({o \in Objects : Owns(o, h)}) <= 1
        /\ \A o \in Objects : Owns(o, h) =>
              IF gb[o].mOwner = "ownData" THEN h \in allocated
                                          ELSE h \in natives \cap registered

\* The handles of the calls that are doing op.
Doing(op) == {call[o].h : o \in {p \in Objects : call[p].op = op}}

\* The allocator's records are the buffers of the device, except between the two
\* steps of a call; only a handle that the device reissues while its old record
\* is being removed can go unrecorded.
RecordsFollowDevice == /\ sAllocList \subseteq allocated \cup Doing("remove")
                       /\ allocated \subseteq sAllocList \cup Doing("add") \cup reissued

---------------------------------------------------------------------------
\* The inductive invariant behind these two.  A call in the allocator is about
\* the object's own handle; an owner finds its handle alive, and the device and
\* the native handles never share one; a handle that is allocated although an
\* older record of it is being removed has been given out again.
States == {"dead", "live", "realloc", "parcel"}
Owners == {"none", "ownData", "ownHandle", "ownNone"}
Buffers == [state : States, mOwner : Owners, handle : Handles \cup {0},
            size : Sizes \cup {NoSize}]
Calls == [op : {"none", "add", "remove", "refused", "parcel"}, h : Handles \cup {0},
          then : Buffers]
GbTypeOK == /\ gb \in [Objects -> Buffers]
            /\ call \in [Objects -> Calls]
            /\ allocated \subseteq Handles /\ sAllocList \subseteq Handles
            /\ natives \subseteq Handles /\ registered \subseteq Handles
            /\ reissued \subseteq Handles
CallSound(o) ==
    /\ call[o].op \in {"add", "remove", "refused"} =>
          gb[o].handle # 0 /\ call[o].h = gb[o].handle /\ gb[o].mOwner = "ownData"
    /\ call[o].op = "parcel" => gb[o].handle = 0
    /\ call[o].op = "remove" /\ call[o].h \in allocated => call[o].h \in reissued
OwnerSound(o) ==
    gb[o].handle # 0 /\ call[o].op \notin {"remove", "refused"} =>
        /\ gb[o].mOwner = "ownData" => gb[o].handle \in allocated
        /\ gb[o].mOwner = "ownHandle" => gb[o].handle \in natives \cap registered
OwnersApart(o, p) == \A h \in Handles : Owns(o, h) /\ Owns(p, h) => o = p
GbInv == /\ GbTypeOK
         /\ allocated \cap natives = {}
         /\ \A o \in Objects : CallSound(o) /\ OwnerSound(o)
         /\ \A o, p \in Objects : OwnersApart(o, p)
         /\ RecordsFollowDevice
=============================================================================
