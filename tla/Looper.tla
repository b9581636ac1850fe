------------------------------- MODULE Looper -------------------------------
(***************************************************************************)
(* libshims/utils/Looper.cpp: one thread polls; any thread sends messages,  *)
(* registers and removes file descriptors and wakes the poll.  What the     *)
(* code does while it holds mLock is one step; the lock is free while the   *)
(* thread waits in epoll_wait, runs a message handler or runs a callback,   *)
(* and a sender wakes the poll only after it has released the lock.         *)
(***************************************************************************)
EXTENDS Integers, Sequences, FiniteSets, SequencesExt

CONSTANTS Fds, Whats,
          Timeouts,    \* arguments of pollOnce and pollAll; -1 waits for ever
          MaxTime,
          Quotas       \* bounds: how many messages and registrations a behaviour has

VARIABLES now,                \* systemTime
          mMessageEnvelopes,  \* [uptime, what, id], soonest first
          mRequests,          \* the registration of every fd
          ready,              \* fds with data; epoll is level triggered
          wakePipe,           \* bytes in the wake pipe
          waking,             \* senders between unlock and wake()
          thread,             \* the polling thread
          pending,            \* messages sent, not removed, not delivered
          owed,               \* signalled fds without callback, not yet returned
          left                \* the messages and registrations still to come

lpvars == <<now, mMessageEnvelopes, mRequests, ready, wakePipe, waking, thread,
            pending, owed, left>>

Never == MaxTime + 1          \* LLONG_MAX
PipeSize == 1                 \* bound: awoken empties the pipe however full it is
NoRequest == [kind |-> "none", reg |-> 0]
NoMessage == [uptime |-> 0, what |-> 0, id |-> 0]

\* The polling thread in its caller, with the responses it still has to return.
InCaller(responses, index, next, current) ==
    [pc |-> "idle", timeout |-> 0, all |-> FALSE, end |-> 0, deadline |-> 0,
     result |-> "none", got |-> {}, woke |-> FALSE, responses |-> responses,
     index |-> index, cb |-> 0, next |-> next, current |-> current]

mSendingMessage == thread.pc = "sending"

LpInit ==
    /\ now = 0 /\ mMessageEnvelopes = <<>> /\ mRequests = [f \in Fds |-> NoRequest]
    /\ ready = {} /\ wakePipe = 0 /\ waking = 0 /\ pending = {} /\ owed = {}
    /\ left \in Quotas
    /\ thread = InCaller(<<>>, 0, Never, NoMessage)

---------------------------------------------------------------------------
\* The polling thread.

Deadline(t) ==
    LET asked == IF t.timeout < 0 THEN Never ELSE now + t.timeout
    IN IF t.timeout # 0 /\ t.next < asked THEN t.next ELSE asked

\* pollInner up to epoll_wait.  A message that is due makes the timeout 0.
pollInner(t) ==
    thread' = [t EXCEPT !.pc = "wait", !.deadline = Deadline(t), !.result = "WAKE",
                        !.responses = <<>>, !.index = 0, !.cb = 0,
                        !.got = {}, !.woke = FALSE]

\* The next response that has no callback, 0 when there is none left.
NextIdent(t) ==
    LET rest == {i \in DOMAIN t.responses : i > t.index /\ t.responses[i].kind = "ident"}
    IN IF rest = {} THEN 0 ELSE CHOOSE i \in rest : \A j \in rest : i <= j

\* Back in the caller; only the responses it has not had yet matter any more.
Return(t, index) ==
    IF index = Len(t.responses) THEN InCaller(<<>>, 0, t.next, t.current)
    ELSE InCaller(t.responses, index, t.next, t.current)

\* pollAll polls again after callbacks, with what is left of the timeout.
PollsAgain(t) == t.all /\ t.result = "CALLBACK" /\ (t.timeout > 0 => now < t.end)

\* The loop of pollOnce: the responses that the caller has to handle, then the
\* result of the poll, then another poll.
pollOnce(t) ==
    IF NextIdent(t) # 0
    THEN /\ thread' = Return(t, NextIdent(t))
         /\ owed' = owed \ {t.responses[NextIdent(t)].fd}
    ELSE /\ UNCHANGED owed
         /\ IF t.result = "none" THEN pollInner(t)
            ELSE IF PollsAgain(t)
            THEN pollInner([t EXCEPT !.timeout = IF @ > 0 THEN t.end - now ELSE @])
            ELSE thread' = Return(t, Len(t.responses))

Poll(timeout, all) ==
    /\ thread.pc = "idle"
    /\ pollOnce([thread EXCEPT !.timeout = timeout, !.all = all,
                               !.end = IF timeout > 0 THEN now + timeout ELSE 0])
    /\ UNCHANGED <<now, mMessageEnvelopes, mRequests, ready, wakePipe, waking, pending, left>>

\* epoll_wait returns: with the events there are, at the timeout, interrupted,
\* or with an error.
EpollReturns ==
    /\ thread.pc = "wait"
    /\ LET evs == {f \in ready : mRequests[f] # NoRequest}
           Ends(r, e, w) == thread' = [thread EXCEPT !.pc = "got", !.result = r,
                                                     !.got = e, !.woke = w]
       IN \/ (evs # {} \/ wakePipe > 0)
             /\ Ends("WAKE", evs, wakePipe > 0)
          \/ evs = {} /\ wakePipe = 0 /\ now >= thread.deadline
             /\ Ends("TIMEOUT", {}, FALSE)
          \/ Ends("WAKE", {}, FALSE)
          \/ Ends("ERROR", {}, FALSE)
    /\ UNCHANGED <<now, mMessageEnvelopes, mRequests, ready, wakePipe, waking,
                   pending, owed, left>>

\* The message loop, with mLock held: the head is sent when it is due, else it
\* sets the time of the next wakeup.
SendOrSchedule(t) ==
    IF mMessageEnvelopes # <<>> /\ Head(mMessageEnvelopes).uptime <= now
    THEN /\ thread' = [t EXCEPT !.pc = "sending", !.current = Head(mMessageEnvelopes)]
         /\ mMessageEnvelopes' = Tail(mMessageEnvelopes)
         /\ pending' = pending \ {Head(mMessageEnvelopes)}
    ELSE /\ thread' = [t EXCEPT !.pc = "responses", !.current = NoMessage,
                 !.next = IF mMessageEnvelopes = <<>> THEN Never
                          ELSE Head(mMessageEnvelopes).uptime]
         /\ UNCHANGED <<mMessageEnvelopes, pending>>

\* The events become responses, unless their fd has been removed since; awoken
\* empties the pipe.
HandleEvents ==
    LET known == {f \in thread.got : mRequests[f] # NoRequest}
        response(f) == [fd |-> f, kind |-> mRequests[f].kind, reg |-> mRequests[f].reg]
    IN /\ thread.pc = "got"
       /\ SendOrSchedule([thread EXCEPT !.responses =
              LET s == SetToSeq(known) IN [i \in DOMAIN s |-> response(s[i])]])
       /\ owed' = {f \in known : mRequests[f].kind = "ident"}
       /\ wakePipe' = IF thread.woke THEN 0 ELSE wakePipe
       /\ UNCHANGED <<now, mRequests, ready, waking, left>>

\* handleMessage has returned.
HandlerReturns ==
    /\ thread.pc = "sending"
    /\ SendOrSchedule([thread EXCEPT !.result = "CALLBACK"])
    /\ UNCHANGED <<now, mRequests, ready, wakePipe, waking, owed, left>>

\* The callbacks of the responses, in order; then pollOnce goes on.
NextCallback ==
    LET rest == {i \in DOMAIN thread.responses :
                    i > thread.cb /\ thread.responses[i].kind = "callback"}
    IN /\ thread.pc = "responses"
       /\ IF rest = {} THEN pollOnce(thread)
          ELSE /\ thread' = [thread EXCEPT !.pc = "callback",
                                 !.cb = CHOOSE i \in rest : \A j \in rest : i <= j]
               /\ UNCHANGED owed
       /\ UNCHANGED <<now, mMessageEnvelopes, mRequests, ready, wakePipe, waking,
                      pending, left>>

\* handleEvent returns 1, or 0: then whatever is registered for the fd is removed.
CallbackReturns(keep) ==
    /\ thread.pc = "callback"
    /\ thread' = [thread EXCEPT !.pc = "responses", !.result = "CALLBACK"]
    /\ mRequests' = IF keep THEN mRequests
                    ELSE [mRequests EXCEPT ![thread.responses[thread.cb].fd] = NoRequest]
    /\ UNCHANGED <<now, mMessageEnvelopes, ready, wakePipe, waking, pending, owed, left>>

---------------------------------------------------------------------------
\* Any thread, the polling one in a handler or callback included.

\* Variant: only a polling thread is woken.
wakesWhenPolling(i) == i = 0 /\ thread.pc = "wait"

\* A sender that put its message at the head wakes the poll, unless a message is
\* being sent: the loop then looks at the queue again.
NeedsWake(i) == i = 0 /\ ~mSendingMessage

\* Variant: a message is put before those of the same time.
placeBeforeEqual(uptime) ==
    Cardinality({i \in DOMAIN mMessageEnvelopes : uptime > mMessageEnvelopes[i].uptime})

\* Behind every message that is not later; the queue is in order of time.
PlaceOf(uptime) ==
    Cardinality({i \in DOMAIN mMessageEnvelopes : uptime >= mMessageEnvelopes[i].uptime})

\* sendMessage, sendMessageDelayed and sendMessageAtTime.
sendMessageAtTime(uptime, what) ==
    LET m == [uptime |-> uptime, what |-> what, id |-> -left.sends]
        i == PlaceOf(uptime)
    IN /\ left.sends > 0
       /\ left' = [left EXCEPT !.sends = @ - 1]
       /\ mMessageEnvelopes' = InsertAt(mMessageEnvelopes, i + 1, m)
       /\ pending' = pending \cup {m}
       /\ waking' = waking + (IF NeedsWake(i) THEN 1 ELSE 0)
       /\ UNCHANGED <<now, mRequests, ready, wakePipe, thread, owed>>

\* A write to a full pipe fails and is not needed.
wake ==
    /\ waking > 0
    /\ waking' = waking - 1
    /\ wakePipe' = IF wakePipe < PipeSize THEN wakePipe + 1 ELSE wakePipe
    /\ UNCHANGED <<now, mMessageEnvelopes, mRequests, ready, thread, pending, owed, left>>

\* removeMessages of a handler, or of one kind of message.
removeMessages(whats) ==
    LET stays == {i \in DOMAIN mMessageEnvelopes :
                     mMessageEnvelopes[i].what \notin whats}
    IN /\ mMessageEnvelopes # <<>>
       /\ \E place \in [1..Cardinality(stays) -> stays] :
             /\ \A i, j \in DOMAIN place : i < j => place[i] < place[j]
             /\ mMessageEnvelopes' = [i \in DOMAIN place |-> mMessageEnvelopes[place[i]]]
       /\ pending' = {m \in pending : m.what \notin whats}
       /\ UNCHANGED <<now, mRequests, ready, wakePipe, waking, thread, owed, left>>

\* addFd adds or replaces.
addFd(f, kind) ==
    /\ left.regs > 0
    /\ left' = [left EXCEPT !.regs = @ - 1]
    /\ mRequests' = [mRequests EXCEPT ![f] = [kind |-> kind, reg |-> left.regs]]
    /\ UNCHANGED <<now, mMessageEnvelopes, ready, wakePipe, waking, thread, pending, owed>>

removeFd(f) ==
    /\ mRequests[f] # NoRequest
    /\ mRequests' = [mRequests EXCEPT ![f] = NoRequest]
    /\ UNCHANGED <<now, mMessageEnvelopes, ready, wakePipe, waking, thread, pending,
                   owed, left>>

DataArrivesOrIsRead(f) ==
    /\ ready' = IF f \in ready THEN ready \ {f} ELSE ready \cup {f}
    /\ UNCHANGED <<now, mMessageEnvelopes, mRequests, wakePipe, waking, thread, pending,
                   owed, left>>

Tick == /\ now < MaxTime
        /\ now' = now + 1
        /\ UNCHANGED <<mMessageEnvelopes, mRequests, ready, wakePipe, waking, thread,
                       pending, owed, left>>

LpNext ==
    \/ \E d \in Timeouts, all \in BOOLEAN : Poll(d, all)
    \/ EpollReturns \/ HandleEvents \/ HandlerReturns \/ NextCallback
    \/ \E keep \in BOOLEAN : CallbackReturns(keep)
    \/ \E u \in now..MaxTime, w \in Whats : sendMessageAtTime(u, w)
    \/ wake
    \/ removeMessages(Whats) \/ \E w \in Whats : removeMessages({w})
    \/ \E f \in Fds :
          \/ \E kind \in {"callback", "ident"} : addFd(f, kind)
          \/ removeFd(f) \/ DataArrivesOrIsRead(f)
    \/ Tick

LpSpec == LpInit /\ [][LpNext]_lpvars

---------------------------------------------------------------------------
\* No message is slept over: while the thread waits, a message due before the
\* end of the wait has its wakeup in the pipe or in the hands of its sender.
NoMessageSleptOver ==
    thread.pc = "wait" /\ thread.timeout # 0 =>
        \A m \in pending : m.uptime < thread.deadline => wakePipe > 0 \/ waking > 0

\* A message is delivered when it is due, once, not after removeMessages, and
\* before every message that is later or was sent later for the same time.
DeliversEarliest ==
    [][LET m == thread'.current
       IN m # thread.current /\ m # NoMessage =>
            /\ m \in pending /\ m.uptime <= now
            /\ \A n \in pending : \/ m.uptime < n.uptime
                                  \/ m.uptime = n.uptime /\ m.id <= n.id]_thread

\* Every fd without a callback that a poll found ready is returned to the caller
\* before the next poll throws the responses away.
NoEventDropped == thread.pc = "wait" => owed = {}

---------------------------------------------------------------------------
\* The inductive invariant.
Message == [uptime : Int, what : Whats, id : Int]
Response == [fd : Fds, kind : {"callback", "ident"}, reg : Int]
PollingThread ==
    [pc : {"idle", "wait", "got", "sending", "responses", "callback"},
     timeout : Int, all : BOOLEAN, end : Int, deadline : Int,
     result : {"none", "WAKE", "TIMEOUT", "ERROR", "CALLBACK"},
     got : SUBSET Fds, woke : BOOLEAN, responses : Seq(Response),
     index : Nat, cb : Nat, next : Int, current : Message \cup {NoMessage}]

LpTypeOK ==
    /\ now \in Int /\ left \in [sends : Nat, regs : Nat]
    /\ mMessageEnvelopes \in Seq(Message)
    /\ mRequests \in [Fds -> {NoRequest} \cup [kind : {"callback", "ident"}, reg : Int]]
    /\ ready \subseteq Fds /\ wakePipe \in Nat /\ waking \in Nat
    /\ thread \in PollingThread

\* The queue holds what is pending, in order of time and sending.
QueueInOrder ==
    /\ pending = {mMessageEnvelopes[i] : i \in DOMAIN mMessageEnvelopes}
    /\ \A i \in DOMAIN mMessageEnvelopes : mMessageEnvelopes[i].id < -left.sends
    /\ \A i, j \in DOMAIN mMessageEnvelopes : i < j =>
          \/ mMessageEnvelopes[i].uptime < mMessageEnvelopes[j].uptime
          \/ /\ mMessageEnvelopes[i].uptime = mMessageEnvelopes[j].uptime
             /\ mMessageEnvelopes[i].id < mMessageEnvelopes[j].id

\* Outside the message loop, a message that is due before the next wakeup has
\* its own; a wait ends by then.
WakeupScheduled ==
    /\ thread.pc \notin {"got", "sending"} =>
          \A m \in pending : m.uptime < thread.next => wakePipe > 0 \/ waking > 0
    /\ thread.pc = "wait" /\ thread.timeout # 0 => thread.deadline <= thread.next

\* What is owed to the caller is among the responses it has not had.
OwedIn(fds, t) == \A f \in fds : \E i \in DOMAIN t.responses :
    i > t.index /\ t.responses[i].kind = "ident" /\ t.responses[i].fd = f

OwedResponses ==
    /\ OwedIn(owed, thread)
    /\ thread.pc # "idle" => thread.index = 0
    /\ thread.pc \in {"wait", "got"} => thread.responses = <<>>

LpInv == LpTypeOK /\ QueueInOrder /\ WakeupScheduled /\ OwedResponses

=============================================================================
