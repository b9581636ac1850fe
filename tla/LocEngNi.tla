------------------------------ MODULE LocEngNi ------------------------------
(***************************************************************************)
(* Network initiated requests (loc_eng_ni.cpp): the modem asks whether it  *)
(* may locate the device, the framework asks the user, and a thread per    *)
(* request waits for the user's response or a timeout and then queues the  *)
(* answer for the modem.  One request is in progress at a time.            *)
(*                                                                         *)
(* Three kinds of threads share loc_eng_ni_data: MsgTask (requests, modem  *)
(* restarts, answers), the request threads, and the framework's thread     *)
(* that responds.  tLock guards respRecvd and resp; rawRequest and reqID   *)
(* are also read and written without it, and every such access that        *)
(* matters is an action of its own.  A section under tLock is one action.  *)
(***************************************************************************)
EXTENDS Naturals, Sequences, FiniteSets

CONSTANTS MaxRequests,   \* bound on the requests of the modem
          MaxRestarts    \* bound on modem restarts

ASSUME NiAssumption == MaxRequests \in Nat /\ MaxRestarts \in Nat

Requests == 1 .. MaxRequests
NULL     == 0

VARIABLES rawRequest,  \* the request in progress, or NULL
          reqID,
          respRecvd,
          resp,        \* the request whose user responded, or NULL: NORESP
          handler,     \* where MsgTask is in a handler
          seen,        \* requests of the modem handled so far
          notifId,     \* the notification_id the framework was given
          asked,       \* requests the framework was notified of
          thread,      \* where the thread of each request is
          out,         \* the answer a thread has made, in a set of one or none
          messages,    \* LocEngInformNiResponse messages
          responding,  \* responses past the test of loc_eng_ni_respond
          answered,    \* answers the modem got for each request
          freed,       \* how often each payload was freed
          restarts

vars == <<rawRequest, reqID, respRecvd, resp, handler, seen, notifId, asked,
          thread, out, messages, responding, answered, freed, restarts>>

ThreadStates == {"none", "created", "waiting", "woken", "leaving", "gone"}
Waiting      == {"created", "waiting", "woken"}

(* rawRequest and the response for it, which may be another request's.     *)
Answer == [request : Requests, resp : Requests \cup {NULL}]

Init ==
  /\ rawRequest = NULL /\ reqID = 0 /\ respRecvd = FALSE /\ resp = NULL
  /\ handler = "idle" /\ seen = 0
  /\ notifId = [k \in Requests |-> 0] /\ asked = {}
  /\ thread = [k \in Requests |-> "none"]
  /\ out = [k \in Requests |-> {}]
  /\ messages = <<>> /\ responding = {}
  /\ answered = [k \in Requests |-> 0] /\ freed = [k \in Requests |-> 0]
  /\ restarts = 0

Free(k) == freed' = [freed EXCEPT ![k] = @ + 1]

-----------------------------------------------------------------------------
(* loc_eng_ni_request_handler: a request that finds another one in         *)
(* progress is ignored; otherwise it is saved, gets the current ID and a   *)
(* thread.                                                                 *)
request_handler ==
  /\ handler = "idle" /\ seen < MaxRequests
  /\ seen' = seen + 1
  /\ \/ /\ rawRequest # NULL
        /\ Free(seen')
        /\ UNCHANGED <<rawRequest, notifId, thread, handler>>
     \/ /\ rawRequest = NULL
        /\ rawRequest' = seen'
        /\ notifId' = [notifId EXCEPT ![seen'] = reqID]
        /\ thread' = [thread EXCEPT ![seen'] = "created"]
        /\ handler' = "notify"
        /\ UNCHANGED freed
  /\ UNCHANGED <<reqID, respRecvd, resp, asked, out, messages, responding,
                 answered, restarts>>

(* Its last step: ni_notify_cb, when the thread may already be running.    *)
ni_notify_cb ==
  /\ handler = "notify"
  /\ asked' = asked \cup {seen}
  /\ handler' = "idle"
  /\ UNCHANGED <<rawRequest, reqID, respRecvd, resp, seen, notifId, thread,
                 out, messages, responding, answered, freed, restarts>>

-----------------------------------------------------------------------------
(* Variant: the request in progress is not cleared.                        *)
finishKeepsRequest(k, response) ==
  /\ respRecvd' = FALSE
  /\ out' = [out EXCEPT ![k] =
               IF rawRequest = NULL THEN {}
               ELSE {[request |-> rawRequest, resp |-> response]}]
  /\ thread' = [thread EXCEPT ![k] = "leaving"]
  /\ UNCHANGED rawRequest

(* ni_thread_proc after its loop, still under tLock.                       *)
finish(k, response) ==
  /\ respRecvd' = FALSE
  /\ out' = [out EXCEPT ![k] =
               IF rawRequest = NULL THEN {}
               ELSE {[request |-> rawRequest, resp |-> response]}]
  /\ rawRequest' = NULL
  /\ thread' = [thread EXCEPT ![k] = "leaving"]

(* The loop of ni_thread_proc: the thread has tLock, for the first time or *)
(* after a wait.                                                           *)
threadTests(k) ==
  /\ thread[k] \in {"created", "woken"}
  /\ \/ respRecvd /\ finish(k, resp)
     \/ /\ ~respRecvd
        /\ thread' = [thread EXCEPT ![k] = "waiting"]
        /\ UNCHANGED <<rawRequest, respRecvd, out>>
  /\ UNCHANGED <<reqID, resp, handler, seen, notifId, asked, messages,
                 responding, answered, freed, restarts>>

(* Variant: a timeout goes back to waiting.                                *)
timeoutIgnored(k) ==
  /\ thread[k] \in {"waiting", "woken"}
  /\ resp' = NULL
  /\ thread' = [thread EXCEPT ![k] = "waiting"]
  /\ UNCHANGED <<rawRequest, reqID, respRecvd, handler, seen, notifId, asked,
                 out, messages, responding, answered, freed, restarts>>

(* pthread_cond_timedwait times out: no response, whatever came meanwhile. *)
threadTimesOut(k) ==
  /\ thread[k] \in {"waiting", "woken"}
  /\ resp' = NULL
  /\ finish(k, NULL)
  /\ UNCHANGED <<reqID, handler, seen, notifId, asked, messages, responding,
                 answered, freed, restarts>>

(* ni_thread_proc without tLock: reqID is counted and the answer queued.   *)
threadLeaves(k) ==
  /\ thread[k] = "leaving"
  /\ reqID' = reqID + 1
  /\ messages' = IF out[k] = {} THEN messages
                 ELSE Append(messages, CHOOSE a \in out[k] : TRUE)
  /\ out' = [out EXCEPT ![k] = {}]
  /\ thread' = [thread EXCEPT ![k] = "gone"]
  /\ UNCHANGED <<rawRequest, respRecvd, resp, handler, seen, notifId, asked,
                 responding, answered, freed, restarts>>

(* LocEngInformNiResponse: the modem gets the answer and the destructor    *)
(* frees the payload.                                                      *)
informNiResponse ==
  /\ handler = "idle" /\ messages # <<>>
  /\ LET k == Head(messages).request
     IN  Free(k) /\ answered' = [answered EXCEPT ![k] = @ + 1]
  /\ messages' = Tail(messages)
  /\ UNCHANGED <<rawRequest, reqID, respRecvd, resp, handler, seen, notifId,
                 asked, thread, out, responding, restarts>>

-----------------------------------------------------------------------------
(* pthread_cond_signal wakes one of the waiting threads, if there is one.  *)
Signal ==
  \/ /\ \A k \in Requests : thread[k] # "waiting"
     /\ UNCHANGED thread
  \/ \E k \in Requests : /\ thread[k] = "waiting"
                         /\ thread' = [thread EXCEPT ![k] = "woken"]

(* pthread_cond_timedwait may return early for no reason.                  *)
spuriousWakeup(k) ==
  /\ thread[k] = "waiting"
  /\ thread' = [thread EXCEPT ![k] = "woken"]
  /\ UNCHANGED <<rawRequest, reqID, respRecvd, resp, handler, seen, notifId,
                 asked, out, messages, responding, answered, freed, restarts>>

(* loc_eng_ni_respond, once per notification: the test without the lock... *)
respondTests(k) ==
  /\ k \in asked
  /\ asked' = asked \ {k}
  /\ responding' = IF notifId[k] = reqID /\ rawRequest # NULL
                   THEN responding \cup {k} ELSE responding
  /\ UNCHANGED <<rawRequest, reqID, respRecvd, resp, handler, seen, notifId,
                 thread, out, messages, answered, freed, restarts>>

(* ... and the rest with it.                                               *)
respondSets(k) ==
  /\ k \in responding
  /\ responding' = responding \ {k}
  /\ resp' = k /\ respRecvd' = TRUE
  /\ Signal
  /\ UNCHANGED <<rawRequest, reqID, handler, seen, notifId, asked, out,
                 messages, answered, freed, restarts>>

-----------------------------------------------------------------------------
(* loc_eng_ni_reset_on_engine_restart, from LocEngDown: without the lock,  *)
(* a request in progress is freed and then cleared; under it, its thread   *)
(* is told to go.                                                          *)
resetTests ==
  /\ handler = "idle" /\ restarts < MaxRestarts
  /\ restarts' = restarts + 1
  /\ handler' = IF rawRequest # NULL THEN "freeing" ELSE "idle"
  /\ UNCHANGED <<rawRequest, reqID, respRecvd, resp, seen, notifId, asked,
                 thread, out, messages, responding, answered, freed>>

resetFrees ==
  /\ handler = "freeing"
  /\ IF rawRequest = NULL THEN UNCHANGED freed ELSE Free(rawRequest)
  /\ handler' = "clearing"
  /\ UNCHANGED <<rawRequest, reqID, respRecvd, resp, seen, notifId, asked,
                 thread, out, messages, responding, answered, restarts>>

resetClears ==
  /\ handler = "clearing"
  /\ rawRequest' = NULL
  /\ handler' = "signalling"
  /\ UNCHANGED <<reqID, respRecvd, resp, seen, notifId, asked, thread, out,
                 messages, responding, answered, freed, restarts>>

resetSignals ==
  /\ handler = "signalling"
  /\ respRecvd' = TRUE
  /\ Signal
  /\ handler' = "idle"
  /\ UNCHANGED <<rawRequest, reqID, resp, seen, notifId, asked, out, messages,
                 responding, answered, freed, restarts>>

-----------------------------------------------------------------------------
Reset == resetTests \/ resetFrees \/ resetClears \/ resetSignals

Next ==
  \/ request_handler \/ ni_notify_cb \/ informNiResponse \/ Reset
  \/ \E k \in Requests :
       \/ threadTests(k) \/ threadTimesOut(k) \/ threadLeaves(k)
       \/ spuriousWakeup(k) \/ respondTests(k) \/ respondSets(k)

Spec == Init /\ [][Next]_vars

(* Threads run, timeouts end, MsgTask handles its messages; neither the    *)
(* user nor the modem has to do anything.                                  *)
FairSpec ==
  /\ Spec
  /\ WF_vars(ni_notify_cb) /\ WF_vars(informNiResponse)
  /\ WF_vars(resetFrees \/ resetClears \/ resetSignals)
  /\ \A k \in Requests : /\ WF_vars(threadTests(k))
                         /\ WF_vars(threadTimesOut(k))
                         /\ WF_vars(threadLeaves(k))

-----------------------------------------------------------------------------
(* The types of the variables.                                             *)
TypeOK ==
  /\ rawRequest \in Requests \cup {NULL}
  /\ reqID \in Nat /\ seen \in 0 .. MaxRequests
  /\ respRecvd \in BOOLEAN /\ resp \in Requests \cup {NULL}
  /\ handler \in {"idle", "notify", "freeing", "clearing", "signalling"}
  /\ notifId \in [Requests -> Nat]
  /\ asked \subseteq Requests /\ responding \subseteq Requests
  /\ thread \in [Requests -> ThreadStates]
  /\ out \in [Requests -> SUBSET Answer]
  /\ messages \in Seq(Answer)
  /\ answered \in [Requests -> Nat] /\ freed \in [Requests -> Nat]
  /\ restarts \in 0 .. MaxRestarts

(* The modem is answered at most once, whatever timeouts, user responses   *)
(* and restarts coincide.                                                  *)
AnsweredOnce == \A k \in Requests : answered[k] <= 1

(* Who has the payload of a request: the request in progress, answers the  *)
(* threads have made, messages of the queue.                               *)
InProgress(k) == IF rawRequest = k THEN 1 ELSE 0
WithThread(k) == Cardinality({j \in Requests : \E a \in out[j] : a.request = k})
InQueue(k)    == Cardinality({i \in DOMAIN messages : messages[i].request = k})

Owners(k) == InProgress(k) + WithThread(k) + InQueue(k)

(* As long as the modem does not restart, the payload of a request has one *)
(* owner after the other (rawRequest, the thread's message, the queue) and *)
(* the last one frees it: no leak, no second free, no use after the free.  *)
(* (The reset frees rawRequest without the lock, beside a thread that may  *)
(* be taking it.)                                                          *)
PayloadOwnedOnce ==
  restarts = 0 => \A k \in 1 .. seen : Owners(k) + freed[k] = 1

(* As long as the modem does not restart, a request in progress has its    *)
(* own thread to end it, and no other thread waits: nobody takes another   *)
(* request's answer or timeout for its own.                                *)
ThreadOwnsRequest ==
  restarts = 0 => \A k \in Requests : rawRequest = k <=> thread[k] \in Waiting

(* The three together: one answer, one owner, one thread for each request. *)
RequestsOwned == AnsweredOnce /\ PayloadOwnedOnce /\ ThreadOwnsRequest

(* What RequestsOwned rests on.  Whether the modem restarts or not, a      *)
(* request is with one owner or answered, and only a thread on its way out *)
(* has made an answer; a request yet to come has left no trace.            *)
HandlerSound == /\ handler \in {"freeing", "clearing", "signalling"} => restarts > 0
                /\ handler = "notify" => seen > 0

AnswersMade ==
  \A k \in Requests : /\ out[k] # {} => thread[k] = "leaving"
                      /\ out[k] = {} \/ \E a \in Answer : out[k] = {a}

NoneAhead ==
  \A k \in Requests : k > seen => /\ thread[k] = "none" /\ Owners(k) = 0
                                  /\ answered[k] = 0 /\ freed[k] = 0

OneOwner == \A k \in Requests : Owners(k) + answered[k] <= 1

NiInv ==
  /\ TypeOK /\ HandlerSound /\ AnswersMade /\ NoneAhead /\ OneOwner
  /\ PayloadOwnedOnce /\ ThreadOwnsRequest

(* "to timeout to clear up the notification status": a request is never in *)
(* progress for ever, so that later requests are not ignored for ever, and *)
(* the modem gets its answer, unless it restarts.                          *)
EveryRequestEnds ==
  \A k \in Requests :
    rawRequest = k ~> (rawRequest # k /\ (answered[k] > 0 \/ restarts > 0))

(* A response is never taken for the answer to another request: reqID is   *)
(* the "ID to check against response".                                     *)
AnswersOwn ==
  \A i \in DOMAIN messages :
    messages[i].resp \in {NULL, messages[i].request}
=============================================================================
