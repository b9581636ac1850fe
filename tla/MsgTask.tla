------------------------------- MODULE MsgTask ------------------------------
(***************************************************************************)
(* MsgTask and the msg_q it is built on: the single thread on which every  *)
(* handler of the GPS HAL runs.  Framework threads, modem callbacks, timer *)
(* threads and the handlers themselves send messages; loopMain receives    *)
(* and handles them one at a time until ~MsgTask unblocks the queue.       *)
(*                                                                         *)
(* msg_q_snd, msg_q_unblock and the parts of msg_q_rcv before and after    *)
(* its pthread_cond_wait are critical sections of list_mutex, and one      *)
(* action each.  linked_list_add puts a message at the head of the list    *)
(* and linked_list_remove takes the tail; list is written oldest first.    *)
(***************************************************************************)
EXTENDS Naturals, Sequences, FiniteSets, Functions

CONSTANTS Senders, MaxMsgs   \* bound on the messages of each sender

VARIABLES list,       \* msg_list, oldest first
          unblocked,
          destroyed,  \* msg_q_destroy has freed the queue
          loop,       \* where loopMain is
          msg,        \* the message it handles, in a sequence of one or none
          sent,       \* messages each sender has made, numbered from 1
          handled,    \* messages of each sender whose proc() has returned
          leaked,     \* messages msg_q_snd turned away: nobody deletes them
          flushed     \* messages deleted unhandled by msg_q_destroy

vars == <<list, unblocked, destroyed, loop, msg, sent, handled, leaked,
          flushed>>

Message == [from : Senders, number : Nat]

(* "listening" before msg_q_rcv, "asleep" in its wait, "woken" before the  *)
(* lock is held again, "handling" in proc(), "failed" after msg_q_rcv has  *)
(* returned an error, "gone" after loopMain has returned.                  *)
LoopStates == {"listening", "asleep", "woken", "handling", "failed", "gone"}

None == [s \in Senders |-> 0]

Init ==
  /\ list = <<>> /\ unblocked = FALSE /\ destroyed = FALSE
  /\ loop = "listening" /\ msg = <<>>
  /\ sent = None /\ handled = None /\ leaked = None /\ flushed = None

-----------------------------------------------------------------------------
Woken == IF loop = "asleep" THEN "woken" ELSE loop

(* Variants: the message is added at the wrong end; the signal is left     *)
(* out.                                                                    *)
sendInFront(s) ==
  /\ ~destroyed /\ sent[s] < MaxMsgs
  /\ sent' = [sent EXCEPT ![s] = @ + 1]
  /\ \/ /\ unblocked
        /\ leaked' = [leaked EXCEPT ![s] = @ + 1]
        /\ UNCHANGED <<list, loop>>
     \/ /\ ~unblocked
        /\ list' = <<[from |-> s, number |-> sent[s] + 1]>> \o list
        /\ loop' = Woken
        /\ UNCHANGED leaked
  /\ UNCHANGED <<unblocked, destroyed, msg, handled, flushed>>

sendWithoutSignal(s) ==
  /\ ~destroyed /\ sent[s] < MaxMsgs
  /\ sent' = [sent EXCEPT ![s] = @ + 1]
  /\ \/ /\ unblocked
        /\ leaked' = [leaked EXCEPT ![s] = @ + 1]
        /\ UNCHANGED list
     \/ /\ ~unblocked
        /\ list' = Append(list, [from |-> s, number |-> sent[s] + 1])
        /\ UNCHANGED leaked
  /\ UNCHANGED <<unblocked, destroyed, loop, msg, handled, flushed>>

(* MsgTask::sendMsg and msg_q_snd.  A queue that was unblocked takes no    *)
(* message; sendMsg ignores that, and the message is lost.                 *)
sendMsg(s) ==
  /\ ~destroyed /\ sent[s] < MaxMsgs
  /\ sent' = [sent EXCEPT ![s] = @ + 1]
  /\ \/ /\ unblocked
        /\ leaked' = [leaked EXCEPT ![s] = @ + 1]
        /\ UNCHANGED <<list, loop>>
     \/ /\ ~unblocked
        /\ list' = Append(list, [from |-> s, number |-> sent[s] + 1])
        /\ loop' = Woken
        /\ UNCHANGED leaked
  /\ UNCHANGED <<unblocked, destroyed, msg, handled, flushed>>

(* linked_list_remove and the return of msg_q_rcv.                         *)
remove ==
  \/ /\ list = <<>>
     /\ loop' = "failed"
     /\ UNCHANGED <<list, msg>>
  \/ /\ list # <<>>
     /\ msg' = <<Head(list)>> /\ list' = Tail(list)
     /\ loop' = "handling"

(* msg_q_rcv up to its first wait.                                         *)
msg_q_rcv ==
  /\ loop = "listening"
  /\ \/ unblocked /\ loop' = "failed" /\ UNCHANGED <<list, msg>>
     \/ /\ ~unblocked /\ list = <<>>
        /\ loop' = "asleep"
        /\ UNCHANGED <<list, msg>>
     \/ ~unblocked /\ list # <<>> /\ remove
  /\ UNCHANGED <<unblocked, destroyed, sent, handled, leaked, flushed>>

(* msg_q_rcv after a wait: the loop tests its condition again.             *)
rcvResumes ==
  /\ loop = "woken"
  /\ \/ /\ ~unblocked /\ list = <<>>
        /\ loop' = "asleep"
        /\ UNCHANGED <<list, msg>>
     \/ (unblocked \/ list # <<>>) /\ remove
  /\ UNCHANGED <<unblocked, destroyed, sent, handled, leaked, flushed>>

(* proc() has returned and the message is deleted.                         *)
procReturns ==
  /\ loop = "handling"
  /\ handled' = [handled EXCEPT ![msg[1].from] = @ + 1]
  /\ msg' = <<>>
  /\ loop' = "listening"
  /\ UNCHANGED <<list, unblocked, destroyed, sent, leaked, flushed>>

CountFrom(s, q) == Cardinality({k \in DOMAIN q : q[k].from = s})

(* msg_q_destroy deletes what is still listed, and loopMain returns.       *)
msg_q_destroy ==
  /\ loop = "failed"
  /\ flushed' = [s \in Senders |-> flushed[s] + CountFrom(s, list)]
  /\ list' = <<>>
  /\ destroyed' = TRUE
  /\ loop' = "gone"
  /\ UNCHANGED <<unblocked, msg, sent, handled, leaked>>

(* ~MsgTask and msg_q_unblock.                                             *)
msg_q_unblock ==
  /\ ~unblocked
  /\ unblocked' = TRUE
  /\ loop' = Woken
  /\ UNCHANGED <<list, destroyed, msg, sent, handled, leaked, flushed>>

(* pthread_cond_wait may return without a signal.                          *)
spuriousWakeup ==
  /\ loop = "asleep"
  /\ loop' = "woken"
  /\ UNCHANGED <<list, unblocked, destroyed, msg, sent, handled, leaked,
                 flushed>>

loopMain == msg_q_rcv \/ rcvResumes \/ procReturns \/ msg_q_destroy

Next ==
  \/ \E s \in Senders : sendMsg(s)
  \/ loopMain
  \/ msg_q_unblock
  \/ spuriousWakeup

Spec == Init /\ [][Next]_vars

(* The thread runs and every proc() returns; nobody has to send, to        *)
(* destroy the task or to wake up for nothing.                             *)
FairSpec == Spec /\ WF_vars(loopMain)

-----------------------------------------------------------------------------
(* The types of the variables.                                             *)
TypeOK ==
  /\ list \in Seq(Message) /\ msg \in Seq(Message)
  /\ unblocked \in BOOLEAN /\ destroyed \in BOOLEAN
  /\ loop \in LoopStates
  /\ (loop = "handling") <=> (Len(msg) = 1)
  /\ sent \in [Senders -> Nat] /\ handled \in [Senders -> Nat]
  /\ leaked \in [Senders -> Nat] /\ flushed \in [Senders -> Nat]

(* Messages not handled yet, oldest first.                                 *)
Outstanding == msg \o list

(* Handlers run in the order in which the messages were sent: of each      *)
(* sender the outstanding messages are the ones after those handled, in    *)
(* ascending order.                                                        *)
InOrder ==
  \A i, j \in DOMAIN Outstanding :
    /\ i < j /\ Outstanding[i].from = Outstanding[j].from =>
         Outstanding[i].number < Outstanding[j].number
    /\ Outstanding[i].number > handled[Outstanding[i].from]

(* Every message is handled once, deleted with the queue, turned away, or  *)
(* outstanding; none is in two of these places or in none.                 *)
Accounted ==
  \A s \in Senders :
    sent[s] = handled[s] + CountFrom(s, Outstanding) + flushed[s] + leaked[s]

(* The thread sleeps only while there is nothing to receive and the queue  *)
(* is in use.                                                              *)
NoLostWakeup == loop = "asleep" => list = <<>> /\ ~unblocked

(* loopMain returns only when the task is destroyed: a wakeup that finds   *)
(* the list empty never makes msg_q_rcv fail.                              *)
EndsOnlyUnblocked == loop \in {"failed", "gone"} => unblocked

(* The four together: no message is lost, repeated or slept over.          *)
MessagesHandled == InOrder /\ Accounted /\ NoLostWakeup /\ EndsOnlyUnblocked

(* What MessagesHandled rests on: msg is empty between two messages, and   *)
(* no outstanding message has a number its sender has yet to give.         *)
TaskInv ==
  /\ TypeOK /\ MessagesHandled
  /\ loop # "handling" => msg = <<>>
  /\ \A i \in DOMAIN Outstanding : Outstanding[i].number <= sent[Outstanding[i].from]

(* Every message sent before the queue is unblocked is handled, or deleted *)
(* when the thread ends.                                                   *)
EveryMessageEnds ==
  \A s \in Senders, k \in 1 .. MaxMsgs :
    (\E i \in DOMAIN list : list[i] = [from |-> s, number |-> k]) ~>
      (handled[s] >= k \/ destroyed)

(* ~MsgTask ends the thread and frees the queue, also when the thread is   *)
(* asleep or handling a message at that moment.                            *)
UnblockEnds == unblocked ~> (loop = "gone" /\ destroyed)
=============================================================================
