------------------------------- MODULE LocTimer ------------------------------
(***************************************************************************)
(* loc_timer.c: a one-shot timer on a detached thread of its own, which    *)
(* frees the timer's memory when it is done; whoever started it may stop   *)
(* it at any time.  The memory carries the mutex both threads take.        *)
(*                                                                         *)
(* A second passes while the thread sleeps between two attempts to destroy *)
(* the mutex; the stopping thread stays in its critical section for        *)
(* MaxHold seconds at most.                                                *)
(***************************************************************************)
EXTENDS Naturals

CONSTANTS MaxHold   \* seconds loc_timer_stop may hold the mutex

VARIABLES memory,     \* of timer_data
          state,      \* timer_data.state
          mutex,      \* who holds timer_mutex
          thread,     \* where timer_thread is
          ret,        \* what its wait has returned
          attempt,    \* i of the loop around pthread_mutex_destroy
          stopper,    \* where loc_timer_stop is
          held,       \* seconds it has held the mutex
          aborted,    \* "before" or "during" the wait, or "no"
          spurious,   \* the wait was woken without a signal
          fired       \* calls of callback_func

tmvars == <<memory, state, mutex, thread, ret, attempt, stopper, held, aborted,
            spurious, fired>>

TmInit ==
  /\ memory = "none" /\ state = "none" /\ mutex = "free"
  /\ thread = "none" /\ ret = "CANCELLED" /\ attempt = 0
  /\ stopper = "idle" /\ held = 0 /\ aborted = "no"
  /\ spurious = FALSE /\ fired = 0

-----------------------------------------------------------------------------
(* loc_timer_start.  Where one of its steps fails, the memory is freed and *)
(* its address returned nevertheless.                                      *)
loc_timer_start ==
  /\ memory = "none"
  /\ \/ memory' = "live" /\ state' = "READY" /\ thread' = "started"
     \/ memory' = "freed" /\ UNCHANGED <<state, thread>>
  /\ UNCHANGED <<mutex, ret, attempt, stopper, held, aborted, spurious, fired>>

(* The thread takes the mutex, and waits unless it was cancelled.          *)
beginWait ==
  /\ thread = "started" /\ mutex = "free"
  /\ \/ state = "READY" /\ state' = "WAITING" /\ thread' = "waiting"
     \/ state # "READY" /\ thread' = "ended" /\ UNCHANGED state
  /\ UNCHANGED <<memory, mutex, ret, attempt, stopper, held, aborted, spurious, fired>>

(* The time is up, or the wait ends without a reason.  The thread has the  *)
(* mutex to take before it can go on.                                      *)
wakeUp ==
  /\ thread = "waiting"
  /\ thread' = "woken"
  /\ \/ ret' = "TIMEDOUT" /\ UNCHANGED spurious
     \/ ret' = "OK" /\ spurious' = TRUE
  /\ UNCHANGED <<memory, state, mutex, attempt, stopper, held, aborted, fired>>

endWait ==
  /\ thread = "woken" /\ mutex = "free"
  /\ state' = "DONE"
  /\ thread' = "ended"
  /\ UNCHANGED <<memory, mutex, ret, attempt, stopper, held, aborted, spurious, fired>>

CallsBack == ret = "TIMEDOUT"

callback ==
  /\ thread = "ended"
  /\ fired' = IF CallsBack THEN fired + 1 ELSE fired
  /\ thread' = "destroying"
  /\ UNCHANGED <<memory, state, mutex, ret, attempt, stopper, held, aborted, spurious>>

(* Variant: a busy mutex is not waited for.                                *)
triedOnce == TRUE

LastAttempt == attempt = 5

(* pthread_mutex_destroy fails while the other thread holds the mutex.     *)
(* After five seconds the mutex is unlocked on its behalf.                 *)
destroyTimer ==
  /\ thread = "destroying"
  /\ \/ /\ mutex = "free"
        /\ memory' = "freed" /\ thread' = "gone"
        /\ UNCHANGED <<mutex, attempt, held>>
     \/ /\ mutex = "stopper" /\ ~LastAttempt /\ held < MaxHold
        /\ attempt' = attempt + 1 /\ held' = held + 1
        /\ UNCHANGED <<memory, thread, mutex>>
     \/ /\ mutex = "stopper" /\ LastAttempt
        /\ mutex' = "free"
        /\ UNCHANGED <<memory, thread, attempt, held>>
  /\ UNCHANGED <<state, ret, stopper, aborted, spurious, fired>>

-----------------------------------------------------------------------------
(* loc_timer_stop tests the state, without the mutex and whether or not    *)
(* the memory is still the timer's; what freed memory holds may be         *)
(* anything, and ends the modelled behaviour.                              *)
loc_timer_stop ==
  /\ stopper = "idle" /\ memory # "none"
  /\ stopper' = IF memory = "freed" THEN "lost"
                ELSE IF state \in {"READY", "WAITING"} THEN "locking" ELSE "idle"
  /\ stopper' # stopper
  /\ UNCHANGED <<memory, state, mutex, thread, ret, attempt, held, aborted, spurious,
                 fired>>

stopLocks ==
  /\ stopper = "locking"
  /\ \/ memory = "freed" /\ stopper' = "lost" /\ UNCHANGED mutex
     \/ memory = "live" /\ mutex = "free" /\ mutex' = "stopper" /\ stopper' = "locked"
  /\ UNCHANGED <<memory, state, thread, ret, attempt, held, aborted, spurious, fired>>

(* The state is tested again; a thread that still waits is signalled.      *)
stopAborts ==
  /\ stopper = "locked" /\ memory = "live"
  /\ \/ /\ state \in {"READY", "WAITING"}
        /\ state' = "ABORT"
        /\ aborted' = IF state = "READY" THEN "before" ELSE "during"
        /\ thread' = IF thread = "waiting" THEN "woken" ELSE thread
        /\ ret' = IF thread = "waiting" THEN "OK" ELSE ret
     \/ /\ state \notin {"READY", "WAITING"}
        /\ UNCHANGED <<state, aborted, thread, ret>>
  /\ stopper' = "unlocking"
  /\ UNCHANGED <<memory, mutex, attempt, held, spurious, fired>>

stopUnlocks ==
  /\ stopper \in {"locked", "unlocking"}
  /\ \/ /\ stopper = "unlocking" /\ memory = "live"
        /\ mutex' = "free" /\ stopper' = "done"
     \/ memory = "freed" /\ stopper' = "lost" /\ UNCHANGED mutex
  /\ UNCHANGED <<memory, state, thread, ret, attempt, held, aborted, spurious, fired>>

TmNext == loc_timer_start \/ beginWait \/ wakeUp \/ endWait \/ callback
          \/ destroyTimer \/ loc_timer_stop \/ stopLocks \/ stopAborts \/ stopUnlocks

(* Threads run, a wait times out, and a critical section ends.             *)
TmSpec ==
  /\ TmInit /\ [][TmNext]_tmvars
  /\ WF_tmvars(beginWait \/ wakeUp \/ endWait \/ callback \/ destroyTimer)
  /\ WF_tmvars(stopAborts \/ stopUnlocks)

-----------------------------------------------------------------------------
(* The thread of a timer neither frees it under a loc_timer_stop that is   *)
(* inside its critical section for less than the five seconds of its       *)
(* attempts ("Should be eanough time for loc_timer_stop to complete") nor  *)
(* calls back for a timer stopped before it waited; and it never calls     *)
(* back twice.  One stopped while it waits may still call back, if its     *)
(* time was up before the signal.                                          *)
TimerSound ==
  /\ stopper \in {"locked", "unlocking"} /\ held < 5 => memory = "live" /\ mutex = "stopper"
  /\ aborted = "before" => fired = 0
  /\ fired <= 1

(* What TimerSound rests on.  The seconds loc_timer_stop has held the      *)
(* mutex are the failed attempts to destroy it, so the mutex is taken from *)
(* it after five only; and a timer stopped before its thread waited leaves *)
(* that thread nothing to call back for.                                   *)
TimerInv ==
  /\ memory = "none" => thread = "none" /\ stopper = "idle"
  /\ attempt \in 0 .. 5 /\ held = attempt
  /\ stopper \in {"idle", "locking", "locked", "unlocking", "done", "lost"}
  /\ mutex = "stopper" => memory = "live" /\ stopper \in {"locked", "unlocking"}
  /\ stopper \in {"locked", "unlocking"} /\ attempt < 5 => mutex = "stopper"
  /\ thread \in {"none", "started", "waiting", "woken", "ended", "destroying", "gone"}
  /\ fired \in {0, 1}
  /\ fired = 1 => thread \in {"destroying", "gone"}
  /\ thread \in {"none", "started"} => ret = "CANCELLED"
  /\ state = "READY" => thread = "started"
  /\ stopper \in {"idle", "locking", "locked"} => aborted = "no"
  /\ aborted = "before" => /\ ret = "CANCELLED" /\ fired = 0
                           /\ thread \notin {"waiting", "woken"}
                           /\ thread = "started" => state = "ABORT"

(* Every timer that was started frees its memory in the end, and has       *)
(* called back unless it was stopped or woken for no reason.               *)
TimerEnds ==
  thread = "started" ~> thread = "gone" /\ (fired = 1 \/ aborted # "no" \/ spurious)
=============================================================================
