----------------------------- MODULE ReplyHandler -----------------------------
(***************************************************************************)
(* A command to a board and its reply, on one plane: the thread that calls *)
(* _send_command_and_wait_reply (client_command_service.py), the table of  *)
(* waiters (common/reply_handler.py), the I/O thread that sends the queued *)
(* messages, delivers the replies and cancels the waiters of a lost board, *)
(* and connect, which clears the queues.  A key is used by one call only:  *)
(* request ids are fresh.                                                  *)
(***************************************************************************)
EXTENDS Sequences

CONSTANTS
    Boards,           \* the boards
    RequestIds         \* request ids of the calls on one board

VARIABLES
    on_plane,          \* boards registered on the plane
    cancelling,        \* boards removed, whose waiters are not cancelled yet
    clearing,          \* clear_queues has cancelled and is emptying the queue
    caller,            \* per call: the step of its thread
    result,            \* per call: what it returned
    reply_waiters,     \* keys of _reply_waiters
    message,           \* keys whose PendingReply got its message
    error,             \* keys whose PendingReply got an error
    outgoing,          \* the queue of the I/O thread
    sent,              \* at the board, which has not answered yet
    in_time,           \* history: answered while the call was on
    blind              \* history: registered when the board was already off

Keys == Boards \X RequestIds

plane == <<on_plane, cancelling>>
calls == <<caller, result>>
table == <<reply_waiters, message, error>>
wire == <<outgoing, sent>>
replyVars == <<plane, clearing, calls, table, wire, in_time, blind>>

RepliesInit ==
    /\ on_plane = Boards /\ cancelling = {} /\ clearing = FALSE
    /\ caller = [k \in Keys |-> "idle"] /\ result = [k \in Keys |-> "none"]
    /\ reply_waiters = {} /\ message = {} /\ error = {}
    /\ outgoing = <<>> /\ sent = {}
    /\ in_time = {} /\ blind = {}

\* The call goes from one step to the next.
Moves(k, from, to) == caller[k] = from /\ caller' = [caller EXCEPT ![k] = to]

Returns(k, what) == result' = [result EXCEPT ![k] = what]

------------------------------------------------------------------------------
(* The calling thread *)

CheckPlane(k) ==
    /\ \/ /\ k[1] \in on_plane
          /\ Moves(k, "idle", "checked")
          /\ UNCHANGED result
       \/ /\ k[1] \notin on_plane
          /\ Moves(k, "idle", "returned")
          /\ Returns(k, "unavailable")
    /\ UNCHANGED <<plane, clearing, table, wire, in_time, blind>>

\* queue_message: "The waiter must exist before the command leaves, or a fast
\* reply is lost".
RegisterPendingReply(k) ==
    /\ Moves(k, "checked", "registered")
    /\ reply_waiters' = reply_waiters \cup {k}
    /\ blind' = IF k[1] \in on_plane \cup cancelling THEN blind ELSE blind \cup {k}
    /\ UNCHANGED <<plane, clearing, result, message, error, wire, in_time>>

QueueMessage(k) ==
    /\ Moves(k, "registered", "queued")
    /\ outgoing' = Append(outgoing, k)
    /\ UNCHANGED <<plane, clearing, result, table, sent, in_time, blind>>

\* wait_pending_reply looks the waiter up: it may be cancelled already.
WaitPendingReply(k) ==
    /\ \/ /\ k \in reply_waiters
          /\ Moves(k, "queued", "waiting")
          /\ UNCHANGED result
       \/ /\ k \notin reply_waiters
          /\ Moves(k, "queued", "returned")
          /\ Returns(k, "not_found")
    /\ UNCHANGED <<plane, clearing, table, wire, in_time, blind>>

\* The event is set: by a message, or by an error without one.
WakeUp(k) ==
    /\ k \in message \cup error
    /\ Moves(k, "waiting", "returning")
    /\ Returns(k, IF k \in message THEN "ok" ELSE "cancelled")
    /\ UNCHANGED <<plane, clearing, table, wire, in_time, blind>>

WaitTimesOut(k) ==
    /\ k \notin message \cup error
    /\ Moves(k, "waiting", "returning")
    /\ Returns(k, "timeout")
    /\ UNCHANGED <<plane, clearing, table, wire, in_time, blind>>

\* Mutant: the waiter is popped on a reply only.
FinishOnReply(k) ==
    /\ Moves(k, "returning", "returned")
    /\ reply_waiters' = IF result[k] = "ok" THEN reply_waiters \ {k} ELSE reply_waiters
    /\ UNCHANGED <<plane, clearing, result, message, error, wire, in_time, blind>>

\* The finally clause.
Finish(k) ==
    /\ Moves(k, "returning", "returned")
    /\ reply_waiters' = reply_waiters \ {k}
    /\ UNCHANGED <<plane, clearing, result, message, error, wire, in_time, blind>>

Call(k) ==
    \/ CheckPlane(k) \/ RegisterPendingReply(k) \/ QueueMessage(k)
    \/ WaitPendingReply(k) \/ WakeUp(k) \/ WaitTimesOut(k) \/ Finish(k)

------------------------------------------------------------------------------
(* The I/O thread *)

\* A message for a board that is not on the plane is dropped; a send may fail.
SendNext(succeeds) ==
    /\ outgoing # <<>>
    /\ outgoing' = Tail(outgoing)
    /\ sent' = IF Head(outgoing)[1] \in on_plane /\ succeeds
               THEN sent \cup {Head(outgoing)} ELSE sent
    /\ UNCHANGED <<plane, clearing, calls, table, in_time, blind>>

\* The steps in which a call has not given up.
OnCall(k) == caller[k] \in {"registered", "queued", "waiting"}

\* Mutant: a reply wakes the thread only if it is already waiting.
DeliverToWaiting(k) ==
    /\ k \in sent
    /\ sent' = sent \ {k}
    /\ message' = IF k \in reply_waiters /\ caller[k] = "waiting"
                  THEN message \cup {k} ELSE message
    /\ in_time' = IF OnCall(k) THEN in_time \cup {k} ELSE in_time
    /\ UNCHANGED <<plane, clearing, calls, reply_waiters, error, outgoing, blind>>

\* deliver_pending_reply: without a waiter the reply is discarded.
DeliverPendingReply(k) ==
    /\ k \in sent
    /\ sent' = sent \ {k}
    /\ message' = IF k \in reply_waiters THEN message \cup {k} ELSE message
    /\ in_time' = IF OnCall(k) THEN in_time \cup {k} ELSE in_time
    /\ UNCHANGED <<plane, clearing, calls, reply_waiters, error, outgoing, blind>>

ConnectionLost(c) ==
    /\ c \in on_plane
    /\ on_plane' = on_plane \ {c}
    /\ cancelling' = cancelling \cup {c}
    /\ UNCHANGED <<clearing, calls, table, wire, in_time, blind>>

\* _cancel_locked: the waiters leave the table with an error.
Cancel(ks) ==
    /\ error' = error \cup ks
    /\ reply_waiters' = reply_waiters \ ks

\* Mutant: only the threads already waiting are woken.
CancelWaiting(c) ==
    /\ c \in cancelling
    /\ cancelling' = cancelling \ {c}
    /\ Cancel({k \in reply_waiters : k[1] = c /\ caller[k] = "waiting"})
    /\ UNCHANGED <<on_plane, clearing, calls, message, wire, in_time, blind>>

CancelClient(c) ==
    /\ c \in cancelling
    /\ cancelling' = cancelling \ {c}
    /\ Cancel({k \in reply_waiters : k[1] = c})
    /\ UNCHANGED <<on_plane, clearing, calls, message, wire, in_time, blind>>

\* The thread that handles a loss admits the board again only afterwards.
ClientBack(c) ==
    /\ c \notin on_plane \cup cancelling
    /\ on_plane' = on_plane \cup {c}
    /\ UNCHANGED <<cancelling, clearing, calls, table, wire, in_time, blind>>

\* clear_queues: cancel_all, then the queue is emptied.
CancelAll ==
    /\ ~clearing
    /\ clearing' = TRUE
    /\ Cancel(reply_waiters)
    /\ UNCHANGED <<plane, calls, message, wire, in_time, blind>>

EmptyQueue ==
    /\ clearing
    /\ clearing' = FALSE
    /\ outgoing' = <<>>
    /\ UNCHANGED <<plane, calls, table, sent, in_time, blind>>

RepliesNext ==
    \/ \E k \in Keys : Call(k) \/ DeliverPendingReply(k)
    \/ \E succeeds \in BOOLEAN : SendNext(succeeds)
    \/ \E c \in Boards : ConnectionLost(c) \/ CancelClient(c) \/ ClientBack(c)
    \/ CancelAll \/ EmptyQueue

RepliesSpec == RepliesInit /\ [][RepliesNext]_replyVars

------------------------------------------------------------------------------
(* Properties *)

\* A call that is over, and no other, has a result.
RepliesTypeOK ==
    /\ on_plane \subseteq Boards /\ cancelling \subseteq Boards
    /\ clearing \in BOOLEAN
    /\ caller \in [Keys -> {"idle", "checked", "registered", "queued", "waiting",
                            "returning", "returned"}]
    /\ result \in [Keys -> {"none", "unavailable", "not_found", "ok", "cancelled",
                            "timeout"}]
    /\ reply_waiters \subseteq Keys /\ message \subseteq Keys /\ error \subseteq Keys
    /\ outgoing \in Seq(Keys) /\ sent \subseteq Keys
    /\ in_time \subseteq Keys /\ blind \subseteq Keys
    /\ \A k \in Keys : result[k] # "none" <=> caller[k] \in {"returning", "returned"}

\* The table holds the waiters of the calls that are on, and no other: none
\* leaks, whether the call ends by a reply, a cancellation or a timeout.
NoLeak == \A k \in reply_waiters : OnCall(k) \/ caller[k] = "returning"

\* A reply that arrives before its call has given up is what the call returns,
\* however fast it was, unless the waiter was cancelled meanwhile.
ReplyInTimeIsReturned ==
    \A k \in in_time \ error : caller[k] \in {"returning", "returned"} => result[k] = "ok"

\* Nobody waits for a board whose loss has been handled: the waiter has been
\* woken, wherever the call was.  The exception is a call that had checked the
\* plane before the loss and registered its waiter after the cancellation; it
\* waits for its whole timeout.
LostClientWakesCallers ==
    \A k \in Keys \ blind :
        OnCall(k) /\ k[1] \notin on_plane \cup cancelling => k \in message \cup error

------------------------------------------------------------------------------
(* The inductive invariant *)

\* A waiter leaves the table before its call ends only with an error.
Kept == \A k \in Keys : OnCall(k) => k \in reply_waiters \cup error

\* A reply in time has reached its waiter, or found it cancelled.
Reached ==
    /\ in_time \subseteq message \cup error
    /\ \A k \in in_time : caller[k] \notin {"idle", "checked"}

\* The waiters of a lost board leave the table with its cancellation.
Cancelled == \A k \in reply_waiters \ blind : k[1] \in on_plane \cup cancelling

RepliesInv == RepliesTypeOK /\ NoLeak /\ Kept /\ Reached /\ Cancelled /\ ReplyInTimeIsReturned
==============================================================================
