--------------------------- MODULE SubscriptionBook ---------------------------
(* What the stream service promises to the users of a stream: a book of who    *)
(* wants samples and how often.  Only an order changes it, one entry at a time *)
(* and as a whole: an order that is refused leaves the book as it was, and     *)
(* neither a lost board nor its return touches it.                            *)
EXTENDS Integers

CONSTANTS Consumers, Intervals, None

VARIABLES book, order

Init ==
    /\ book = [c \in Consumers |-> 0]
    /\ order = None

\* subscribe(consumer, interval), or unsubscribe with interval 0.
Place(c, i) ==
    /\ order = None
    /\ order' = [consumer |-> c, interval |-> i]
    /\ UNCHANGED book

Grant ==
    /\ order # None
    /\ book' = [book EXCEPT ![order.consumer] = order.interval]
    /\ order' = None

Refuse ==
    /\ order # None
    /\ order' = None
    /\ UNCHANGED book

Next == Grant \/ Refuse \/ \E c \in Consumers, i \in Intervals \cup {0} : Place(c, i)

Spec == Init /\ [][Next]_<<book, order>>

==============================================================================
