-------------------------- MODULE MCWebhookDelivery --------------------------
(***************************************************************************)
(* One subscription that wants two events, the rows of which compete for   *)
(* the one delivery of a tick; each row may be posted twice at once.       *)
(*                                                                         *)
(* A model has finitely many events, and behind finitely many nothing      *)
(* waits for ever, whichever comes first.  So an event that is over lends  *)
(* its name to the next one: to every row the other events are a stream    *)
(* that does not end.                                                      *)
(***************************************************************************)
EXTENDS WebhookDelivery

CONSTANTS e1, e2, s1

MCWants == [s \in Sub |-> {e1, e2}]

\* No query returns a row of event e again, and no post of one is in flight.
Over(e) ==
    /\ e \in processed
    /\ \A d \in Row : d[1] = e => status[d] # "pending" /\ ~InFlight(d)

\* The name of an event that is over stands for an event still to come.
Reuse(e) ==
    /\ Over(e)
    /\ processed' = processed \ {e}
    /\ status' = [d \in Row |-> IF d[1] = e THEN "none" ELSE status[d]]
    /\ attempts' = [d \in Row |-> IF d[1] = e THEN 0 ELSE attempts[d]]
    /\ posts' = [d \in Row |-> IF d[1] = e THEN 0 ELSE posts[d]]
    /\ raced' = {d \in raced : d[1] # e}
    /\ owed' = {o \in owed : o[1] # e}
    /\ UNCHANGED <<sub, queue, schedule, inFlight, faults>>

\* To bound the run, a behaviour either has faults or an endless stream.
VARIABLE stream

\* Two states that the worker comes to from its first one: e2 came and went
\* before anybody subscribed, and all faults are to come; or they are behind, as
\* restarts of an idle worker.
MCInit ==
    /\ sub = [s \in Sub |-> "none"]
    /\ queue = <<>>
    /\ \/ stream = FALSE /\ processed = {e2} /\ faults = 0
       \/ stream = TRUE /\ processed = {} /\ faults = MaxFaults
    /\ status = [d \in Row |-> "none"] /\ attempts = [d \in Row |-> 0]
    /\ ready = {} /\ older = {}
    /\ inFlight = [d \in Row |-> Quiescent]
    /\ posts = [d \in Row |-> 0] /\ raced = {} /\ owed = {}

MCNext ==
    /\ WorkerNext \/ (stream /\ \E e \in WebhookEvent : Reuse(e))
    /\ UNCHANGED stream

MCSpec == MCInit /\ [][MCNext]_<<workerVars, stream>> /\ WorkerFairness
==============================================================================
