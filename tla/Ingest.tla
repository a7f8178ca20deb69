------------------------------- MODULE Ingest -------------------------------
(***************************************************************************)
(* The write path into Kafka: POST /events (api/rest), the GraphQL         *)
(* ingestEvent mutation (api/graphql), which take the same steps in the    *)
(* same order, the API process they run in, from SIGTERM to exit, and      *)
(* scripts/seed.go, which publishes without the database.  Every request   *)
(* creates the UUID of its event, so an event stands for the one request   *)
(* (or seed iteration) that creates it.                                    *)
(***************************************************************************)
EXTENDS Platform

CONSTANTS
    Seeded,    \* the events scripts/seed.go creates
    Sockets    \* the events a client may send over a GraphQL WebSocket

ASSUME IngestAssumption == Seeded \subseteq Events /\ Sockets \subseteq Events

VARIABLES
    req,       \* event -> progress of the request that creates it
    outbox,    \* events produced and not yet acknowledged by the broker
    server,    \* progress of the API process
    detached,  \* events whose request a stop does not wait for
    lost       \* history: <<event, cause>> for every way an event can miss Kafka

ingestVars == <<req, outbox, server, detached, lost>>

ReqStates == {"idle", "accepted", "rejected", "failed", "saved", "acked",
              "aborted", "seeded"}

(***************************************************************************)
(* cmd/api after ctx.Done(): draining in srv.Shutdown, flushing in the     *)
(* producer's Close, closing in those of Redis, Mongo and Postgres.        *)
(***************************************************************************)
ServerStates == {"serving", "draining", "flushing", "closing", "gone"}

\* Why an event may not reach Kafka.
Causes == {"refused", "undelivered", "closed", "unflushed", "killed"}

IngestTypeOK ==
    /\ req \in [Events -> ReqStates]
    /\ outbox \in SUBSET Events
    /\ server \in ServerStates
    /\ detached \in SUBSET Events
    /\ lost \in SUBSET (Events \X Causes)

IngestInit ==
    /\ req = [e \in Events |-> "idle"]
    /\ outbox = {}
    /\ server = "serving"
    /\ detached = {}
    /\ lost = {}

Respond(e, r) == req' = [req EXCEPT ![e] = r]
Lose(es, why) == lost' = lost \cup (es \X {why})

\* The requests a handler is working on.
InService == {e \in Events : req[e] \in {"accepted", "saved"}}

\* What the API's own producer still holds.
Unflushed == outbox \ Seeded

-----------------------------------------------------------------------------
(* The handlers *)

(***************************************************************************)
(* The server hands a new request to its handler.  A connection opened in  *)
(* time may bring a request while Shutdown drains; a WebSocket, hijacked   *)
(* from the server, brings mutations for as long as the process lives.     *)
(***************************************************************************)
Accept(e) ==
    /\ e \notin Seeded
    /\ req[e] = "idle"
    /\ \/ server \in {"serving", "draining"} /\ UNCHANGED detached
       \/ e \in Sockets /\ server # "gone" /\ detached' = detached \cup {e}
    /\ Respond(e, "accepted")
    /\ UNCHANGED <<outbox, server, lost, kafkaVars, storeVars, faults>>

\* The body does not bind, or Type.Valid is false: 400, nothing stored.
Reject(e) ==
    /\ req[e] = "accepted"
    /\ Respond(e, "rejected")
    /\ UNCHANGED <<outbox, server, detached, lost, kafkaVars, storeVars, faults>>

\* Variant: a failed SaveEvent is only logged and the event is published.
SaveEventNonFatal(e) ==
    /\ req[e] = "accepted"
    /\ \/ Answers("postgres") /\ pgEvents' = pgEvents \cup {e}
       \/ MayFail("postgres") /\ UNCHANGED pgEvents
    /\ Respond(e, "saved")
    /\ UNCHANGED <<outbox, server, detached, lost, kafkaVars, seen, rows, mongo, faults>>

\* db.SaveEvent: ON CONFLICT DO NOTHING; an error answers 500 and stops,
\* whether or not the row was written before the call failed.
SaveEvent(e) ==
    /\ req[e] = "accepted"
    /\ \/ /\ Answers("postgres")
          /\ pgEvents' = pgEvents \cup {e}
          /\ Respond(e, "saved")
       \/ /\ MayFail("postgres") \/ server = "closing"
          /\ \/ UNCHANGED pgEvents
             \/ Answers("postgres") /\ pgEvents' = pgEvents \cup {e}
          /\ Respond(e, "failed")
    /\ UNCHANGED <<outbox, server, detached, lost, kafkaVars, seen, rows, mongo, faults>>

\* Produce queues the message of e, or returns an error nobody acts on.
Produce(e) ==
    \/ outbox' = outbox \cup {e} /\ UNCHANGED lost
    \/ MayFail("produce") /\ Lose({e}, "refused") /\ UNCHANGED outbox

\* producer.Publish only queues the message; the answer is 201 either way,
\* even when the producer is closed already.
Publish(e) ==
    /\ req[e] = "saved"
    /\ Respond(e, "acked")
    /\ \/ server # "closing" /\ Produce(e)
       \/ server = "closing" /\ Lose({e}, "closed") /\ UNCHANGED outbox
    /\ UNCHANGED <<server, detached, kafkaVars, storeVars, faults>>

-----------------------------------------------------------------------------
(* The API process *)

\* SIGTERM, or a listener that failed and calls cancel().
ApiSigterm ==
    /\ server = "serving"
    /\ Fault("api_stop")
    /\ server' = "draining"
    /\ UNCHANGED <<req, outbox, detached, lost, kafkaVars, storeVars>>

\* Variant: srv.Close in place of srv.Shutdown.
ApiShutdownAtOnce ==
    /\ server = "draining"
    /\ server' = "flushing"
    /\ UNCHANGED <<req, outbox, detached, lost, kafkaVars, storeVars, faults>>

\* srv.Shutdown waits for the requests on its own connections, for at most
\* 30 seconds ("overrun" allows requests that take longer).
ApiShutdown ==
    /\ server = "draining"
    /\ InService \subseteq detached \/ "overrun" \in Flaky
    /\ detached' = detached \cup InService
    /\ server' = "flushing"
    /\ UNCHANGED <<req, outbox, lost, kafkaVars, storeVars, faults>>

\* Variant: the producer is closed without a flush.
ApiCloseProducerUnflushed ==
    /\ server = "flushing"
    /\ Lose(Unflushed, "unflushed")
    /\ outbox' = outbox \ Unflushed
    /\ server' = "closing"
    /\ UNCHANGED <<req, detached, kafkaVars, storeVars, faults>>

\* producer.Close: Flush waits for the queue to empty, for at most five
\* seconds; what is left, and what detached handlers add after it, is dropped.
ApiCloseProducer ==
    /\ server = "flushing"
    /\ MayFail("delivery") \/ Unflushed \subseteq detached
    /\ Lose(Unflushed, "unflushed")
    /\ outbox' = outbox \ Unflushed
    /\ server' = "closing"
    /\ UNCHANGED <<req, detached, kafkaVars, storeVars, faults>>

\* The process is gone, and with it the requests in service and the queue.
ApiGone ==
    /\ server' = "gone"
    /\ req' = [e \in Events |-> IF e \in InService THEN "aborted" ELSE req[e]]
    /\ outbox' = outbox \ Unflushed

\* rdb.Close, mdb.Close and db.Close are done and main returns.
ApiExit ==
    /\ server = "closing"
    /\ ApiGone
    /\ UNCHANGED <<detached, lost, kafkaVars, storeVars, faults>>

\* The process dies; while it stops, at the end of the pod's grace period,
\* which Shutdown and Flush together may exceed.
ApiCrash ==
    /\ server # "gone"
    /\ Fault("api_crash") \/ (server # "serving" /\ UNCHANGED faults)
    /\ ApiGone
    /\ Lose(InService \cup Unflushed, "killed")
    /\ UNCHANGED <<detached, kafkaVars, storeVars>>

\* main starts again; it needs all three stores to answer its pings.
ApiRestart ==
    /\ server = "gone"
    /\ \A s \in {"postgres", "mongo", "redis"} : Answers(s)
    /\ server' = "serving"
    /\ UNCHANGED <<req, outbox, detached, lost, kafkaVars, storeVars, faults>>

-----------------------------------------------------------------------------
(* The seed script *)

\* One iteration of its loop.
SeedPublish(e) ==
    /\ e \in Seeded
    /\ req[e] = "idle"
    /\ Respond(e, "seeded")
    /\ Produce(e)
    /\ UNCHANGED <<server, detached, kafkaVars, storeVars, faults>>

\* main returns: the deferred Close gives up on what Flush could not deliver.
SeedEnds ==
    /\ MayFail("delivery")
    /\ outbox \cap Seeded # {}
    /\ \A e \in Seeded : req[e] # "idle"
    /\ Lose(outbox \cap Seeded, "unflushed")
    /\ outbox' = outbox \ Seeded
    /\ UNCHANGED <<req, server, detached, kafkaVars, storeVars, faults>>

-----------------------------------------------------------------------------
(* The producers' background threads *)

\* The message value is the event's JSON and carries no headers.
EventRecord(e) == [payload |-> e, rc |-> 0]

DeliverEvent(e) ==
    /\ e \in outbox
    /\ outbox' = outbox \ {e}
    /\ AppendTo("events", EventRecord(e))
    /\ UNCHANGED <<req, server, detached, lost, committed, owner, pos, storeVars, faults>>

DeliverEventTwice(e) ==
    /\ e \in outbox
    /\ Fault("duplicate")
    /\ AppendTo("events", EventRecord(e))
    /\ UNCHANGED <<ingestVars, committed, owner, pos, storeVars>>

EventDeliveryFails(e) ==
    /\ e \in outbox
    /\ MayFail("delivery")
    /\ outbox' = outbox \ {e}
    /\ Lose({e}, "undelivered")
    /\ UNCHANGED <<req, server, detached, kafkaVars, storeVars, faults>>

HandlerStep(e) == Reject(e) \/ SaveEvent(e) \/ Publish(e)
RequestStep(e) == Accept(e) \/ HandlerStep(e) \/ SeedPublish(e)
OutboxStep(e) == DeliverEvent(e) \/ DeliverEventTwice(e) \/ EventDeliveryFails(e)
StopStep == ApiShutdown \/ ApiCloseProducer \/ ApiExit
ServerStep == ApiSigterm \/ StopStep \/ ApiCrash \/ ApiRestart

IngestNext ==
    \/ \E e \in Events : RequestStep(e) \/ OutboxStep(e)
    \/ ServerStep
    \/ SeedEnds

=============================================================================
