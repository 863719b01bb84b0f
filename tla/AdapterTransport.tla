-------------------------- MODULE AdapterTransport --------------------------
(***************************************************************************)
(* The adapter process of one sandbox: invocations arrive over HTTP        *)
(* (answered live as server-sent events, or as one JSON document) or as    *)
(* frames of a WebSocket, are deduplicated by request id, executed against *)
(* the loopback gateway, and their events buffered for replay.  Some       *)
(* requests open a tunnel to an upstream WebSocket; others write into one, *)
(* close one, or cancel another request.                                   *)
(*                                                                         *)
(* A connection carries one invocation.  The handler behind it drives a    *)
(* generator (LoopbackKiroCrewBackend.execute); `stage' is how far that    *)
(* generator has come.  A client may vanish at any time and the handler    *)
(* learns of it only when it writes.                                       *)
(***************************************************************************)
EXTENDS Integers, Sequences

CONSTANTS
    Conns,          \* connections, one invocation each, numbered as they arrive
    Requests,       \* request ids
    Op,             \* request -> what its payload asks for
    Scripts,        \* bound: sequences of <<request, mode, Last-Event-ID>> that arrive
    Target,         \* request -> the request a send, close or cancel names
    Modes,          \* subset of {"sse", "json", "frame"}
    Tokens,         \* binding tokens a client may present
    None,
    MaxEvents,      \* EventBuffer's max_events
    MaxAttempts,    \* AdapterConfig.max_backend_attempts
    MaxChunks,      \* chunks of one event's payload
    Deltas,         \* bound: output events of one upstream answer
    Batch,          \* frames of one kirocrew.ws.send
    MaxDeaths       \* bound: deaths of the gateway

Ops == {"http", "pin", "sse", "tunnel", "send", "close", "cancel", "synthetic", "denied"}

ASSUME ConstantsAssumption ==
    /\ Conns \subseteq Nat \ {0}
    /\ Op \in [Requests -> Ops]
    /\ Target \in [Requests -> Requests]
    /\ \A s \in Scripts : \A i \in DOMAIN s : s[i] \in Requests \X Modes \X Int
    /\ Modes \subseteq {"sse", "json", "frame"}
    /\ Tokens \cap {"frame", None} = {} /\ None # "frame"
    /\ {MaxEvents, MaxAttempts, MaxChunks} \subseteq Nat \ {0} /\ MaxChunks <= MaxEvents /\ MaxEvents >= 3
    /\ {Deltas, Batch, MaxDeaths} \subseteq Nat

VARIABLES
    digest,     \* IdempotencyWindow._digests
    buffer,     \* EventBuffer._events
    nextSeq,    \* EventBuffer._next
    conn,       \* connections and the generators they drive
    tunnels,    \* LoopbackKiroCrewBackend._tunnels
    sock,       \* the upstream WebSocket of each tunnel request
    fed,        \* frames the upstream has received on it
    ran,        \* how often the gateway has been sent the request
    gateway,    \* [up, ready, held]: alive, loopback_ready, restart backing off
    deaths

vars == <<digest, buffer, nextSeq, conn, tunnels, sock, fed, ran, gateway, deaths>>

store == <<digest, buffer, nextSeq>>

upstream == <<tunnels, sock, fed, ran>>

\* An event of the attempt that produced it: the att-th time the gateway was asked.
Event == [id : Nat, op : {"accepted", "delta", "completed", "error"}, att : Nat]

Connection ==
    [pc : {"free", "running", "waiting", "orphan", "ended"},
     req : Requests \cup {None}, mode : Modes \cup {None}, last : Int,
     cursor : Int, tries : 0 .. MaxAttempts,
     stage : {"none", "call", "sent", "pinned", "body", "cut", "feed"},
     n : Nat, got : Seq(Event), here : BOOLEAN, new : BOOLEAN,
     end : {"open", "completed", "replayed", "error", "refused", "broken", "reset", "gone"}]

Free ==
    [pc |-> "free", req |-> None, mode |-> None, last |-> -1, cursor |-> -1, tries |-> 0,
     stage |-> "none", n |-> 0, got |-> <<>>, here |-> TRUE, new |-> FALSE, end |-> "open"]

TypeOK ==
    /\ digest \in [Requests -> Tokens \cup {"frame", None}]
    /\ buffer \in [Requests -> Seq(Event)]
    /\ nextSeq \in [Requests -> Nat]
    /\ conn \in [Conns -> Connection]
    /\ tunnels \subseteq Requests
    /\ sock \in [Requests -> {"none", "open", "dying", "closed"}]
    /\ fed \in [Requests -> Seq(Conns \X (1 .. Batch))]
    /\ ran \in [Requests -> Nat]
    /\ gateway \in [up : BOOLEAN, ready : BOOLEAN, held : BOOLEAN]
    /\ deaths \in 0 .. MaxDeaths

\* A process that has just started and restored its session.
Init ==
    /\ digest = [r \in Requests |-> None]
    /\ buffer = [r \in Requests |-> <<>>]
    /\ nextSeq = [r \in Requests |-> 0]
    /\ conn = [c \in Conns |-> Free]
    /\ tunnels = {}
    /\ sock = [r \in Requests |-> "none"]
    /\ fed = [r \in Requests |-> <<>>]
    /\ ran = [r \in Requests |-> 0]
    /\ gateway = [up |-> TRUE, ready |-> TRUE, held |-> FALSE]
    /\ deaths = 0

---------------------------------------------------------------------------
(* The event buffer.                                                       *)

\* deque(maxlen=max_events): the oldest events fall out.
Bounded(s) == SubSeq(s, IF Len(s) > MaxEvents THEN Len(s) - MaxEvents + 1 ELSE 1, Len(s))

\* Where the events above id begin: the ids of one buffer grow.
Above(s, id) == CHOOSE i \in 1 .. Len(s) + 1 : \A j \in DOMAIN s : s[j].id > id <=> j >= i

\* Variant: the event the client saw last comes again.
AfterInclusive(s, id) == SubSeq(s, Above(s, id - 1), Len(s))

\* EventBuffer.after.
After(s, id) == SubSeq(s, Above(s, id), Len(s))

\* EventBuffer.append of events of the kinds ops, numbered from the next sequence.
Grown(r, ops) ==
    Bounded(buffer[r] \o [i \in DOMAIN ops |->
        [id |-> nextSeq[r] + i - 1, op |-> ops[i], att |-> ran[r]]])

Buffer(r, ops) ==
    /\ buffer' = [buffer EXCEPT ![r] = Grown(r, ops)]
    /\ nextSeq' = [nextSeq EXCEPT ![r] = @ + Len(ops)]

\* _append: a payload over the chunk size becomes several events.
Chunks(op, k) == [i \in 1 .. k |-> op]

\* The events a live stream has still to write once r's buffer is s.
Unwritten(c, s) == After(s, conn[c].cursor)

\* _write_sse of the events fs, and the cursor after them.
Written(c, fs) ==
    [conn[c] EXCEPT !.got = @ \o fs, !.cursor = IF fs = <<>> THEN @ ELSE fs[Len(fs)].id]

\* What one more event of op does to connection c of a running generator.  A
\* write to a client that is gone raises ConnectionResetError and leaves the
\* generator suspended where it is.
Relayed(c, s, stage) ==
    IF conn[c].mode # "sse" THEN [conn[c] EXCEPT !.stage = stage]
    ELSE IF conn[c].here \/ Unwritten(c, s) = <<>>
         THEN [Written(c, Unwritten(c, s)) EXCEPT !.stage = stage]
         ELSE [conn[c] EXCEPT !.pc = "orphan", !.stage = stage]

Ended(k, how) == [k EXCEPT !.pc = "ended", !.stage = "none",
                           !.end = IF k.here THEN how ELSE "gone"]

\* A JSON document or the frames of a reply: everything after lastEventId.
Reply(c, s) == [conn[c] EXCEPT !.got = After(s, conn[c].last)]

---------------------------------------------------------------------------
(* Arrival.                                                                *)

\* The HTTP digest covers the invocation, its binding token included; the
\* digest of a frame only the command.
Digest(mode, tok) == IF mode = "frame" THEN "frame" ELSE tok

Opened(r, mode, last) ==
    [Free EXCEPT !.req = r, !.mode = mode, !.last = last, !.cursor = last]

\* _assert_ready, or IDEMPOTENCY_CONFLICT: answered before anything is prepared.
Refuse(c, r, mode, tok, last) ==
    /\ ~gateway.ready \/ digest[r] \notin {None, Digest(mode, tok)}
    /\ conn' = [conn EXCEPT ![c] = Ended(Opened(r, mode, last), "refused")]
    /\ UNCHANGED <<store, upstream, gateway, deaths>>

\* DUPLICATE: what the buffer holds, then the end of the reply.
Replay(c, r, mode, tok, last) ==
    /\ gateway.ready /\ digest[r] = Digest(mode, tok) /\ last >= -1
    /\ LET k == Opened(r, mode, last)
       IN conn' = [conn EXCEPT ![c] =
                     Ended([k EXCEPT !.got = After(buffer[r], last)], "replayed")]
    /\ UNCHANGED <<store, upstream, gateway, deaths>>

\* Variant: seeing a request id leaves no trace until it has completed.
FirstSeenLate(r, d) == UNCHANGED digest

\* IdempotencyWindow.check of a request id it has not seen.
FirstSeen(r, d) == digest' = [digest EXCEPT ![r] = d]

\* An invalid Last-Event-ID is noticed once the digest is recorded: the id is
\* taken and nothing runs for it.
Misheaded(c, r, mode, tok, last) ==
    /\ gateway.ready /\ digest[r] \in {None, Digest(mode, tok)} /\ last < -1
    /\ FirstSeen(r, Digest(mode, tok))
    /\ conn' = [conn EXCEPT ![c] = Ended(Opened(r, mode, last), "refused")]
    /\ UNCHANGED <<buffer, nextSeq, upstream, gateway, deaths>>

\* NEW: the digest is recorded before anything runs.
Admit(c, r, mode, tok, last) ==
    /\ gateway.ready /\ digest[r] = None /\ Op[r] # "cancel" /\ last >= -1
    /\ FirstSeen(r, Digest(mode, tok))
    /\ conn' = [conn EXCEPT ![c] =
                  [Opened(r, mode, last) EXCEPT !.pc = "running", !.stage = "call", !.new = TRUE]]
    /\ UNCHANGED <<buffer, nextSeq, upstream, gateway, deaths>>

\* Where _cancellations has an entry: the response or the socket is there.
Cancellable(k, r) == k.req = r /\ k.stage \in {"pinned", "body", "cut"}

\* chat.cancel: closes the target's response or socket, and answers at once.
Cancel(c, r, mode, tok, last) ==
    /\ gateway.ready /\ digest[r] = None /\ Op[r] = "cancel" /\ last >= -1
    /\ FirstSeen(r, Digest(mode, tok))
    /\ Buffer(r, <<"completed">>)
    /\ LET k == [Opened(r, mode, last) EXCEPT !.got = After(Grown(r, <<"completed">>), last)]
           tgt == Target[r]
       IN /\ conn' = [d \in Conns |->
                 IF d = c THEN Ended(k, "completed")
                 ELSE IF Cancellable(conn[d], tgt) /\ Op[tgt] # "tunnel"
                      THEN [conn[d] EXCEPT !.stage = "cut"] ELSE conn[d]]
          /\ sock' = IF \E d \in Conns : Cancellable(conn[d], tgt) /\ Op[tgt] = "tunnel"
                     THEN [sock EXCEPT ![tgt] = "closed"] ELSE sock
    /\ UNCHANGED <<tunnels, fed, ran, gateway, deaths>>

\* What connection c may bring after what the earlier ones brought.
Brings(c) ==
    {s[c] : s \in {s \in Scripts : /\ c \in DOMAIN s
                                  /\ \A d \in 1 .. c - 1 : s[d] = <<conn[d].req, conn[d].mode, conn[d].last>>}}

Arrive(c) ==
    /\ conn[c].pc = "free"
    /\ \E b \in Brings(c), tok \in Tokens :
         \/ Refuse(c, b[1], b[2], tok, b[3])
         \/ Replay(c, b[1], b[2], tok, b[3])
         \/ Misheaded(c, b[1], b[2], tok, b[3])
         \/ Admit(c, b[1], b[2], tok, b[3])
         \/ Cancel(c, b[1], b[2], tok, b[3])

---------------------------------------------------------------------------
(* How a generator ends early.                                             *)

\* Variant: an exception leaves the tunnel registered.
ForgetRelease(r) == UNCHANGED <<tunnels, sock>>

\* The generator's finally-block: the tunnel and its socket go together.
Release(r) ==
    /\ tunnels' = tunnels \ {r}
    /\ sock' = IF r \in tunnels THEN [sock EXCEPT ![r] = "closed"] ELSE sock

\* Variant: bytes already sent do not stop a retry.
GiveUpLate(k) == k.tries + 1 = MaxAttempts

\* A live stream is not tried again once the client has seen a byte of it.
GiveUp(k) ==
    \/ k.tries + 1 = MaxAttempts
    \/ k.mode = "sse" /\ k.cursor > k.last

\* TransientBackendError: back off and try again, or report it (in-band on a
\* live stream, as a 503 otherwise).
Transient(c) ==
    LET r == conn[c].req
        k == [conn[c] EXCEPT !.tries = @ + 1, !.stage = "none"]
        new == Grown(r, <<"error">>)
    IN /\ Release(r)
       /\ \/ /\ ~GiveUp(conn[c])
             /\ conn' = [conn EXCEPT ![c] = [k EXCEPT !.pc = "waiting"]]
             /\ UNCHANGED <<buffer, nextSeq>>
          \/ /\ GiveUp(conn[c]) /\ conn[c].mode = "sse"
             /\ Buffer(r, <<"error">>)
             /\ conn' = [conn EXCEPT ![c] =
                   Ended(IF k.here THEN [Written(c, Unwritten(c, new)) EXCEPT !.tries = @ + 1]
                         ELSE k, "error")]
          \/ /\ GiveUp(conn[c]) /\ conn[c].mode # "sse"
             /\ conn' = [conn EXCEPT ![c] = Ended(k, "refused")]
             /\ UNCHANGED <<buffer, nextSeq>>

\* Any other exception: nothing on the way up writes it into a stream whose
\* headers have gone out, so that stream breaks off.
Raise(c) ==
    /\ Release(conn[c].req)
    /\ conn' = [conn EXCEPT ![c] =
                  Ended(conn[c], IF conn[c].mode = "sse" THEN "broken" ELSE "refused")]
    /\ UNCHANGED <<buffer, nextSeq>>

\* After the backoff, the next attempt.
Retry(c) ==
    /\ conn[c].pc = "waiting"
    /\ conn' = [conn EXCEPT ![c].pc = "running", ![c].stage = "call", ![c].n = 0]
    /\ UNCHANGED <<store, upstream, gateway, deaths>>

At(c, stage) == conn[c].pc = "running" /\ conn[c].stage = stage

Asks(c, ops) == Op[conn[c].req] \in ops

\* The last events, and the end of the generator.
Complete(c, ops) ==
    LET r == conn[c].req
        new == Grown(r, ops)
    IN /\ Buffer(r, ops)
       /\ conn' = [conn EXCEPT ![c] =
             Ended(IF conn[c].mode # "sse" THEN Reply(c, new)
                   ELSE IF conn[c].here THEN Written(c, Unwritten(c, new)) ELSE conn[c],
                   "completed")]

---------------------------------------------------------------------------
(* The gateway behind it.                                                  *)

\* ensure_gateway's restart, under its lock: it serves again, or the next
\* attempt is held back and the adapter stops being ready.
RestartGateway ==
    /\ ~gateway.up /\ ~gateway.held
    /\ \/ gateway' = [gateway EXCEPT !.up = TRUE, !.ready = TRUE]
       \/ gateway' = [gateway EXCEPT !.held = TRUE, !.ready = FALSE]

\* ensure_gateway at the start of an attempt, when the gateway is dead.
EnsureGateway(c) ==
    /\ At(c, "call") /\ ~gateway.up
    /\ \/ gateway.held /\ UNCHANGED gateway
       \/ RestartGateway
    /\ IF gateway'.up THEN UNCHANGED <<conn, tunnels, sock, buffer, nextSeq>> ELSE Transient(c)
    /\ UNCHANGED <<digest, fed, ran, deaths>>

\* Variant: only an adapter that is ready restarts the gateway.
PingWhenReady == gateway.ready

\* /ping needs no readiness, so it is what brings back a gateway whose restart failed.
PingWatches == TRUE

\* /ping: notices a dead gateway even when nobody is connected.
Ping ==
    /\ PingWatches
    /\ RestartGateway
    /\ UNCHANGED <<store, conn, upstream, deaths>>

BackoffElapses ==
    /\ gateway.held
    /\ gateway' = [gateway EXCEPT !.held = FALSE]
    /\ UNCHANGED <<store, conn, upstream, deaths>>

\* The gateway exits: answers under way are cut, tunnel sockets are dying.
GatewayDies ==
    /\ gateway.up /\ deaths < MaxDeaths
    /\ deaths' = deaths + 1
    /\ gateway' = [gateway EXCEPT !.up = FALSE]
    /\ conn' = [c \in Conns |->
          IF \/ conn[c].stage \in {"sent", "pinned"}
             \/ conn[c].stage = "body" /\ Asks(c, {"http", "pin", "sse"})
          THEN [conn[c] EXCEPT !.stage = "cut"] ELSE conn[c]]
    /\ sock' = [r \in Requests |-> IF sock[r] = "open" THEN "dying" ELSE sock[r]]
    /\ UNCHANGED <<store, tunnels, fed, ran>>

---------------------------------------------------------------------------
(* Execution of one attempt.                                               *)

\* A denied or unavailable route, an invalid payload: no upstream call.
Deny(c) ==
    /\ At(c, "call") /\ gateway.up /\ Asks(c, {"denied"})
    /\ Raise(c)
    /\ UNCHANGED <<digest, fed, ran, gateway, deaths>>

\* The routes the adapter answers itself.
Synthesize(c) ==
    /\ At(c, "call") /\ gateway.up /\ Asks(c, {"synthetic"})
    /\ Complete(c, <<"accepted", "delta", "completed">>)
    /\ UNCHANGED <<digest, upstream, gateway, deaths>>

\* The request goes upstream.
Call(c) ==
    /\ At(c, "call") /\ gateway.up /\ Asks(c, {"http", "pin", "sse", "tunnel"})
    /\ ran' = [ran EXCEPT ![conn[c].req] = @ + 1]
    /\ conn' = [conn EXCEPT ![c].stage = "sent"]
    /\ UNCHANGED <<store, tunnels, sock, fed, gateway, deaths>>

\* A template session's model pin answered 404: written to the global default.
PinDefault(c) ==
    /\ At(c, "sent") /\ Asks(c, {"pin"})
    /\ conn' = [conn EXCEPT ![c].stage = "pinned"]
    /\ UNCHANGED <<store, upstream, gateway, deaths>>

\* The answer's head, an application's 503 included: request.accepted.
Respond(c) ==
    LET r == conn[c].req
    IN /\ At(c, "sent") \/ At(c, "pinned")
       /\ Buffer(r, <<"accepted">>)
       /\ conn' = [conn EXCEPT ![c] = Relayed(c, Grown(r, <<"accepted">>), "body")]
       /\ IF Op[r] = "tunnel"
          THEN tunnels' = tunnels \cup {r} /\ sock' = [sock EXCEPT ![r] = "open"]
          ELSE UNCHANGED <<tunnels, sock>>
       /\ UNCHANGED <<digest, fed, ran, gateway, deaths>>

\* A piece of the body, or a frame of the tunnel.
Delta(c) ==
    LET r == conn[c].req
    IN /\ At(c, "body") /\ conn[c].n < Deltas
       /\ Op[r] = "tunnel" => sock[r] = "open"
       /\ \E k \in 1 .. MaxChunks :
            /\ Buffer(r, Chunks("delta", k))
            /\ conn' = [conn EXCEPT ![c] =
                  [Relayed(c, Grown(r, Chunks("delta", k)), "body") EXCEPT !.n = @ + 1]]
       /\ UNCHANGED <<digest, upstream, gateway, deaths>>

\* The body is read, or the tunnel's socket has closed under its reader.
Finish(c) ==
    LET r == conn[c].req
    IN /\ At(c, "body")
       /\ Complete(c, <<"completed">>)
       /\ Release(r)
       /\ UNCHANGED <<digest, fed, ran, gateway, deaths>>

\* Variant: a tunnel waits for its next frame without a deadline.
FailWithoutTimeout(c) ==
    /\ At(c, "sent") \/ At(c, "pinned") \/ At(c, "body") \/ At(c, "cut")
    /\ Asks(c, {"sse", "tunnel"}) => conn[c].stage \in {"sent", "cut"}
    /\ Transient(c)
    /\ UNCHANGED <<digest, fed, ran, gateway, deaths>>

\* A deadline, a refused or lost connection, a 502, 504 or opaque 503.  Only
\* /api/stream has no deadline: it fails when its connection does.
Fail(c) ==
    /\ At(c, "sent") \/ At(c, "pinned") \/ At(c, "body") \/ At(c, "cut")
    /\ Asks(c, {"sse"}) => conn[c].stage \in {"sent", "cut"}
    /\ Transient(c)
    /\ UNCHANGED <<digest, fed, ran, gateway, deaths>>

\* A body over the limit, or cut off in a way execute does not translate.
Break(c) ==
    /\ \/ At(c, "cut")
       \/ At(c, "body") /\ Asks(c, {"http", "pin", "sse"})
    /\ Raise(c)
    /\ UNCHANGED <<digest, fed, ran, gateway, deaths>>

\* kirocrew.ws.send: the whole batch is decoded first, then the tunnel looked up.
OpenFeed(c) ==
    /\ At(c, "call") /\ gateway.up /\ Asks(c, {"send"})
    /\ LET t == Target[conn[c].req]
       IN \/ /\ t \in tunnels /\ sock[t] # "closed"
             /\ conn' = [conn EXCEPT ![c].stage = "feed"]
             /\ UNCHANGED <<tunnels, sock, buffer, nextSeq>>
          \/ Raise(c)
    /\ UNCHANGED <<digest, fed, ran, gateway, deaths>>

\* Variant: a batch is delivered from its end.
LastFrameFirst(c) == Batch - conn[c].n

\* Frames leave in the order of the list.
NextFrame(c) == conn[c].n + 1

\* One frame of the batch.  A socket that is no longer open raises
\* ConnectionResetError, which a live stream takes for its own client leaving.
Feed(c) ==
    LET t == Target[conn[c].req]
    IN /\ At(c, "feed") /\ conn[c].n < Batch
       /\ \/ /\ sock[t] = "open"
             /\ fed' = [fed EXCEPT ![t] = @ \o << <<c, NextFrame(c)>> >>]
             /\ conn' = [conn EXCEPT ![c].n = @ + 1]
          \/ /\ sock[t] # "open"
             /\ conn' = [conn EXCEPT ![c] =
                   Ended(conn[c], IF conn[c].mode = "sse" THEN "reset" ELSE "refused")]
             /\ UNCHANGED fed
       /\ UNCHANGED <<store, tunnels, sock, ran, gateway, deaths>>

Delivered(c) ==
    /\ At(c, "feed") /\ conn[c].n = Batch
    /\ Complete(c, <<"completed">>)
    /\ UNCHANGED <<digest, upstream, gateway, deaths>>

\* kirocrew.ws.close: takes the tunnel out and closes its socket.
CloseTunnel(c) ==
    /\ At(c, "call") /\ gateway.up /\ Asks(c, {"close"})
    /\ Release(Target[conn[c].req])
    /\ Complete(c, <<"completed">>)
    /\ UNCHANGED <<digest, fed, ran, gateway, deaths>>

---------------------------------------------------------------------------
(* Everything else.                                                        *)

\* The client goes away; nobody tells the handler.  (A handler that collects a
\* reply runs on as before and then has nobody to send it to.)
Vanish(c) ==
    /\ conn[c].pc \in {"running", "waiting"} /\ conn[c].here /\ conn[c].mode = "sse"
    /\ conn' = [conn EXCEPT ![c].here = FALSE]
    /\ UNCHANGED <<store, upstream, gateway, deaths>>

\* The event loop closes a generator its handler left.
Finalise(c) ==
    /\ conn[c].pc = "orphan"
    /\ Release(conn[c].req)
    /\ conn' = [conn EXCEPT ![c] = Ended(conn[c], "gone")]
    /\ UNCHANGED <<store, fed, ran, gateway, deaths>>

Next ==
    \/ \E c \in Conns :
         \/ Arrive(c) \/ Retry(c) \/ EnsureGateway(c)
         \/ Deny(c) \/ Synthesize(c) \/ Call(c) \/ PinDefault(c) \/ Respond(c)
         \/ Delta(c) \/ Finish(c) \/ Fail(c) \/ Break(c)
         \/ OpenFeed(c) \/ Feed(c) \/ Delivered(c) \/ CloseTunnel(c)
         \/ Vanish(c) \/ Finalise(c)
    \/ Ping \/ BackoffElapses \/ GatewayDies

Spec == Init /\ [][Next]_vars

(***************************************************************************)
(* Fairness.  The event loop runs every handler and finaliser; every       *)
(* upstream call but an event stream's has a deadline (30 s, a tunnel's    *)
(* per receive); the platform polls /ping; a gateway start that is tried   *)
(* again and again succeeds.                                               *)
(***************************************************************************)
Step(c) ==
    \/ Retry(c) \/ EnsureGateway(c) \/ Deny(c) \/ Synthesize(c) \/ Call(c) \/ Fail(c)
    \/ OpenFeed(c) \/ Feed(c) \/ Delivered(c) \/ CloseTunnel(c) \/ Finalise(c)

FairSpec ==
    /\ Spec
    /\ \A c \in Conns : WF_vars(Step(c))
    /\ WF_vars(BackoffElapses) /\ SF_vars(Ping /\ gateway'.up)

---------------------------------------------------------------------------
(* Properties.                                                             *)

Live(c) == conn[c].new /\ conn[c].mode = "sse"

(***************************************************************************)
(* What a client receives has no hole: the ids of one reply are            *)
(* consecutive, a live stream starts right after the client's              *)
(* Last-Event-ID whatever the buffer has dropped since, and a buffered     *)
(* reply may start later only by as much as the full buffer forgot         *)
(* (EventBuffer.after and the cursor of _stream_live).                     *)
(***************************************************************************)
NoHoles ==
    \A c \in Conns : LET g == conn[c].got IN g # <<>> =>
        /\ \A i \in 1 .. Len(g) - 1 : g[i + 1].id = g[i].id + 1
        /\ \/ g[1].id = conn[c].last + 1
           \/ ~Live(c) /\ Len(g) = MaxEvents

(***************************************************************************)
(* A live stream that began at its first event never splices two           *)
(* executions: everything but the closing error comes from one call of the *)
(* gateway, however often the backend was retried (_stream_live).          *)
(***************************************************************************)
OneAttemptPerStream ==
    \A c \in Conns : Live(c) /\ conn[c].last = -1 =>
        \A i, j \in DOMAIN conn[c].got :
            "error" \notin {conn[c].got[i].op, conn[c].got[j].op}
                => conn[c].got[i].att = conn[c].got[j].att

(***************************************************************************)
(* However many connections deliver one request id, at once or one after   *)
(* another, a process runs at most one generator for it at a time and asks *)
(* the gateway at most max_backend_attempts times (IdempotencyWindow.check *)
(* before the first await).                                                *)
(***************************************************************************)
RunsOnce ==
    \A r \in Requests :
        /\ ran[r] <= MaxAttempts
        /\ \A c, d \in Conns : conn[c].new /\ conn[d].new /\ conn[c].req = conn[d].req => c = d

(***************************************************************************)
(* No tunnel outlives its reader: a registered tunnel has a generator that *)
(* will take it out again, and an upstream socket that is still open is    *)
(* registered (the finally-block of _websocket, racing ws.close, cancel,   *)
(* a dying gateway and a client that has gone).                            *)
(***************************************************************************)
NoTunnelLeak ==
    \A r \in Requests :
        /\ sock[r] \in {"open", "dying"} => r \in tunnels
        /\ r \in tunnels => \E c \in Conns :
              /\ conn[c].req = r /\ conn[c].pc \in {"running", "orphan"}
              /\ conn[c].stage = "body"

(***************************************************************************)
(* A batch of frames reaches the upstream socket in list order, no frame   *)
(* of it twice, whichever connections repeat it; and if the client is told *)
(* it was delivered, all of it was (_tunnel_send).                         *)
(***************************************************************************)
FramesDeliveredOnce ==
    \A c \in Conns : conn[c].new /\ Op[conn[c].req] = "send" =>
        LET sent == fed[Target[conn[c].req]]
            Frames(m) == {sent[j][2] : j \in {j \in 1 .. m : sent[j][1] = c}}
        IN /\ \A i \in DOMAIN sent : sent[i][1] = c => Frames(i - 1) = 1 .. sent[i][2] - 1
           /\ \A d \in Conns \ {c} : conn[d].req = conn[c].req =>
                 \A i \in DOMAIN sent : sent[i][1] # d
           /\ conn[c].end = "completed" => Frames(Len(sent)) = 1 .. Batch

(***************************************************************************)
(* A dead gateway serves again, also after a failed restart has made the   *)
(* adapter refuse every invocation: only /ping is left to notice           *)
(* (background_busy, _schedule_gateway_restart).                           *)
(***************************************************************************)
GatewayServesAgain == ~gateway.up ~> gateway.up

(***************************************************************************)
(* What ought to end does: a request that is neither a stream nor a tunnel *)
(* (attempts have deadlines and are counted: _execute, _stream_live), and  *)
(* a tunnel whose client has gone, though nobody tells the handler (the    *)
(* next frame's write, or the receive timeout of _websocket).              *)
(***************************************************************************)
ExecutionsEnd ==
    /\ \A c \in Conns :
          (conn[c].pc \in {"running", "waiting"} /\ Op[conn[c].req] \notin {"sse", "tunnel"})
              ~> conn[c].pc = "ended"
    /\ \A r \in {q \in Requests : Op[q] = "tunnel"} :
          (r \in tunnels /\ \A c \in Conns : conn[c].req = r /\ conn[c].new => ~conn[c].here)
              ~> r \notin tunnels

============================================================================
