----------------------------- MODULE ProbeCall ------------------------------
(***************************************************************************)
(* One call of the controller to an agent, in time: probeEndpoint          *)
(* (code/internal/controller/probe.go) with its deadline, the agent's HTTP *)
(* server and handleProbe (code/pkg/server.go), and ExecuteProbe with its  *)
(* loop of dials and exchanges (code/pkg/prober.go).                       *)
(*                                                                         *)
(* The caller waits for one call at a time.  When it gives up, the agent   *)
(* goes on until it notices; such a handler is no longer wanted and may    *)
(* still run when the next calls are made.  A request that was not taken   *)
(* up by then stays in the agent's socket buffers and backlog; any number  *)
(* of them may be handled later and together, for nobody.  They are        *)
(* counted here, but not followed: nothing else depends on them.  Where a  *)
(* handler is:                                                             *)
(*   select     at the top of the loop, or behind its last round           *)
(*   dial       in net.DialTimeout, for at most the timeout                *)
(*   exchange   between the write and the ack, for at most the timeout     *)
(* Time passes in the two last, and on the control channel; local          *)
(* computation takes none.                                                 *)
(***************************************************************************)
EXTENDS Contract, CheckSpec, SequencesExt

CONSTANTS
    Resources,      \* the NetworkHealthChecks a behaviour may be about
    Doors,          \* tokens and address filters: [token, bearer, kind, listed]
    ReadTimeout,    \* of the agent's HTTP server: 10 s
    WriteTimeout,   \* of the agent's HTTP server: 30 s
    MaxLate         \* bound of the model: requests of calls given up that are left

ASSUME ProbeCallAssumption ==
    /\ Resources \subseteq Resource
    /\ ReadTimeout \in Nat /\ WriteTimeout \in Nat /\ MaxLate \in Nat

VARIABLES
    spec,       \* the check's settings as the controller uses them
    door,       \* how the agent is configured, and what it is asked
    caller,     \* "idle" or "waiting"
    elapsed,    \* since the call was made
    wire,       \* of the call that is made: its request, its response, or nothing
    late,       \* requests left to the agent by calls given up, waiting or being handled
    reply,      \* what the latest call returned; NoReply while it waits
    handlers,   \* requests taken up while their callers waited, as they arrived
    record      \* for checking only: what happened to the latest call

callVars == <<spec, door, caller, elapsed, wire, late, reply, handlers, record>>

NoReply == [success |-> FALSE, loss |-> 0, error |-> "none", agentError |-> FALSE]
Empty == [holds |-> "nothing", result |-> NoReply]
Request == [holds |-> "request", result |-> NoReply]
Response(result) == [holds |-> "response", result |-> result]
NoRecord == [delay |-> 0, ended |-> 0, lost |-> 0, connected |-> FALSE, crashed |-> FALSE]

NewHandler == [step |-> "select", spent |-> 0, age |-> 0, begun |-> 0, lost |-> 0, error |-> "none",
               cancelled |-> FALSE, wanted |-> TRUE]

\* Ages beyond both of the server's timeouts need not be told apart.
Older(age) == IF age > ReadTimeout /\ age > WriteTimeout THEN age ELSE age + 1

CallTypeOK ==
    /\ spec \in [interval : Int, timeout : Int, count : Nat \ {0}]
    /\ caller \in {"idle", "waiting"}
    /\ elapsed \in 0..(IF Deadline(spec) > 0 THEN Deadline(spec) ELSE 0)
    /\ late \in 0..MaxLate
    /\ reply \in ProbeResult
    /\ \A i \in DOMAIN handlers :
          /\ handlers[i].spent \in 0..AgentTimeout(spec)
          /\ handlers[i].begun \in 0..spec.count
          /\ handlers[i].lost \in 0..handlers[i].begun
          /\ handlers[i].wanted => caller = "waiting" /\ i = Len(handlers)

CallInit ==
    /\ \E resource \in Resources : spec = Reconciled(ParseSpec(resource))
    /\ door \in Doors
    /\ caller = "idle" /\ elapsed = 0 /\ wire = Empty /\ late = 0 /\ reply = NoReply
    /\ handlers = <<>> /\ record = NoRecord

-----------------------------------------------------------------------------
(* The controller. *)

\* No request leaves with a context that has already ended.
Send ==
    /\ caller = "idle"
    /\ caller' = "waiting"
    /\ elapsed' = 0 /\ wire' = (IF Deadline(spec) > 0 THEN Request ELSE Empty)
    /\ reply' = NoReply /\ record' = NoRecord
    /\ UNCHANGED <<spec, door, late, handlers>>

\* What a handler measures for nobody is left out of the model.
Abandoned(h) == [h EXCEPT !.wanted = FALSE, !.lost = 0, !.error = "none"]

Returns(result) ==
    /\ caller = "waiting"
    /\ caller' = "idle" /\ elapsed' = 0
    /\ reply' = result
    /\ handlers' = [i \in DOMAIN handlers |-> Abandoned(handlers[i])]

Receive ==
    /\ wire.holds = "response"
    /\ Returns(wire.result)
    /\ wire' = Empty
    /\ UNCHANGED <<spec, door, late, record>>

\* The request's context ends; a request not taken up is left to the agent.
GiveUp ==
    /\ elapsed >= Deadline(spec)
    /\ Returns(ControlFailure)
    /\ wire' = Empty
    /\ late' = IF wire.holds = "request" /\ late < MaxLate THEN late + 1 ELSE late
    /\ UNCHANGED <<spec, door, record>>

-----------------------------------------------------------------------------
(* The agent's HTTP server. *)

\* Some kinds of address are refused whatever the list of networks says.
validateTarget(kind, listed) ==
    kind \notin {"hostname", "linkLocal", "multicast", "unspecified"} /\ listed

Authorized(token, bearer) == token = "" \/ bearer = token

Admits == Authorized(door.token, door.bearer) /\ validateTarget(door.kind, door.listed)

\* A refusal is an answer with another code than 200: an error for the caller.
Refuse ==
    /\ wire = Request /\ ~Admits
    /\ wire' = Response(ControlFailure)
    /\ UNCHANGED <<spec, door, caller, elapsed, late, reply, handlers, record>>

Accept ==
    /\ wire = Request /\ Admits
    /\ wire' = Empty
    /\ handlers' = Append(handlers, NewHandler)
    /\ record' = [record EXCEPT !.ended = 0, !.lost = 0]
    /\ UNCHANGED <<spec, door, caller, elapsed, late, reply>>

\* A request left to the agent is refused, lost with its connection, or handled
\* to its end; no caller learns which.
LateEnds ==
    /\ late > 0
    /\ late' = late - 1
    /\ UNCHANGED <<spec, door, caller, elapsed, wire, reply, handlers, record>>

\* The server cancels a request whose caller has gone, and may do so when its
\* read timeout is over; the handler learns of it at the top of its loop.
Cancel(i) ==
    /\ ~handlers[i].cancelled
    /\ ~handlers[i].wanted \/ handlers[i].age >= ReadTimeout
    /\ handlers' = [handlers EXCEPT ![i].cancelled = TRUE]
    /\ UNCHANGED <<spec, door, caller, elapsed, wire, late, reply, record>>

\* A connection that ends without an answer is an error for the caller, unless
\* it had served a call before: then net/http sends the request again.
ConnectionLost == {Response(ControlFailure), Request}

\* The handler ends.  Nobody may wait for its response any more; if the write
\* timeout is over the connection is closed in its place.
Respond(i, result) ==
    /\ handlers' = RemoveAt(handlers, i)
    /\ wire' \in IF ~handlers[i].wanted THEN {wire}
                 ELSE IF handlers[i].age > WriteTimeout THEN ConnectionLost
                 ELSE {Response(result)}
    /\ UNCHANGED <<spec, door, caller, elapsed, late, reply, record>>

\* The agent's container restarts.
AgentCrashes ==
    /\ handlers # <<>>
    /\ handlers' = <<>> /\ late' = 0
    /\ wire' \in IF caller = "waiting" /\ wire = Empty THEN ConnectionLost ELSE {wire}
    /\ record' = IF caller = "waiting" THEN [record EXCEPT !.crashed = TRUE] ELSE record
    /\ UNCHANGED <<spec, door, caller, elapsed, reply>>

-----------------------------------------------------------------------------
(* ExecuteProbe. *)

\* A probe of handler i that ends or connects goes into the record of its call.
Note(i, ended, lost, connected) ==
    record' = IF ~handlers[i].wanted THEN record
              ELSE [record EXCEPT !.ended = @ + ended, !.lost = @ + lost,
                                  !.connected = @ \/ connected]

\* Mutant of ProbesLeft: one probe too many.
ProbesLeftOneMore(h) == h.begun <= spec.count

ProbesLeft(h) == h.begun < spec.count

Begin(i) ==
    /\ handlers[i].step = "select" /\ ProbesLeft(handlers[i])
    /\ ~handlers[i].cancelled
    /\ handlers' = [handlers EXCEPT ![i].step = "dial", ![i].spent = 0, ![i].begun = @ + 1]
    /\ UNCHANGED <<spec, door, caller, elapsed, wire, late, reply, record>>

\* Mutant of PartialResult: what was measured so far is reported.
PartialResultMeasured(h) == IF h.begun > h.lost THEN Reached(0) ELSE Unreachable("timeout")

\* A cancelled loop reports no measurement, whatever it has measured so far.
PartialResult(h) == ControlFailure

Interrupted(i) ==
    /\ handlers[i].step = "select" /\ ProbesLeft(handlers[i])
    /\ handlers[i].cancelled
    /\ Respond(i, PartialResult(handlers[i]))

\* The pair is reached if any probe was; its error is that of the last loss.
Result(h) == IF h.lost = spec.count THEN Unreachable(h.error)
                                    ELSE Reached((100 * h.lost) \div spec.count)

Finish(i) ==
    /\ handlers[i].step = "select" /\ ~ProbesLeft(handlers[i])
    /\ Respond(i, Result(handlers[i]))

\* The data plane lets the connection through: the exchange has a deadline of
\* its own, as long as that of the dial.
Connect(i) ==
    /\ handlers[i].step = "dial"
    /\ handlers' = [handlers EXCEPT ![i].step = "exchange", ![i].spent = 0]
    /\ Note(i, 0, 0, TRUE)
    /\ UNCHANGED <<spec, door, caller, elapsed, wire, late, reply>>

Ack(i) ==
    /\ handlers[i].step = "exchange"
    /\ handlers' = [handlers EXCEPT ![i].step = "select", ![i].spent = 0]
    /\ Note(i, 1, 0, FALSE)
    /\ UNCHANGED <<spec, door, caller, elapsed, wire, late, reply>>

\* A dial is refused, a connection is closed without an ack, or either takes
\* longer than the timeout.
Lose(i, error) ==
    /\ \/ handlers[i].step = "dial" /\ error = "refused"
       \/ handlers[i].step = "dial" /\ error = "timeout" /\ handlers[i].spent = AgentTimeout(spec)
       \/ handlers[i].step = "exchange" /\ error = "timeout"
    /\ handlers' = [handlers EXCEPT ![i].step = "select", ![i].spent = 0,
                              ![i].lost  = IF handlers[i].wanted THEN @ + 1 ELSE @,
                              ![i].error = IF handlers[i].wanted THEN error ELSE @]
    /\ Note(i, 1, 1, FALSE)
    /\ UNCHANGED <<spec, door, caller, elapsed, wire, late, reply>>

-----------------------------------------------------------------------------
(* Time. *)

\* What has to happen before time goes on: timeouts and local steps.
CallUrgent ==
    \/ caller = "waiting" /\ elapsed >= Deadline(spec)
    \/ \E i \in DOMAIN handlers : \/ handlers[i].step = "select"
                                  \/ handlers[i].spent = AgentTimeout(spec)

CallTick ==
    /\ elapsed' = IF caller = "waiting" THEN elapsed + 1 ELSE elapsed
    /\ handlers' = [i \in DOMAIN handlers |->
                        [handlers[i] EXCEPT !.spent = @ + 1, !.age = Older(@)]]
    /\ record' = IF caller = "waiting" /\ wire # Empty THEN [record EXCEPT !.delay = @ + 1] ELSE record
    /\ UNCHANGED <<spec, door, caller, wire, late, reply>>

CallNext ==
    \/ Receive \/ GiveUp
    \/ Refuse \/ Accept \/ LateEnds \/ AgentCrashes
    \/ \E i \in DOMAIN handlers :
          \/ Cancel(i) \/ Begin(i) \/ Interrupted(i) \/ Finish(i) \/ Connect(i) \/ Ack(i)
          \/ \E error \in {"refused", "timeout"} : Lose(i, error)

-----------------------------------------------------------------------------
Returned == caller = "idle" /\ reply # NoReply

\* What a call reports as measured was measured by this call and in full: all
\* its probes ended before the caller's time was up, none of an earlier call's,
\* and the loss is that of exactly these probes.
MeasuredMeansComplete ==
    Returned /\ ~reply.agentError =>
        /\ record.ended = spec.count
        /\ reply.success <=> record.lost < spec.count
        /\ reply.success => reply.loss = (100 * record.lost) \div spec.count

\* The timeouts of the agent's server leave room for the check's settings.
ServerGrants == spec.timeout * spec.count <= ReadTimeout /\ spec.timeout * spec.count <= WriteTimeout

\* A data plane that lets no connection through is measured as such, and not
\* taken for an agent that cannot be asked: the deadline of the call leaves
\* time for a timeout of each dial and nearly a second of control channel.
DropIsMeasured ==
    Returned /\ Admits /\ spec.timeout > 0 /\ ServerGrants
        /\ ~record.connected /\ ~record.crashed /\ record.delay < Second => ~reply.agentError

\* The work of calls given up ends, even if the agent never notices that its
\* callers are gone: a request taken up while its caller waited is handled for
\* at most two timeouts per probe, and no more than three of them at once.  It
\* says nothing of how many requests left to the agent it takes up later.
UnwantedWorkEnds ==
    spec.timeout > 0 =>
        /\ \A i \in DOMAIN handlers : handlers[i].age <= 2 * spec.timeout * spec.count
        /\ Len(handlers) <= 3

\* probe.go: "so a probe timeout is not misclassified as an agent/control-
\* channel failure".  An agent that can be asked without delay gets to answer.
TimeoutIsNotAgentError ==
    Returned /\ Admits /\ spec.timeout > 0 /\ ServerGrants
        /\ ~record.crashed /\ record.delay = 0 => ~reply.agentError
=============================================================================
