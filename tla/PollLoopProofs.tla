--------------------------- MODULE PollLoopProofs ---------------------------
(***************************************************************************)
(* What holds of the polling loop and its calls for every check, every     *)
(* configuration of the agent, every interval and any number of calls per  *)
(* round, however long agents and the data plane take.                     *)
(***************************************************************************)
EXTENDS PollLoop, SequenceTheorems, TLAPS

Handler == [step : {"select", "dial", "exchange"}, spent : Nat, age : Nat, begun : Nat, lost : Nat,
            error : {"none", "refused", "timeout"}, cancelled : BOOLEAN, wanted : BOOLEAN]

\* Of one handler: a probe under way has begun and is not yet lost.
HandlerInv(h) ==
    /\ h.spent <= AgentTimeout(spec)
    /\ h.begun <= spec.count
    /\ h.step = "select" => h.spent = 0 /\ h.lost <= h.begun
    /\ h.step # "select" => h.lost < h.begun

\* At most the youngest handler is wanted, and then nothing is on the wire.
CallInv ==
    /\ spec \in [interval : Int, timeout : Int, count : Nat \ {0}]
    /\ caller \in {"idle", "waiting"}
    /\ elapsed \in Nat /\ (elapsed = 0 \/ elapsed <= Deadline(spec)) /\ (caller = "idle" => elapsed = 0)
    /\ wire \in [holds : {"nothing", "request", "response"}, result : ProbeResult]
    /\ wire.holds = "nothing" => wire = Empty
    /\ wire.holds = "request" => wire = Request
    /\ wire.holds # "nothing" => caller = "waiting"
    /\ late \in 0..MaxLate
    /\ reply \in ProbeResult
    /\ record \in [delay : Nat, ended : Nat, lost : Nat, connected : BOOLEAN, crashed : BOOLEAN]
    /\ handlers \in Seq(Handler)
    /\ \A i \in DOMAIN handlers :
          /\ HandlerInv(handlers[i])
          /\ handlers[i].wanted => caller = "waiting" /\ i = Len(handlers) /\ wire = Empty

\* A result tells of the probes in the record.
Tells(result) ==
    ~result.agentError =>
        /\ record.ended = spec.count
        /\ result.success <=> record.lost < spec.count
        /\ result.success => result.loss = (100 * record.lost) \div spec.count

\* The record follows the wanted handler until its result is returned.
RecordInv ==
    /\ \A i \in DOMAIN handlers : handlers[i].wanted =>
          /\ record.lost = handlers[i].lost
          /\ record.ended = IF handlers[i].step = "select" THEN handlers[i].begun ELSE handlers[i].begun - 1
    /\ wire.holds = "response" => Tells(wire.result)
    /\ Returned => Tells(reply)

\* The call is about an agent that answers and a data plane that drops.
Dropped == Admits /\ spec.timeout > 0 /\ ServerGrants /\ ~record.connected /\ ~record.crashed

\* An upper bound on the age of a handler all of whose dials are dropped.
DialTime(h) == AgentTimeout(spec) * (IF h.step = "select" THEN h.begun ELSE h.begun - 1) + h.spent

\* The time of a call is spent on the wire or in dials.
DropInv ==
    /\ \A i \in DOMAIN handlers : Dropped /\ handlers[i].wanted =>
          /\ handlers[i].step # "exchange"
          /\ handlers[i].age <= DialTime(handlers[i])
          /\ handlers[i].cancelled => handlers[i].age >= ReadTimeout
          /\ elapsed = record.delay + handlers[i].age
    /\ Dropped /\ caller = "waiting" /\ wire.holds = "request" => elapsed = record.delay
    /\ Dropped /\ wire.holds = "response" =>
          ~wire.result.agentError /\ elapsed <= record.delay + spec.timeout * spec.count
    /\ Dropped /\ caller = "waiting" /\ wire.holds = "nothing" =>
          \E i \in DOMAIN handlers : handlers[i].wanted
    /\ Dropped /\ Returned /\ record.delay < Second => ~reply.agentError

\* The time a handler may have taken for what it has done.
Work(h) ==
    AgentTimeout(spec) * (2 * (IF h.step = "select" THEN h.begun ELSE h.begun - 1)
                          + (IF h.step = "exchange" THEN 1 ELSE 0)) + h.spent

\* No handler is older than its work.  One that nobody wants has worked for as
\* long as the calls since have taken, and a call that leaves a handler behind
\* took its whole deadline.
WorkInv ==
    spec.timeout > 0 =>
        /\ \A i \in DOMAIN handlers : handlers[i].age <= Work(handlers[i])
        /\ \A i \in DOMAIN handlers : ~handlers[i].wanted => Work(handlers[i]) >= elapsed
        /\ \A i, j \in DOMAIN handlers : i < j /\ ~handlers[j].wanted =>
              Work(handlers[i]) >= Deadline(spec) + elapsed
        /\ Len(handlers) <= 3
        /\ Len(handlers) = 3 => handlers[3].wanted

Wait == (IF spec.interval > 0 THEN spec.interval ELSE 0) + PollInterval
CallTime == IF Deadline(spec) > 0 THEN Deadline(spec) ELSE 0

\* The time since the latest status: what was left of the interval, the ticker
\* and the calls of the round so far.
LoopInv ==
    /\ loop \in {"wait", "round"} /\ ticked \in BOOLEAN
    /\ toTick \in 0..PollInterval /\ todo \in 0..Calls
    /\ second \in 0..(Second - 1) /\ cut \in 0..(Second - 1)
    /\ idle \in Nat /\ rounds \in 0..1
    /\ caller = "waiting" => loop = "round"
    /\ rounds = 0 => idle = 0
    /\ rounds = 1 => toTick # 0
    /\ loop = "wait" => idle <= Wait
    /\ loop = "wait" /\ ~ticked => idle + toTick <= Wait
    /\ loop = "round" /\ caller = "idle" => idle <= Wait + CallTime * (Calls - todo)
    /\ caller = "waiting" => idle <= Wait + CallTime * (Calls - todo) - (CallTime - elapsed)

IInv == CallInv /\ RecordInv /\ DropInv /\ WorkInv /\ LoopInv

-----------------------------------------------------------------------------
\* Agents always have a positive timeout; it is the check's if that is positive.
LEMMA Timeouts ==
    ASSUME CallInv
    PROVE  /\ AgentTimeout(spec) \in Nat \ {0}
           /\ spec.timeout > 0 => AgentTimeout(spec) = spec.timeout
           /\ spec.count \in Nat \ {0} /\ spec.timeout \in Int /\ spec.interval \in Int
           /\ Deadline(spec) \in Int /\ spec.timeout * spec.count \in Int
           /\ Deadline(spec) = spec.timeout * spec.count + Second
BY CheckSpecAssumption DEF CallInv, AgentTimeout, Deadline

\* The handlers and what is known of each.
LEMMA HandlersTyped ==
    ASSUME CallInv
    PROVE  /\ Len(handlers) \in Nat /\ DOMAIN handlers = 1..Len(handlers)
           /\ \A i \in DOMAIN handlers : handlers[i] \in Handler /\ HandlerInv(handlers[i])
BY DEF CallInv

\* Work and dial time are numbers.
LEMMA WorkTyped ==
    ASSUME CallInv, NEW h \in Handler
    PROVE  Work(h) \in Int /\ DialTime(h) \in Int
<1> DEFINE T == AgentTimeout(spec)
           x == 2 * (IF h.step = "select" THEN h.begun ELSE h.begun - 1)
                    + (IF h.step = "exchange" THEN 1 ELSE 0)
           y == IF h.step = "select" THEN h.begun ELSE h.begun - 1
<1>1. T \in Int /\ h.spent \in Int
  BY Timeouts DEF Handler
<1>2. x \in Int /\ y \in Int
  BY DEF Handler
<1>3. Work(h) = T * x + h.spent /\ DialTime(h) = T * y + h.spent
  BY DEF Work, DialTime
<1> HIDE DEF T, x, y
<1>4. T * x + h.spent \in Int /\ T * y + h.spent \in Int
  BY <1>1, <1>2
<1> QED
  BY <1>3, <1>4

\* What the loop's part of the invariant asks of a step of a call.
LEMMA LoopUnchanged ==
    ASSUME IInv, UNCHANGED loopVars, spec' = spec,
           \/ UNCHANGED <<caller, elapsed>>
           \/ caller = "waiting" /\ caller' = "idle" /\ elapsed' = 0
    PROVE  LoopInv'
<1>1. CallTime' = CallTime /\ Wait' = Wait
  BY DEF CallTime, Wait, Deadline
<1>2. CallTime \in Nat /\ elapsed \in 0..CallTime
  BY Timeouts DEF IInv, CallInv, CallTime
<1>3. CASE UNCHANGED <<caller, elapsed>>
  BY <1>1, <1>3 DEF IInv, LoopInv, loopVars
<1>4. CASE caller = "waiting" /\ caller' = "idle" /\ elapsed' = 0
  <2> DEFINE soFar == CallTime * (Calls - todo)
  <2>1. soFar \in Int /\ Wait \in Nat
    BY <1>2, PollLoopAssumption, Timeouts DEF IInv, LoopInv, Wait
  <2>2. loop = "round" /\ idle <= Wait + soFar - (CallTime - elapsed)
    BY <1>4 DEF IInv, LoopInv
  <2>3. idle \in Nat
    BY DEF IInv, LoopInv
  <2> HIDE DEF soFar
  <2>4. idle <= Wait + soFar
    BY <1>2, <2>1, <2>2, <2>3
  <2> QED
    BY <1>1, <1>4, <2>2, <2>4 DEF IInv, LoopInv, loopVars, soFar
<1> QED
  BY <1>3, <1>4

\* What the calls' parts of the invariant ask of a step that leaves
\* the calls alone.
LEMMA CallsUnchanged ==
    ASSUME IInv, UNCHANGED <<spec, door, caller, elapsed, wire, reply, handlers, record>>,
           late' \in 0..MaxLate
    PROVE  CallInv' /\ RecordInv' /\ DropInv' /\ WorkInv'
<1>1. UNCHANGED <<spec, door, caller, elapsed, wire, reply, handlers, record>>
  OBVIOUS
<1>2. CallInv'
  BY <1>1 DEF IInv, CallInv, HandlerInv
<1>3. RecordInv'
  BY <1>1 DEF IInv, RecordInv, Tells, Returned
<1>4. DropInv'
  <2>1. Dropped' <=> Dropped
    BY <1>1 DEF Dropped, Admits, ServerGrants
  <2>2. \A k \in DOMAIN handlers : DialTime(handlers[k])' = DialTime(handlers[k])
    BY <1>1 DEF DialTime
  <2> QED
    BY <1>1, <2>1, <2>2 DEF IInv, DropInv, Returned
<1>5. WorkInv'
  <2>1. \A k \in DOMAIN handlers : Work(handlers[k])' = Work(handlers[k])
    BY <1>1 DEF Work
  <2> QED
    BY <1>1, <2>1 DEF IInv, WorkInv
<1> QED
  BY <1>2, <1>3, <1>4, <1>5

\* A handler that goes on and is as old as before: what has to hold of its new
\* state g.
LEMMA HandlerStep ==
    ASSUME IInv, UNCHANGED loopVars, UNCHANGED <<spec, door, caller, elapsed, wire, late, reply>>,
           NEW i \in DOMAIN handlers, NEW g \in Handler, handlers' = [handlers EXCEPT ![i] = g],
           HandlerInv(g), g.wanted = handlers[i].wanted, g.age = handlers[i].age,
           Work(g) >= Work(handlers[i]),
           record' \in [delay : Nat, ended : Nat, lost : Nat, connected : BOOLEAN, crashed : BOOLEAN],
           record'.delay = record.delay, record'.crashed = record.crashed,
           record.connected => record'.connected,
           ~g.wanted => record' = record,
           g.wanted => /\ record'.lost = g.lost
                       /\ record'.ended = IF g.step = "select" THEN g.begun ELSE g.begun - 1,
           g.wanted /\ Dropped /\ ~record'.connected =>
                /\ g.step # "exchange" /\ g.age <= DialTime(g)
                /\ g.cancelled => g.age >= ReadTimeout
    PROVE  IInv'
<1> DEFINE h == handlers[i]
<1>0. /\ Len(handlers) \in Nat /\ DOMAIN handlers = 1..Len(handlers) /\ handlers \in Seq(Handler)
      /\ \A k \in DOMAIN handlers : handlers[k] \in Handler /\ HandlerInv(handlers[k])
  BY HandlersTyped DEF IInv, CallInv
<1>1. /\ handlers' \in Seq(Handler) /\ Len(handlers') = Len(handlers)
      /\ DOMAIN handlers' = DOMAIN handlers
      /\ handlers'[i] = g /\ \A k \in DOMAIN handlers : k # i => handlers'[k] = handlers[k]
  BY <1>0
<1>3. CallInv'
  <2>1. \A k \in DOMAIN handlers' :
          /\ HandlerInv(handlers[k])'
          /\ (handlers[k].wanted => caller = "waiting" /\ k = Len(handlers) /\ wire = Empty)'
    <3> SUFFICES ASSUME NEW k \in DOMAIN handlers
                 PROVE  /\ HandlerInv(handlers[k])'
                        /\ (handlers[k].wanted => caller = "waiting" /\ k = Len(handlers) /\ wire = Empty)'
      BY <1>1
    <3>1. CASE k = i
      BY <1>1, <3>1 DEF IInv, CallInv, HandlerInv
    <3>2. CASE k # i
      BY <1>0, <1>1, <3>2 DEF IInv, CallInv, HandlerInv
    <3> QED
      BY <3>1, <3>2
  <2> QED
    BY <1>1, <2>1 DEF IInv, CallInv, Request, Empty
<1>4. RecordInv'
  <2>1. CASE ~g.wanted
    <3>1. \A k \in DOMAIN handlers : handlers'[k].wanted => k # i /\ handlers'[k] = handlers[k]
      BY <1>1, <2>1
    <3> QED
      BY <1>1, <2>1, <3>1 DEF IInv, RecordInv, Tells, Returned
  <2>2. CASE g.wanted
    <3>1. caller = "waiting" /\ i = Len(handlers) /\ wire = Empty
      BY <2>2 DEF IInv, CallInv
    <3>2. \A k \in DOMAIN handlers : handlers'[k].wanted => k = i
      BY <1>1, <3>1 DEF IInv, CallInv
    <3> QED
      BY <1>1, <2>2, <3>1, <3>2 DEF RecordInv, Returned, Empty
  <2> QED
    BY <2>1, <2>2 DEF Handler
<1>5. DropInv'
  <2>1. Dropped' => Dropped
    BY DEF Dropped, Admits, ServerGrants
  <2>2. CASE ~g.wanted
    <3>1. \A k \in DOMAIN handlers : handlers'[k].wanted => k # i /\ handlers'[k] = handlers[k]
      BY <1>1, <2>2
    <3>2. \A k \in DOMAIN handlers : handlers[k].wanted => k # i /\ handlers'[k] = handlers[k]
      BY <1>1, <2>2
    <3> QED
      BY <1>1, <2>1, <2>2, <3>1, <3>2 DEF IInv, DropInv, Returned, DialTime
  <2>3. CASE g.wanted
    <3>1. caller = "waiting" /\ i = Len(handlers) /\ wire = Empty
      BY <2>3 DEF IInv, CallInv
    <3>2. \A k \in DOMAIN handlers : handlers'[k].wanted => k = i
      BY <1>1, <3>1 DEF IInv, CallInv
    <3>3. Dropped' => elapsed = record.delay + g.age
      BY <2>1, <2>3 DEF IInv, DropInv
    <3>4. Dropped' => ~record'.connected
      BY DEF Dropped
    <3>5. DialTime(g)' = DialTime(g)
      BY DEF DialTime
    <3> QED
      BY <1>1, <2>1, <2>3, <3>1, <3>2, <3>3, <3>4, <3>5 DEF DropInv, Returned, Empty
  <2> QED
    BY <2>2, <2>3 DEF Handler
<1>6. WorkInv'
  <2> SUFFICES ASSUME spec.timeout > 0 PROVE WorkInv'
    BY DEF WorkInv
  <2>1. \A k \in DOMAIN handlers : Work(handlers[k])' >= Work(handlers[k]) /\ Work(handlers[k]) \in Int
    <3> SUFFICES ASSUME NEW k \in DOMAIN handlers
                 PROVE  Work(handlers[k])' >= Work(handlers[k]) /\ Work(handlers[k]) \in Int
      OBVIOUS
    <3>1. Work(handlers[k]) \in Int
      BY <1>0, WorkTyped DEF IInv
    <3>2. CASE k = i
      <4>1. Work(handlers[k])' = Work(g)
        BY <1>1, <3>2 DEF Work
      <4> QED
        BY <3>1, <3>2, <4>1
    <3>3. CASE k # i
      <4>1. Work(handlers[k])' = Work(handlers[k])
        BY <1>1, <3>3 DEF Work
      <4> QED
        BY <3>1, <4>1
    <3> QED
      BY <3>1, <3>2, <3>3
  <2>2. \A k \in DOMAIN handlers : handlers'[k].wanted = handlers[k].wanted /\ Work(handlers[k])' \in Int
    <3>1. ASSUME NEW k \in DOMAIN handlers PROVE Work(handlers[k])' \in Int
      <4>1. handlers'[k] \in Handler
        BY <1>0, <1>1
      <4>2. Work(handlers[k])' = Work(handlers'[k])
        BY DEF Work
      <4> QED
        BY <4>1, <4>2, WorkTyped DEF IInv
    <3> QED
      BY <1>1, <3>1
  <2>3. elapsed \in Int /\ Deadline(spec) \in Int /\ Deadline(spec') = Deadline(spec)
    BY Timeouts DEF IInv, CallInv
  <2> QED
    <3> DEFINE D == Deadline(spec)
    <3>1. \A k \in DOMAIN handlers : ~handlers[k].wanted => Work(handlers[k]) >= elapsed
      BY DEF IInv, WorkInv
    <3>2. \A k, l \in DOMAIN handlers : k < l /\ ~handlers[l].wanted => Work(handlers[k]) >= D + elapsed
      BY DEF IInv, WorkInv
    <3>3. \A k \in DOMAIN handlers : handlers[k].age <= Work(handlers[k])
      BY DEF IInv, WorkInv
    <3>4. Len(handlers) <= 3 /\ (Len(handlers) = 3 => handlers[3].wanted)
      BY DEF IInv, WorkInv
    <3> HIDE DEF D
    <3>5. \A k \in DOMAIN handlers : ~handlers'[k].wanted => Work(handlers[k])' >= elapsed
      BY <2>1, <2>2, <2>3, <3>1
    <3>6. \A k, l \in DOMAIN handlers : k < l /\ ~handlers'[l].wanted => Work(handlers[k])' >= D + elapsed
      BY <2>1, <2>2, <2>3, <3>2 DEF D
    <3>7. \A k \in DOMAIN handlers : handlers'[k].age <= Work(handlers[k])'
      <4>1. \A k \in DOMAIN handlers : handlers'[k].age = handlers[k].age /\ handlers[k].age \in Nat
        BY <1>0, <1>1 DEF Handler
      <4> QED
        BY <2>1, <2>2, <3>3, <4>1
    <3>8. Len(handlers) = 3 => handlers'[3].wanted
      BY <1>0, <2>2, <3>4
    <3> QED
      BY <1>1, <2>3, <3>4, <3>5, <3>6, <3>7, <3>8 DEF WorkInv, D
<1>7. LoopInv'
  BY LoopUnchanged
<1> QED
  BY <1>3, <1>4, <1>5, <1>6, <1>7 DEF IInv

\* RemoveAt takes one handler out and keeps the order of the others.
LEMMA Removed ==
    ASSUME CallInv, NEW i \in DOMAIN handlers
    PROVE  LET r == RemoveAt(handlers, i)
               old(k) == IF k < i THEN k ELSE k + 1
           IN  /\ r \in Seq(Handler) /\ Len(r) = Len(handlers) - 1
               /\ DOMAIN r = 1..(Len(handlers) - 1)
               /\ \A k \in DOMAIN r : old(k) \in DOMAIN handlers /\ old(k) # i /\ r[k] = handlers[old(k)]
<1> DEFINE a == SubSeq(handlers, 1, i - 1)
           b == SubSeq(handlers, i + 1, Len(handlers))
           n == Len(handlers)
           old(k) == IF k < i THEN k ELSE k + 1
<1>0. n \in Nat /\ i \in 1..n /\ \A k \in 1..n : handlers[k] \in Handler
  BY HandlersTyped
<1>1. a \in Seq(Handler) /\ Len(a) = i - 1 /\ \A k \in 1..(i - 1) : a[k] = handlers[k]
  <2>1. \A k \in 1..(i - 1) : handlers[k] \in Handler
    BY <1>0
  <2>2. 1 \in Int /\ i - 1 \in Int
    BY <1>0
  <2>3. /\ SubSeq(handlers, 1, i - 1) \in Seq(Handler)
        /\ Len(SubSeq(handlers, 1, i - 1)) = IF 1 <= i - 1 THEN (i - 1) - 1 + 1 ELSE 0
        /\ \A k \in 1..((i - 1) - 1 + 1) : SubSeq(handlers, 1, i - 1)[k] = handlers[1 + k - 1]
    BY <2>1, <2>2, SubSeqProperties
  <2> QED
    BY <1>0, <2>3
<1>2. b \in Seq(Handler) /\ Len(b) = n - i /\ \A k \in 1..(n - i) : b[k] = handlers[i + k]
  <2>1. \A k \in (i + 1)..n : handlers[k] \in Handler
    BY <1>0
  <2>2. i + 1 \in Int /\ n \in Int
    BY <1>0
  <2>3. /\ SubSeq(handlers, i + 1, n) \in Seq(Handler)
        /\ Len(SubSeq(handlers, i + 1, n)) = IF i + 1 <= n THEN n - (i + 1) + 1 ELSE 0
        /\ \A k \in 1..(n - (i + 1) + 1) : SubSeq(handlers, i + 1, n)[k] = handlers[(i + 1) + k - 1]
    BY <2>1, <2>2, SubSeqProperties
  <2> QED
    BY <1>0, <2>3
<1> HIDE DEF a, b, n
<1>3. /\ a \o b \in Seq(Handler) /\ Len(a \o b) = n - 1
      /\ \A k \in 1..(n - 1) : (a \o b)[k] = IF k <= i - 1 THEN a[k] ELSE b[k - (i - 1)]
  <2>1. /\ a \o b \in Seq(Handler) /\ Len(a \o b) = Len(a) + Len(b)
        /\ \A k \in 1..(Len(a) + Len(b)) : (a \o b)[k] = IF k <= Len(a) THEN a[k] ELSE b[k - Len(a)]
    BY <1>1, <1>2, ConcatProperties
  <2> QED
    BY <1>0, <1>1, <1>2, <2>1
<1>4. DOMAIN (a \o b) = 1..(n - 1)
  BY <1>3
<1>5. ASSUME NEW k \in 1..(n - 1)
      PROVE  old(k) \in 1..n /\ old(k) # i /\ (a \o b)[k] = handlers[old(k)]
  <2>1. CASE k < i
    BY <1>0, <1>1, <1>3, <2>1
  <2>2. CASE ~(k < i)
    <3>1. k - (i - 1) \in 1..(n - i) /\ i + (k - (i - 1)) = k + 1
      BY <1>0, <2>2
    <3> QED
      BY <1>0, <1>2, <1>3, <2>2, <3>1
  <2> QED
    BY <2>1, <2>2
<1>6. RemoveAt(handlers, i) = a \o b /\ DOMAIN handlers = 1..n
  BY HandlersTyped DEF RemoveAt, a, b, n
<1> QED
  BY <1>3, <1>4, <1>5, <1>6 DEF n

\* A handler that ends with a result: what the result has to tell if its
\* caller still waits.
LEMMA RespondStep ==
    ASSUME IInv, UNCHANGED loopVars, NEW i \in DOMAIN handlers, NEW result \in ProbeResult,
           Respond(i, result),
           handlers[i].wanted => Tells(result),
           handlers[i].wanted /\ Dropped =>
                ~result.agentError /\ handlers[i].age <= spec.timeout * spec.count
    PROVE  IInv'
<1> DEFINE h == handlers[i]
           n == Len(handlers)
           old(k) == IF k < i THEN k ELSE k + 1
<1>0. n \in Nat /\ DOMAIN handlers = 1..n
  BY HandlersTyped DEF IInv
<1>1. /\ handlers' \in Seq(Handler) /\ Len(handlers') = n - 1 /\ DOMAIN handlers' = 1..(n - 1)
      /\ \A k \in DOMAIN handlers' : old(k) \in 1..n /\ old(k) # i /\ handlers'[k] = handlers[old(k)]
  BY <1>0, Removed DEF Respond, IInv
<1>2. UNCHANGED <<spec, door, caller, elapsed, late, reply, record>>
  BY DEF Respond
<1>3. /\ ~h.wanted => wire' = wire
      /\ h.wanted => /\ caller = "waiting" /\ i = n /\ wire = Empty
                     /\ wire' \in {Response(result), Response(ControlFailure), Request}
                     /\ h.age <= WriteTimeout => wire' = Response(result)
  <2>1. h.wanted => caller = "waiting" /\ i = n /\ wire = Empty
    BY DEF IInv, CallInv
  <2>2. h.age \in Nat /\ WriteTimeout \in Nat /\ h.wanted \in BOOLEAN
    BY HandlersTyped, ProbeCallAssumption DEF IInv, Handler
  <2>3. wire' \in IF ~h.wanted THEN {wire}
                  ELSE IF h.age > WriteTimeout THEN {Response(ControlFailure), Request}
                  ELSE {Response(result)}
    BY DEF Respond, ConnectionLost
  <2> QED
    BY <2>1, <2>2, <2>3
<1>4. \A k \in DOMAIN handlers' : handlers'[k].wanted => ~h.wanted /\ old(k) = n /\ k = n - 1
  <2> SUFFICES ASSUME NEW k \in DOMAIN handlers', handlers'[k].wanted
               PROVE  ~h.wanted /\ old(k) = n /\ k = n - 1
    OBVIOUS
  <2>1. old(k) = n /\ old(k) # i
    BY <1>0, <1>1 DEF IInv, CallInv
  <2>2. ~h.wanted
    BY <2>1, <1>3
  <2> QED
    BY <1>0, <1>1, <2>1, <2>2
<1>5. /\ ControlFailure \in ProbeResult /\ NoReply \in ProbeResult
      /\ \A q \in ProbeResult : Response(q) \in [holds : {"nothing", "request", "response"}, result : ProbeResult]
      /\ Request \in [holds : {"nothing", "request", "response"}, result : ProbeResult]
  BY DEF ProbeResult, ControlFailure, NoReply, Errors, Response, Request
<1>6. CallInv'
  <2>1. \A k \in DOMAIN handlers' :
          /\ HandlerInv(handlers[k])'
          /\ (handlers[k].wanted => caller = "waiting" /\ k = Len(handlers) /\ wire = Empty)'
    <3> SUFFICES ASSUME NEW k \in DOMAIN handlers'
                 PROVE  /\ HandlerInv(handlers[k])'
                        /\ (handlers[k].wanted => caller = "waiting" /\ k = Len(handlers) /\ wire = Empty)'
      OBVIOUS
    <3>1. HandlerInv(handlers[old(k)]) /\ handlers'[k] = handlers[old(k)]
      BY <1>0, <1>1 DEF IInv, CallInv
    <3>2. HandlerInv(handlers[k])'
      BY <1>2, <3>1 DEF HandlerInv
    <3>3. (handlers[k].wanted => caller = "waiting" /\ k = Len(handlers) /\ wire = Empty)'
      <4> SUFFICES ASSUME handlers'[k].wanted
                   PROVE  caller' = "waiting" /\ k = Len(handlers') /\ wire' = Empty
        BY DEF Empty
      <4>1. ~h.wanted /\ k = n - 1 /\ handlers[old(k)].wanted
        BY <1>4, <3>1
      <4>2. caller = "waiting" /\ wire = Empty
        BY <1>0, <1>1, <4>1 DEF IInv, CallInv
      <4> QED
        BY <1>1, <1>2, <1>3, <4>1, <4>2 DEF Empty
    <3> QED
      BY <3>2, <3>3
  <2>2. /\ wire' \in [holds : {"nothing", "request", "response"}, result : ProbeResult]
        /\ wire'.holds = "nothing" => wire' = Empty
        /\ wire'.holds = "request" => wire' = Request
        /\ wire'.holds # "nothing" => caller' = "waiting"
    <3>1. CASE ~h.wanted
      BY <1>2, <1>3, <3>1 DEF IInv, CallInv
    <3>2. CASE h.wanted
      BY <1>2, <1>3, <1>5, <3>2 DEF Response, Request
    <3> QED
      BY <3>1, <3>2
  <2>3. (Empty = Empty)' /\ Request' = Request /\ Empty' = Empty
    BY DEF Request, Empty, NoReply
  <2> QED
    BY <1>1, <1>2, <2>1, <2>2, <2>3 DEF IInv, CallInv
<1>7. RecordInv'
  <2>1. \A k \in DOMAIN handlers' : handlers'[k].wanted => handlers'[k] = handlers[n] /\ handlers[n].wanted /\ n \in DOMAIN handlers
    BY <1>0, <1>1, <1>4
  <2>2. wire'.holds = "response" => Tells(wire'.result)
    <3>1. CASE ~h.wanted
      BY <1>3, <3>1 DEF IInv, RecordInv
    <3>2. CASE h.wanted
      <4>1. Tells(ControlFailure)
        BY DEF Tells, ControlFailure
      <4> QED
        BY <1>3, <3>2, <4>1 DEF Response, Request
    <3> QED
      BY <3>1, <3>2
  <2>3. \A q : Tells(q)' <=> Tells(q)
    BY <1>2 DEF Tells
  <2> QED
    BY <1>2, <2>1, <2>2, <2>3 DEF IInv, RecordInv, Returned, Tells
<1>8. DropInv'
  <2>1. Dropped' <=> Dropped
    BY <1>2 DEF Dropped, Admits, ServerGrants
  <2>2. CASE ~h.wanted
    <3>1. \A k \in DOMAIN handlers' : handlers'[k].wanted => handlers'[k] = handlers[n] /\ handlers[n].wanted /\ n \in DOMAIN handlers
      BY <1>0, <1>1, <1>4
    <3>2. (\E k \in DOMAIN handlers : handlers[k].wanted) => (\E k \in DOMAIN handlers' : handlers'[k].wanted)
      <4> SUFFICES ASSUME NEW k \in DOMAIN handlers, handlers[k].wanted
                   PROVE  \E l \in DOMAIN handlers' : handlers'[l].wanted
        OBVIOUS
      <4>1. k = n /\ i < n
        BY <1>0, <2>2 DEF IInv, CallInv
      <4>2. n - 1 \in DOMAIN handlers' /\ old(n - 1) = n
        <5>1. i \in 1..n /\ n \in Nat /\ i < n
          BY <1>0, <4>1
        <5>2. n - 1 \in 1..(n - 1) /\ ~(n - 1 < i) /\ (n - 1) + 1 = n
          BY <5>1
        <5> QED
          BY <1>1, <5>2
      <4> QED
        BY <1>1, <4>1, <4>2
    <3>3. \A x : DialTime(x)' = DialTime(x)
      BY <1>2 DEF DialTime
    <3>4. wire' = wire
      BY <1>3, <2>2
    <3>5. \A k \in DOMAIN handlers' : Dropped /\ handlers'[k].wanted =>
            /\ handlers'[k].step # "exchange"
            /\ handlers'[k].age <= DialTime(handlers[k])'
            /\ handlers'[k].cancelled => handlers'[k].age >= ReadTimeout
            /\ elapsed = record.delay + handlers'[k].age
      BY <1>2, <3>1 DEF IInv, DropInv, DialTime
    <3> QED
      BY <1>2, <2>1, <3>2, <3>4, <3>5 DEF IInv, DropInv, Returned
  <2>3. CASE h.wanted
    <3>1. \A k \in DOMAIN handlers' : ~handlers'[k].wanted
      BY <1>4, <2>3
    <3>2. Dropped => wire' = Response(result)
      <4>1. Dropped => h.age <= WriteTimeout
        BY <2>3, Timeouts, HandlersTyped, ProbeCallAssumption DEF IInv, Dropped, ServerGrants, Handler
      <4> QED
        BY <1>3, <2>3, <4>1
    <3>3. Dropped => elapsed = record.delay + h.age
      BY <2>3 DEF IInv, DropInv
    <3>4. Dropped => elapsed <= record.delay + spec.timeout * spec.count
      <4>1. record.delay \in Int /\ h.age \in Int /\ spec.timeout * spec.count \in Int
        <5>1. CallInv /\ h \in Handler
          BY <1>0, HandlersTyped DEF IInv
        <5>2. h.age \in Nat
          BY <5>1 DEF Handler
        <5>3. record.delay \in Nat
          BY <5>1 DEF CallInv
        <5> QED
          BY <5>1, <5>2, <5>3, Timeouts
      <4> QED
        BY <2>3, <3>3, <4>1
    <3>5. caller' = "waiting"
      BY <1>2, <1>3, <2>3
    <3> QED
      BY <1>2, <2>1, <2>3, <3>1, <3>2, <3>4, <3>5 DEF DropInv, Returned, Response
  <2> QED
    BY <2>2, <2>3
<1>9. WorkInv'
  <2> SUFFICES ASSUME spec.timeout > 0 PROVE WorkInv'
    BY <1>2 DEF WorkInv
  <2> DEFINE D == Deadline(spec)
  <2>1. \A k \in DOMAIN handlers' : Work(handlers[k])' = Work(handlers[old(k)])
    BY <1>1, <1>2 DEF Work
  <2>2. D' = D
    BY <1>2
  <2>3. /\ \A k \in DOMAIN handlers : ~handlers[k].wanted => Work(handlers[k]) >= elapsed
        /\ \A k, l \in DOMAIN handlers : k < l /\ ~handlers[l].wanted => Work(handlers[k]) >= D + elapsed
        /\ \A k \in DOMAIN handlers : handlers[k].age <= Work(handlers[k])
        /\ n <= 3
    BY DEF IInv, WorkInv
  <2> HIDE DEF D
  <2>4. \A k \in DOMAIN handlers' : ~handlers'[k].wanted => Work(handlers[k])' >= elapsed
    BY <1>0, <1>1, <2>1, <2>3
  <2>5. ASSUME NEW k \in DOMAIN handlers', NEW l \in DOMAIN handlers', k < l, ~handlers'[l].wanted
        PROVE  Work(handlers[k])' >= D + elapsed
    <3>1. old(k) < old(l) /\ old(k) \in 1..n /\ old(l) \in 1..n /\ ~handlers[old(l)].wanted
      BY <1>0, <1>1, <2>5
    <3>2. Work(handlers[old(k)]) >= D + elapsed
      BY <1>0, <2>3, <3>1
    <3> QED
      BY <2>1, <3>2
  <2>6. \A k \in DOMAIN handlers' : handlers'[k].age <= Work(handlers[k])'
    BY <1>0, <1>1, <2>1, <2>3
  <2>8. Len(handlers') <= 3 /\ ~(Len(handlers') = 3)
    <3>1. Len(handlers') = n - 1 /\ n \in Nat /\ n <= 3
      BY <1>0, <1>1, <2>3
    <3> HIDE DEF n
    <3> QED
      BY <3>1
  <2> QED
    BY <1>2, <2>2, <2>4, <2>5, <2>6, <2>8 DEF WorkInv, D
<1>10. LoopInv'
  BY <1>2, LoopUnchanged
<1> QED
  BY <1>6, <1>7, <1>8, <1>9, <1>10 DEF IInv

-----------------------------------------------------------------------------
\* The steps of a handler.

\* The timeouts of a handler add up.
LEMMA Distributes ==
    ASSUME NEW T \in Int, NEW b \in Int
    PROVE  /\ T * (2 * (b - 1) + 1) = T * (2 * (b - 1)) + T
           /\ T * (2 * b) = T * (2 * (b - 1)) + T + T
           /\ T * b = T * (b - 1) + T
           /\ T * (2 * b) \in Int /\ T * b \in Int /\ T * (2 * (b - 1)) \in Int /\ T * (b - 1) \in Int
OBVIOUS

\* Work and dial time, by where the handler is.
LEMMA WorkBySteps ==
    ASSUME CallInv, NEW h \in Handler
    PROVE  LET T == AgentTimeout(spec) IN
           /\ h.step = "select" => /\ Work(h) = T * (2 * h.begun) + h.spent
                                   /\ DialTime(h) = T * h.begun + h.spent
           /\ h.step = "dial" => /\ Work(h) = T * (2 * (h.begun - 1)) + h.spent
                                 /\ DialTime(h) = T * (h.begun - 1) + h.spent
           /\ h.step = "exchange" => Work(h) = T * (2 * (h.begun - 1)) + T + h.spent
           /\ h.step \in {"select", "dial", "exchange"} /\ T \in Nat /\ h.begun \in Nat /\ h.spent \in Nat
<1> DEFINE T == AgentTimeout(spec)
<1>1. T \in Nat /\ h.begun \in Nat /\ h.spent \in Nat
  BY Timeouts DEF Handler
<1>2. T * (2 * (h.begun - 1) + 1) = T * (2 * (h.begun - 1)) + T
  BY <1>1, Distributes
<1>3. CASE h.step = "select"
  <2>1. 2 * h.begun + 0 = 2 * h.begun
    BY <1>1
  <2> QED
    BY <1>1, <1>3, <2>1 DEF Work, DialTime
<1>4. CASE h.step = "dial"
  <2>1. 2 * (h.begun - 1) + 0 = 2 * (h.begun - 1)
    BY <1>1
  <2> QED
    BY <1>1, <1>4, <2>1 DEF Work, DialTime
<1>5. CASE h.step = "exchange"
  BY <1>1, <1>2, <1>5 DEF Work
<1> QED
  BY <1>1, <1>3, <1>4, <1>5 DEF Handler

\* What a probe that ends or connects does to the record.
LEMMA Noted ==
    ASSUME CallInv, NEW i \in DOMAIN handlers, NEW ended \in Nat, NEW lost \in Nat,
           NEW connected \in BOOLEAN, Note(i, ended, lost, connected)
    PROVE  /\ record' \in [delay : Nat, ended : Nat, lost : Nat, connected : BOOLEAN, crashed : BOOLEAN]
           /\ record'.delay = record.delay /\ record'.crashed = record.crashed
           /\ record.connected => record'.connected
           /\ ~handlers[i].wanted => record' = record
           /\ handlers[i].wanted => /\ record'.lost = record.lost + lost
                                    /\ record'.ended = record.ended + ended
                                    /\ connected => record'.connected
<1>1. record \in [delay : Nat, ended : Nat, lost : Nat, connected : BOOLEAN, crashed : BOOLEAN]
  BY DEF CallInv
<1>2. CASE ~handlers[i].wanted
  BY <1>1, <1>2 DEF Note
<1>3. CASE handlers[i].wanted
  <2>1. PICK x \in Nat : x = record.ended + ended
    BY <1>1
  <2>2. PICK y \in Nat : y = record.lost + lost
    BY <1>1
  <2>3. PICK z \in BOOLEAN : z = (record.connected \/ connected)
    BY <1>1
  <2>4. record' = [record EXCEPT !.ended = x, !.lost = y, !.connected = z]
    BY <1>3, <2>1, <2>2, <2>3 DEF Note
  <2>5. record' \in [delay : Nat, ended : Nat, lost : Nat, connected : BOOLEAN, crashed : BOOLEAN]
    BY <1>1, <2>4
  <2>6. /\ record'.delay = record.delay /\ record'.crashed = record.crashed
        /\ record'.ended = x /\ record'.lost = y /\ record'.connected = z
    BY <1>1, <2>4
  <2>7. (record.connected => record'.connected) /\ (connected => record'.connected)
    BY <2>3, <2>6
  <2> QED
    BY <1>3, <2>1, <2>2, <2>5, <2>6, <2>7
<1> QED
  BY <1>2, <1>3

\* Begin starts the next probe.
LEMMA BeginStep ==
    ASSUME IInv, UNCHANGED loopVars, NEW i \in DOMAIN handlers, Begin(i) PROVE IInv'
<1> DEFINE h == handlers[i]
           T == AgentTimeout(spec)
<1>1. h \in Handler /\ HandlerInv(h) /\ h.step = "select" /\ h.begun < spec.count /\ ~h.cancelled
  BY HandlersTyped DEF IInv, Begin, ProbesLeft
<1>2. handlers \in Seq(Handler) /\ T \in Nat /\ spec.count \in Nat
  BY Timeouts DEF IInv, CallInv
<1>3. PICK b \in Nat : b = h.begun + 1
  BY <1>1 DEF Handler
<1>4. PICK g : /\ g = [h EXCEPT !.step = "dial", !.spent = 0, !.begun = b]
               /\ handlers' = [handlers EXCEPT ![i] = g]
  BY <1>2, <1>3 DEF Begin
<1>5. g \in Handler
  BY <1>1, <1>4 DEF Handler
<1>6. /\ g.step = "dial" /\ g.spent = 0 /\ g.begun = b /\ g.age = h.age /\ g.lost = h.lost
      /\ g.cancelled = h.cancelled /\ g.wanted = h.wanted
  BY <1>1, <1>4 DEF Handler
<1>7. HandlerInv(g)
  BY <1>1, <1>2, <1>3, <1>6 DEF HandlerInv, Handler
<1>8. Work(g) >= Work(h) /\ DialTime(g) = DialTime(h)
  <2>1. h.spent = 0 /\ b - 1 = h.begun
    BY <1>1, <1>3 DEF HandlerInv, Handler
  <2>2. Work(g) = Work(h) /\ DialTime(g) = DialTime(h)
    BY <1>1, <1>5, <1>6, <2>1, WorkBySteps DEF IInv
  <2> QED
    BY <1>1, <2>2, WorkTyped DEF IInv
<1>9. UNCHANGED <<spec, door, caller, elapsed, wire, late, reply, record>>
  BY DEF Begin
<1>10. g.wanted => record'.lost = g.lost /\ record'.ended = g.begun - 1
  <2>1. h.wanted => record.lost = h.lost /\ record.ended = h.begun
    BY <1>1 DEF IInv, RecordInv
  <2>2. b - 1 = h.begun
    BY <1>1, <1>3 DEF Handler
  <2> QED
    BY <1>6, <1>9, <2>1, <2>2
<1>11. g.wanted /\ Dropped => g.age <= DialTime(g)
  BY <1>6, <1>8 DEF IInv, DropInv
<1>12. record \in [delay : Nat, ended : Nat, lost : Nat, connected : BOOLEAN, crashed : BOOLEAN]
  BY DEF IInv, CallInv
<1> QED
  BY <1>1, <1>4, <1>5, <1>6, <1>7, <1>8, <1>9, <1>10, <1>11, <1>12, HandlerStep

\* Connect begins the exchange, and the call has connected.
LEMMA ConnectStep ==
    ASSUME IInv, UNCHANGED loopVars, NEW i \in DOMAIN handlers, Connect(i) PROVE IInv'
<1> DEFINE h == handlers[i]
           T == AgentTimeout(spec)
<1>1. h \in Handler /\ HandlerInv(h) /\ h.step = "dial"
  BY HandlersTyped DEF IInv, Connect
<1>2. handlers \in Seq(Handler) /\ T \in Nat /\ spec.count \in Nat
  BY Timeouts DEF IInv, CallInv
<1>3. PICK g : g = [h EXCEPT !.step = "exchange", !.spent = 0] /\ handlers' = [handlers EXCEPT ![i] = g]
  BY <1>2 DEF Connect
<1>4. g \in Handler
  BY <1>1, <1>3 DEF Handler
<1>5. /\ g.step = "exchange" /\ g.spent = 0 /\ g.begun = h.begun /\ g.age = h.age /\ g.lost = h.lost
      /\ g.wanted = h.wanted
  BY <1>1, <1>3 DEF Handler
<1>6. HandlerInv(g)
  BY <1>1, <1>2, <1>5 DEF HandlerInv, Handler
<1>7. Work(g) >= Work(h)
  <2>1. /\ Work(g) = T * (2 * (h.begun - 1)) + T + 0
        /\ Work(h) = T * (2 * (h.begun - 1)) + h.spent
    BY <1>1, <1>4, <1>5, WorkBySteps DEF IInv
  <2>2. h.spent <= T /\ h.spent \in Nat /\ h.begun \in Nat
    BY <1>1 DEF HandlerInv, Handler
  <2>3. T * (2 * (h.begun - 1)) \in Int
    BY <1>2, <2>2
  <2> QED
    BY <1>2, <2>1, <2>2, <2>3
<1>8. UNCHANGED <<spec, door, caller, elapsed, wire, late, reply>> /\ Note(i, 0, 0, TRUE)
  BY DEF Connect
<1>9. /\ record' \in [delay : Nat, ended : Nat, lost : Nat, connected : BOOLEAN, crashed : BOOLEAN]
      /\ record'.delay = record.delay /\ record'.crashed = record.crashed
      /\ record.connected => record'.connected
      /\ ~h.wanted => record' = record
      /\ h.wanted => /\ record'.lost = record.lost + 0 /\ record'.ended = record.ended + 0
                     /\ record'.connected
  BY <1>8, Noted DEF IInv
<1>10. g.wanted => record'.lost = g.lost /\ record'.ended = g.begun - 1
  <2>1. h.wanted => record.lost = h.lost /\ record.ended = h.begun - 1
    BY <1>1 DEF IInv, RecordInv
  <2>2. h.begun \in Nat /\ h.lost \in Nat
    BY <1>1 DEF Handler
  <2> QED
    BY <1>5, <1>9, <2>1, <2>2
<1> QED
  BY <1>1, <1>3, <1>4, <1>5, <1>6, <1>7, <1>8, <1>9, <1>10, HandlerStep

\* Ack ends the exchange.
LEMMA AckStep ==
    ASSUME IInv, UNCHANGED loopVars, NEW i \in DOMAIN handlers, Ack(i) PROVE IInv'
<1> DEFINE h == handlers[i]
           T == AgentTimeout(spec)
<1>1. h \in Handler /\ HandlerInv(h) /\ h.step = "exchange"
  BY HandlersTyped DEF IInv, Ack
<1>2. handlers \in Seq(Handler) /\ T \in Nat /\ spec.count \in Nat
  BY Timeouts DEF IInv, CallInv
<1>3. PICK g : g = [h EXCEPT !.step = "select", !.spent = 0] /\ handlers' = [handlers EXCEPT ![i] = g]
  BY <1>2 DEF Ack
<1>4. g \in Handler
  BY <1>1, <1>3 DEF Handler
<1>5. /\ g.step = "select" /\ g.spent = 0 /\ g.begun = h.begun /\ g.age = h.age /\ g.lost = h.lost
      /\ g.wanted = h.wanted
  BY <1>1, <1>3 DEF Handler
<1>6. HandlerInv(g)
  BY <1>1, <1>2, <1>5 DEF HandlerInv, Handler
<1>7. Work(g) >= Work(h)
  <2>1. /\ Work(g) = T * (2 * h.begun) + 0
        /\ Work(h) = T * (2 * (h.begun - 1)) + T + h.spent
    BY <1>1, <1>4, <1>5, WorkBySteps DEF IInv
  <2>2. h.spent <= T /\ h.spent \in Nat /\ h.begun \in Nat
    BY <1>1 DEF HandlerInv, Handler
  <2>3. T * (2 * h.begun) = T * (2 * (h.begun - 1)) + T + T /\ T * (2 * (h.begun - 1)) \in Int
    BY <1>2, <2>2, Distributes
  <2> HIDE DEF T, h
  <2>4. PICK x \in Int : x = T * (2 * (h.begun - 1))
    BY <2>3
  <2>5. Work(g) = x + T + T /\ Work(h) = x + T + h.spent
    BY <1>2, <2>1, <2>3, <2>4
  <2> QED
    BY <1>2, <2>2, <2>5
<1>8. UNCHANGED <<spec, door, caller, elapsed, wire, late, reply>> /\ Note(i, 1, 0, FALSE)
  BY DEF Ack
<1>9. /\ record' \in [delay : Nat, ended : Nat, lost : Nat, connected : BOOLEAN, crashed : BOOLEAN]
      /\ record'.delay = record.delay /\ record'.crashed = record.crashed
      /\ record.connected => record'.connected
      /\ ~h.wanted => record' = record
      /\ h.wanted => record'.lost = record.lost + 0 /\ record'.ended = record.ended + 1
  BY <1>8, Noted DEF IInv
<1>10. g.wanted => record'.lost = g.lost /\ record'.ended = g.begun
  <2>1. h.wanted => record.lost = h.lost /\ record.ended = h.begun - 1
    BY <1>1 DEF IInv, RecordInv
  <2>2. h.begun \in Nat /\ h.lost \in Nat
    BY <1>1 DEF Handler
  <2> QED
    BY <1>5, <1>9, <2>1, <2>2
<1>11. ~(h.wanted /\ Dropped)
  BY <1>1 DEF IInv, DropInv
<1> QED
  BY <1>1, <1>3, <1>4, <1>5, <1>6, <1>7, <1>8, <1>9, <1>10, <1>11, HandlerStep

\* Lose ends a dial or an exchange; a dropped dial counts at most its timeout.
LEMMA LoseStep ==
    ASSUME IInv, UNCHANGED loopVars, NEW i \in DOMAIN handlers, NEW error \in {"refused", "timeout"},
           Lose(i, error)
    PROVE  IInv'
<1> DEFINE h == handlers[i]
           T == AgentTimeout(spec)
<1>1. h \in Handler /\ HandlerInv(h) /\ h.step \in {"dial", "exchange"}
  BY HandlersTyped DEF IInv, Lose
<1>2. handlers \in Seq(Handler) /\ T \in Nat /\ spec.count \in Nat
  BY Timeouts DEF IInv, CallInv
<1>3. PICK l \in Nat : l = IF h.wanted THEN h.lost + 1 ELSE h.lost
  BY <1>1 DEF Handler
<1>4. PICK e \in {"none", "refused", "timeout"} : e = IF h.wanted THEN error ELSE h.error
  BY <1>1 DEF Handler
<1>5. PICK g : /\ g = [h EXCEPT !.step = "select", !.spent = 0, !.lost = l, !.error = e]
               /\ handlers' = [handlers EXCEPT ![i] = g]
  BY <1>2, <1>3, <1>4 DEF Lose
<1>6. g \in Handler
  BY <1>1, <1>5 DEF Handler
<1>7. /\ g.step = "select" /\ g.spent = 0 /\ g.begun = h.begun /\ g.age = h.age /\ g.lost = l
      /\ g.cancelled = h.cancelled /\ g.wanted = h.wanted
  BY <1>1, <1>5 DEF Handler
<1>8. HandlerInv(g)
  <2>1. /\ h.begun \in Nat /\ h.lost \in Nat /\ l <= h.lost + 1
        /\ h.lost < h.begun /\ h.begun <= spec.count
    BY <1>1, <1>3 DEF HandlerInv, Handler
  <2>2. l <= g.begun /\ g.begun <= spec.count /\ g.spent <= AgentTimeout(spec)
    BY <1>2, <1>3, <1>7, <2>1
  <2> HIDE DEF h, T
  <2> QED
    BY <1>7, <2>2 DEF HandlerInv
<1>9. Work(g) >= Work(h) /\ (h.step = "dial" => DialTime(h) <= DialTime(g))
  <2>1. /\ Work(g) = T * (2 * h.begun) + 0 /\ DialTime(g) = T * h.begun + 0
        /\ h.step = "dial" => /\ Work(h) = T * (2 * (h.begun - 1)) + h.spent
                              /\ DialTime(h) = T * (h.begun - 1) + h.spent
        /\ h.step = "exchange" => Work(h) = T * (2 * (h.begun - 1)) + T + h.spent
    BY <1>1, <1>6, <1>7, WorkBySteps DEF IInv
  <2>2. h.spent <= T /\ h.spent \in Nat /\ h.begun \in Nat
    BY <1>1 DEF HandlerInv, Handler
  <2>3. T \in Int /\ h.begun \in Int
    BY <1>2, <2>2
  <2> HIDE DEF T, h
  <2>4. T * (2 * h.begun) = T * (2 * (h.begun - 1)) + T + T /\ T * (2 * (h.begun - 1)) \in Int
    BY <2>3, Distributes
  <2>5. T * h.begun = T * (h.begun - 1) + T /\ T * (h.begun - 1) \in Int
    BY <2>3, Distributes
  <2>6. CASE h.step = "dial"
    <3>1. Work(g) >= Work(h)
      <4>1. PICK x \in Int : x = T * (2 * (h.begun - 1))
        BY <2>4
      <4>2. Work(g) = x + T + T /\ Work(h) = x + h.spent
        BY <1>2, <2>1, <2>4, <2>6, <4>1
      <4> QED
        BY <1>2, <2>2, <4>2
    <3>2. DialTime(h) <= DialTime(g)
      BY <1>2, <2>1, <2>2, <2>5, <2>6
    <3> QED
      BY <3>1, <3>2
  <2>7. CASE h.step = "exchange"
    <3>1. PICK x \in Int : x = T * (2 * (h.begun - 1))
      BY <2>4
    <3>2. Work(g) = x + T + T /\ Work(h) = x + T + h.spent
      BY <1>2, <2>1, <2>4, <2>7, <3>1
    <3> QED
      BY <1>2, <2>2, <2>7, <3>2
  <2> QED
    BY <1>1, <2>6, <2>7
<1>10. UNCHANGED <<spec, door, caller, elapsed, wire, late, reply>> /\ Note(i, 1, 1, FALSE)
  BY DEF Lose
<1>11. /\ record' \in [delay : Nat, ended : Nat, lost : Nat, connected : BOOLEAN, crashed : BOOLEAN]
       /\ record'.delay = record.delay /\ record'.crashed = record.crashed
       /\ record.connected => record'.connected
       /\ ~h.wanted => record' = record
       /\ h.wanted => record'.lost = record.lost + 1 /\ record'.ended = record.ended + 1
  BY <1>10, Noted DEF IInv
<1>12. g.wanted => record'.lost = g.lost /\ record'.ended = g.begun
  <2>1. h.wanted => record.lost = h.lost /\ record.ended = h.begun - 1
    BY <1>1 DEF IInv, RecordInv
  <2>2. h.begun \in Nat /\ h.lost \in Nat
    BY <1>1 DEF Handler
  <2> QED
    BY <1>3, <1>7, <1>11, <2>1, <2>2
<1>13. g.wanted /\ Dropped => /\ g.age <= DialTime(g)
                              /\ g.cancelled => g.age >= ReadTimeout
  <2>1. h.wanted /\ Dropped => /\ h.step # "exchange" /\ h.age <= DialTime(h)
                               /\ h.cancelled => h.age >= ReadTimeout
    BY DEF IInv, DropInv
  <2>2. h.age \in Int /\ DialTime(h) \in Int /\ DialTime(g) \in Int
    BY <1>1, <1>6, WorkTyped DEF IInv, Handler
  <2> QED
    BY <1>1, <1>7, <1>9, <2>1, <2>2
<1> QED
  BY <1>1, <1>5, <1>6, <1>7, <1>8, <1>9, <1>10, <1>11, <1>12, <1>13, HandlerStep

\* Cancel marks a handler that nobody wants, or an old one.
LEMMA CancelStep ==
    ASSUME IInv, UNCHANGED loopVars, NEW i \in DOMAIN handlers, Cancel(i) PROVE IInv'
<1> DEFINE h == handlers[i]
<1>1. h \in Handler /\ HandlerInv(h) /\ handlers \in Seq(Handler)
  BY HandlersTyped DEF IInv, CallInv
<1>2. PICK g : g = [h EXCEPT !.cancelled = TRUE] /\ handlers' = [handlers EXCEPT ![i] = g]
  BY <1>1 DEF Cancel
<1>3. g \in Handler
  BY <1>1, <1>2 DEF Handler
<1>4. /\ g.step = h.step /\ g.spent = h.spent /\ g.begun = h.begun /\ g.age = h.age /\ g.lost = h.lost
      /\ g.wanted = h.wanted
  BY <1>1, <1>2 DEF Handler
<1>5. HandlerInv(g)
  BY <1>1, <1>4 DEF HandlerInv
<1>6. Work(g) = Work(h) /\ DialTime(g) = DialTime(h)
  BY <1>4 DEF Work, DialTime
<1>7. Work(g) >= Work(h)
  BY <1>1, <1>6, WorkTyped DEF IInv
<1>8. UNCHANGED <<spec, door, caller, elapsed, wire, late, reply, record>>
  BY DEF Cancel
<1>9. record \in [delay : Nat, ended : Nat, lost : Nat, connected : BOOLEAN, crashed : BOOLEAN]
  BY DEF IInv, CallInv
<1>10. g.wanted => record'.lost = g.lost /\ record'.ended = IF g.step = "select" THEN g.begun ELSE g.begun - 1
  BY <1>4, <1>8 DEF IInv, RecordInv
<1>11. g.wanted => g.age >= ReadTimeout
  BY <1>1, <1>4 DEF Cancel, Handler
<1>12. g.wanted /\ Dropped => g.step # "exchange" /\ g.age <= DialTime(g)
  BY <1>4, <1>6 DEF IInv, DropInv
<1> QED
  BY <1>3, <1>2, <1>4, <1>5, <1>7, <1>8, <1>9, <1>10, <1>11, <1>12, HandlerStep

\* A percentage of a part is one.
LEMMA Percentage ==
    ASSUME NEW c \in Nat \ {0}, NEW l \in Nat, l <= c
    PROVE  (100 * l) \div c \in 0..100
<1> DEFINE q == (100 * l) \div c
<1>1. q \in Int /\ c * q <= 100 * l /\ 100 * l < c * q + c
  OBVIOUS
<1> HIDE DEF q
<1>2. ASSUME q > 100 PROVE FALSE
  <2>1. PICK d \in Nat : q = 101 + d
    <3>1. q - 101 \in Nat /\ q = 101 + (q - 101)
      BY <1>1, <1>2
    <3> QED
      BY <3>1
  <2>2. c * (101 + d) = 101 * c + c * d /\ c * d >= 0
    OBVIOUS
  <2> QED
    BY <1>1, <2>1, <2>2
<1>3. ASSUME q < 0 PROVE FALSE
  <2>1. PICK d \in Nat : q = -1 - d
    <3>1. -1 - q \in Nat /\ q = -1 - (-1 - q)
      BY <1>1, <1>3
    <3> QED
      BY <3>1
  <2>2. c * (-1 - d) = -c - c * d /\ c * d >= 0
    OBVIOUS
  <2> QED
    BY <1>1, <2>1, <2>2
<1>4. q \in 0..100
  BY <1>1, <1>2, <1>3
<1> QED
  BY <1>4 DEF q

\* A smaller number of probes takes less time.
LEMMA Monotonic ==
    ASSUME NEW T \in Nat, NEW a \in Int, NEW b \in Int, a <= b
    PROVE  T * a <= T * b
<1>1. PICK d \in Nat : b = a + d
  <2>1. b - a \in Nat /\ b = a + (b - a)
    OBVIOUS
  <2> QED
    BY <2>1
<1>2. T * (a + d) = T * a + T * d /\ T * d >= 0 /\ T * a \in Int /\ T * d \in Int
  OBVIOUS
<1> QED
  BY <1>1, <1>2

\* All probes of a handler take at most twice their timeouts, and once if no
\* dial connects.
LEMMA WorkBounds ==
    ASSUME CallInv, NEW h \in Handler, HandlerInv(h)
    PROVE  LET T == AgentTimeout(spec) IN
           /\ 0 <= Work(h) /\ Work(h) <= T * spec.count + T * spec.count
           /\ DialTime(h) <= T * spec.count
           /\ T * spec.count \in Nat
<1> DEFINE T == AgentTimeout(spec)
           x == T * (h.begun - 1)
           y == T * spec.count
<1>1. /\ T \in Nat /\ h.begun \in Nat /\ h.spent \in Nat /\ spec.count \in Nat
      /\ h.spent <= T /\ h.begun <= spec.count
      /\ h.step = "select" => h.spent = 0
      /\ h.step # "select" => h.begun >= 1
  BY Timeouts DEF Handler, HandlerInv
<1>2. x \in Int /\ y \in Int
  BY <1>1
<1>3. T * h.begun = x + T /\ T * (2 * h.begun) = x + x + T + T /\ T * (2 * (h.begun - 1)) = x + x
  <2>1. T \in Int /\ h.begun \in Int
    BY <1>1
  <2> HIDE DEF T
  <2>2. T * (2 * (h.begun - 1)) = x + x
    BY <2>1
  <2>3. T * h.begun = x + T
    BY <2>1, Distributes
  <2>4. T * (2 * h.begun) = T * (2 * (h.begun - 1)) + T + T
    BY <2>1, Distributes
  <2> QED
    BY <2>2, <2>3, <2>4
<1>4. x + T <= y
  BY <1>1, <1>3, Monotonic
<1>5. 0 <= x + T
  <2>1. T * 0 <= T * h.begun /\ T * 0 = 0
    BY <1>1, Monotonic
  <2> QED
    BY <1>3, <2>1
<1>6. h.begun >= 1 => 0 <= x
  <2>1. h.begun >= 1 => T * 0 <= T * (h.begun - 1) /\ T * 0 = 0
    BY <1>1, Monotonic
  <2> QED
    BY <2>1
<1>7. /\ h.step = "select" => Work(h) = x + x + T + T + h.spent /\ DialTime(h) = x + T + h.spent
      /\ h.step = "dial" => Work(h) = x + x + h.spent /\ DialTime(h) = x + h.spent
      /\ h.step = "exchange" => Work(h) = x + x + T + h.spent /\ DialTime(h) = x + h.spent
      /\ h.step \in {"select", "dial", "exchange"}
  <2>1. h.step = "exchange" => DialTime(h) = x + h.spent
    BY DEF DialTime
  <2> QED
    BY <1>3, <2>1, WorkBySteps
<1> HIDE DEF T, x, y
<1>8. h.step = "select" => 0 <= Work(h) /\ Work(h) <= y + y /\ DialTime(h) <= y
  BY <1>1, <1>2, <1>4, <1>5, <1>7
<1>9. h.step = "dial" => 0 <= Work(h) /\ Work(h) <= y + y /\ DialTime(h) <= y
  BY <1>1, <1>2, <1>4, <1>6, <1>7
<1>10. h.step = "exchange" => 0 <= Work(h) /\ Work(h) <= y + y /\ DialTime(h) <= y
  BY <1>1, <1>2, <1>4, <1>6, <1>7
<1>11. 0 <= Work(h) /\ Work(h) <= y + y /\ DialTime(h) <= y /\ y \in Nat
  BY <1>1, <1>2, <1>4, <1>5, <1>7, <1>8, <1>9, <1>10
<1> QED
  BY <1>11 DEF y, T

\* Finish reports the losses of all the probes.
LEMMA FinishStep ==
    ASSUME IInv, UNCHANGED loopVars, NEW i \in DOMAIN handlers, Finish(i) PROVE IInv'
<1> DEFINE h == handlers[i]
           T == AgentTimeout(spec)
<1>1. h \in Handler /\ HandlerInv(h) /\ h.step = "select" /\ h.begun = spec.count /\ h.lost <= spec.count
  BY HandlersTyped, Timeouts DEF IInv, Finish, ProbesLeft, HandlerInv, Handler
<1>2. spec.count \in Nat \ {0} /\ h.lost \in Nat /\ h.error \in {"none", "refused", "timeout"}
  BY <1>1, Timeouts DEF IInv, Handler
<1>3. (100 * h.lost) \div spec.count \in 0..100
  BY <1>1, <1>2, Percentage
<1>4. Result(h) \in ProbeResult /\ ~Result(h).agentError
  BY <1>2, <1>3 DEF Result, Unreachable, Reached, ProbeResult, Errors
<1>5. h.wanted => Tells(Result(h))
  <2>1. h.wanted => record.lost = h.lost /\ record.ended = spec.count
    BY <1>1 DEF IInv, RecordInv
  <2>2. /\ Result(h).success <=> h.lost < spec.count
        /\ Result(h).success => Result(h).loss = (100 * h.lost) \div spec.count
    BY <1>1, <1>2 DEF Result, Unreachable, Reached
  <2> QED
    BY <2>1, <2>2 DEF Tells
<1>6. h.wanted /\ Dropped => h.age <= spec.timeout * spec.count
  <2>1. h.wanted /\ Dropped => h.age <= DialTime(h) /\ spec.timeout > 0
    BY DEF IInv, DropInv, Dropped
  <2>2. DialTime(h) <= T * spec.count /\ T * spec.count \in Nat
    BY <1>1, WorkBounds DEF IInv
  <2>3. DialTime(h) \in Int /\ h.age \in Int
    BY <1>1, WorkTyped DEF IInv, Handler
  <2>4. spec.timeout > 0 => T = spec.timeout
    BY Timeouts DEF IInv
  <2> HIDE DEF T
  <2>5. h.wanted /\ Dropped => h.age <= T * spec.count
    BY <2>1, <2>2, <2>3
  <2> QED
    BY <2>1, <2>4, <2>5
<1>7. Respond(i, Result(h))
  BY DEF Finish
<1> QED
  BY <1>4, <1>5, <1>6, <1>7, RespondStep

\* Interrupted does not happen to a call whose dials are merely dropped: they
\* are over before the read timeout is.
LEMMA InterruptedStep ==
    ASSUME IInv, UNCHANGED loopVars, NEW i \in DOMAIN handlers, Interrupted(i) PROVE IInv'
<1> DEFINE h == handlers[i]
           T == AgentTimeout(spec)
<1>1. h \in Handler /\ HandlerInv(h) /\ h.step = "select" /\ h.begun < spec.count /\ h.cancelled
  BY HandlersTyped DEF IInv, Interrupted, ProbesLeft
<1>2. Respond(i, ControlFailure)
  BY DEF Interrupted, PartialResult
<1>3. ControlFailure \in ProbeResult /\ Tells(ControlFailure)
  BY DEF ControlFailure, ProbeResult, Errors, Tells
<1>4. ~(h.wanted /\ Dropped)
  <2> SUFFICES ASSUME h.wanted, Dropped PROVE FALSE
    OBVIOUS
  <2>1. h.age <= DialTime(h) /\ h.age >= ReadTimeout
    BY <1>1 DEF IInv, DropInv
  <2>2. spec.timeout > 0 /\ spec.timeout * spec.count <= ReadTimeout
    BY DEF Dropped, ServerGrants
  <2>3. T \in Nat \ {0} /\ T = spec.timeout /\ spec.count \in Nat
    BY <2>2, Timeouts DEF IInv
  <2>4. h.begun \in Nat /\ h.age \in Nat /\ h.spent = 0
    BY <1>1 DEF Handler, HandlerInv
  <2>5. DialTime(h) = T * h.begun
    BY <1>1, <2>3, <2>4, WorkBySteps DEF IInv
  <2> HIDE DEF T
  <2>6. T * (h.begun + 1) <= T * spec.count
    BY <1>1, <2>3, <2>4, Monotonic
  <2>7. T * (h.begun + 1) = T * h.begun + T /\ T * h.begun \in Int /\ T * spec.count \in Int
    BY <2>3, <2>4
  <2>8. T * spec.count <= ReadTimeout
    BY <2>2, <2>3
  <2> QED
    BY <2>1, <2>3, <2>4, <2>5, <2>6, <2>7, <2>8, ProbeCallAssumption
<1> QED
  BY <1>2, <1>3, <1>4, RespondStep

-----------------------------------------------------------------------------
\* The steps of the server.

\* Answers and requests are of their types.
LEMMA WireTyped ==
    /\ ControlFailure \in ProbeResult /\ NoReply \in ProbeResult /\ ControlFailure.agentError
    /\ \A q \in ProbeResult :
          /\ Response(q) \in [holds : {"nothing", "request", "response"}, result : ProbeResult]
          /\ Response(q).holds = "response" /\ Response(q).result = q
    /\ Request \in [holds : {"nothing", "request", "response"}, result : ProbeResult]
    /\ Empty \in [holds : {"nothing", "request", "response"}, result : ProbeResult]
    /\ Request.holds = "request" /\ Empty.holds = "nothing" /\ Request # Empty
BY DEF ProbeResult, ControlFailure, NoReply, Errors, Response, Request, Empty

\* While anything is on the wire nobody wants a handler.
LEMMA NoneWanted ==
    ASSUME CallInv, wire.holds # "nothing" \/ caller = "idle", NEW i \in DOMAIN handlers
    PROVE  ~handlers[i].wanted
BY WireTyped DEF CallInv

\* Refuse answers for the agent.
LEMMA RefuseStep ==
    ASSUME IInv, UNCHANGED loopVars, Refuse PROVE IInv'
<1>1. /\ wire = Request /\ ~Admits
      /\ UNCHANGED <<spec, door, caller, elapsed, late, reply, handlers, record>>
      /\ wire' = Response(ControlFailure) /\ caller = "waiting"
  BY WireTyped DEF Refuse, IInv, CallInv
<1>2. \A k \in DOMAIN handlers : ~handlers[k].wanted
  BY <1>1, NoneWanted, WireTyped DEF IInv
<1>3. CallInv'
  <2>1. \A k \in DOMAIN handlers : HandlerInv(handlers[k])'
    BY <1>1 DEF IInv, CallInv, HandlerInv
  <2>2. /\ wire' \in [holds : {"nothing", "request", "response"}, result : ProbeResult]
        /\ wire'.holds = "nothing" => wire' = Empty
        /\ wire'.holds # "request" /\ caller = "waiting"
    BY <1>1, WireTyped
  <2> QED
    BY <1>1, <1>2, <2>1, <2>2 DEF IInv, CallInv, Empty, NoReply
<1>4. RecordInv'
  <2>1. wire'.holds = "response" => wire'.result.agentError
    BY <1>1, WireTyped
  <2> QED
    BY <1>1, <1>2, <2>1 DEF IInv, RecordInv, Tells, Returned
<1>5. DropInv'
  BY <1>1, <1>2 DEF IInv, DropInv, Dropped, Admits, ServerGrants, Returned
<1>6. WorkInv'
  BY <1>1 DEF IInv, WorkInv, Work
<1>7. LoopInv'
  BY <1>1, LoopUnchanged
<1> QED
  BY <1>3, <1>4, <1>5, <1>6, <1>7 DEF IInv

\* LateEnds touches nothing that a call depends on.
LEMMA LateEndsStep ==
    ASSUME IInv, UNCHANGED loopVars, LateEnds PROVE IInv'
<1>1. /\ late > 0 /\ late' = late - 1
      /\ UNCHANGED <<spec, door, caller, elapsed, wire, reply, handlers, record>>
  BY DEF LateEnds
<1>2. late' \in 0..MaxLate
  BY <1>1, ProbeCallAssumption DEF IInv, CallInv
<1> QED
  BY <1>1, <1>2, CallsUnchanged, LoopUnchanged DEF IInv

\* The handler of a request that has just arrived.
LEMMA NewHandlerTyped ==
    ASSUME CallInv
    PROVE  /\ NewHandler \in Handler /\ HandlerInv(NewHandler)
           /\ NewHandler.wanted
           /\ NewHandler.step = "select" /\ NewHandler.begun = 0 /\ NewHandler.lost = 0
           /\ NewHandler.age = 0 /\ ~NewHandler.cancelled
           /\ Work(NewHandler) = 0 /\ DialTime(NewHandler) = 0
<1>1. /\ NewHandler \in Handler
      /\ NewHandler.wanted
      /\ NewHandler.step = "select" /\ NewHandler.begun = 0 /\ NewHandler.lost = 0
      /\ NewHandler.age = 0 /\ ~NewHandler.cancelled /\ NewHandler.spent = 0
  BY DEF NewHandler, Handler
<1>2. AgentTimeout(spec) \in Nat /\ spec.count \in Nat
  BY Timeouts
<1>3. HandlerInv(NewHandler)
  BY <1>1, <1>2 DEF HandlerInv
<1>4. AgentTimeout(spec) * (2 * 0) + 0 = 0 /\ AgentTimeout(spec) * 0 + 0 = 0
  BY <1>2
<1>5. Work(NewHandler) = 0 /\ DialTime(NewHandler) = 0
  BY <1>1, <1>4, WorkBySteps
<1> QED
  BY <1>1, <1>3, <1>5

\* Accept starts a handler.
LEMMA AcceptStep ==
    ASSUME IInv, UNCHANGED loopVars, Accept PROVE IInv'
<1> DEFINE n == Len(handlers)
<1>1. /\ wire = Request /\ Admits /\ wire' = Empty
      /\ handlers' = Append(handlers, NewHandler)
      /\ record' = [record EXCEPT !.ended = 0, !.lost = 0]
      /\ UNCHANGED <<spec, door, caller, elapsed, late, reply>>
      /\ caller = "waiting"
  BY WireTyped DEF Accept, IInv, CallInv
<1>2. \A k \in DOMAIN handlers : ~handlers[k].wanted
  BY <1>1, NoneWanted, WireTyped DEF IInv
<1>3. n \in Nat /\ DOMAIN handlers = 1..n /\ handlers \in Seq(Handler)
  BY HandlersTyped DEF IInv, CallInv
<1>4. /\ NewHandler \in Handler /\ HandlerInv(NewHandler)
      /\ NewHandler.wanted
      /\ NewHandler.step = "select" /\ NewHandler.begun = 0 /\ NewHandler.lost = 0
      /\ NewHandler.age = 0 /\ ~NewHandler.cancelled
      /\ Work(NewHandler) = 0 /\ DialTime(NewHandler) = 0
  BY NewHandlerTyped DEF IInv
<1>5. /\ handlers' \in Seq(Handler) /\ Len(handlers') = n + 1 /\ DOMAIN handlers' = 1..(n + 1)
      /\ handlers'[n + 1] = NewHandler
      /\ \A k \in 1..n : handlers'[k] = handlers[k]
  <2> HIDE DEF NewHandler
  <2> QED
    BY <1>1, <1>3, <1>4
<1>6. /\ record' \in [delay : Nat, ended : Nat, lost : Nat, connected : BOOLEAN, crashed : BOOLEAN]
      /\ record'.delay = record.delay /\ record'.connected = record.connected
      /\ record'.crashed = record.crashed
      /\ record'.ended = 0 /\ record'.lost = 0
  <2>1. record \in [delay : Nat, ended : Nat, lost : Nat, connected : BOOLEAN, crashed : BOOLEAN]
    BY DEF IInv, CallInv
  <2> QED
    BY <1>1, <2>1
<1>7. CallInv'
  <2>1. ASSUME NEW k \in DOMAIN handlers'
        PROVE  HandlerInv(handlers[k])' /\ (handlers'[k].wanted => caller' = "waiting" /\ k = Len(handlers'))
    <3>1. CASE k = n + 1
      BY <1>1, <1>4, <1>5, <3>1 DEF HandlerInv
    <3>2. CASE k # n + 1
      <4>1. k \in 1..n
        BY <1>3, <1>5, <3>2
      <4> QED
        BY <1>1, <1>2, <1>3, <1>5, <4>1 DEF HandlerInv, IInv, CallInv
    <3> QED
      BY <3>1, <3>2
  <2> QED
    BY <1>1, <1>5, <1>6, <2>1, WireTyped DEF IInv, CallInv, Empty, NoReply
<1>8. RecordInv'
  <2>1. ASSUME NEW k \in DOMAIN handlers', handlers'[k].wanted
        PROVE  k = n + 1 /\ caller = "waiting"
    BY <1>1, <1>2, <1>3, <1>5, <2>1
  <2>2. wire'.holds # "response"
    BY <1>1, WireTyped
  <2>3. Returned' => Tells(reply)'
    BY <1>1, <1>6 DEF IInv, RecordInv, Returned, Tells
  <2> QED
    BY <1>4, <1>5, <1>6, <2>1, <2>2, <2>3 DEF RecordInv
<1>9. DropInv'
  <2>1. Dropped' <=> Dropped
    BY <1>1, <1>6 DEF Dropped, Admits, ServerGrants
  <2>2. ASSUME NEW k \in DOMAIN handlers', handlers'[k].wanted
        PROVE  k = n + 1 /\ caller = "waiting"
    BY <1>1, <1>2, <1>3, <1>5, <2>2
  <2>4. Dropped /\ caller = "waiting" => elapsed = record.delay
    BY <1>1, WireTyped DEF IInv, DropInv
  <2>5. caller = "waiting" => handlers'[n + 1].wanted /\ n + 1 \in DOMAIN handlers'
    BY <1>3, <1>4, <1>5
  <2>6. record'.delay \in Nat /\ Dropped /\ Returned /\ record.delay < Second => ~reply.agentError
    BY DEF IInv, DropInv
  <2>7. \A k \in DOMAIN handlers' : Dropped' /\ handlers'[k].wanted =>
          /\ handlers'[k].step # "exchange"
          /\ handlers'[k].age <= DialTime(handlers[k])'
          /\ handlers'[k].cancelled => handlers'[k].age >= ReadTimeout
          /\ elapsed' = record'.delay + handlers'[k].age
    <3> SUFFICES ASSUME NEW k \in DOMAIN handlers', Dropped', handlers'[k].wanted
                 PROVE  /\ handlers'[k].step # "exchange"
                        /\ handlers'[k].age <= DialTime(handlers[k])'
                        /\ handlers'[k].cancelled => handlers'[k].age >= ReadTimeout
                        /\ elapsed' = record'.delay + handlers'[k].age
      OBVIOUS
    <3>1. k = n + 1 /\ caller = "waiting" /\ handlers'[k] = NewHandler
      BY <1>5, <2>2
    <3>2. DialTime(handlers[k])' = 0
      <4>1. AgentTimeout(spec) * 0 + 0 = 0
        BY Timeouts DEF IInv
      <4> QED
        BY <1>1, <1>4, <3>1, <4>1, NewHandlerTyped DEF DialTime, IInv
    <3>3. elapsed = record.delay /\ record.delay \in Nat
      BY <2>1, <2>4, <3>1 DEF IInv, CallInv
    <3> QED
      BY <1>1, <1>4, <1>6, <3>1, <3>2, <3>3
  <2>8. wire'.holds = "nothing"
    BY <1>1, WireTyped
  <2> QED
    BY <1>1, <1>6, <2>1, <2>5, <2>6, <2>7, <2>8 DEF IInv, DropInv, Returned
<1>10. WorkInv'
  <2> SUFFICES ASSUME spec.timeout > 0 PROVE WorkInv'
    BY <1>1 DEF WorkInv
  <2> DEFINE D == Deadline(spec)
  <2>1. /\ \A k \in 1..n : Work(handlers[k])' = Work(handlers[k])
        /\ \A k \in DOMAIN handlers' : k = n + 1 => Work(handlers[k])' = 0
    <3>1. \A k \in 1..n : Work(handlers[k])' = Work(handlers[k])
      BY <1>1, <1>5 DEF Work
    <3>2. ASSUME NEW k \in DOMAIN handlers', k = n + 1 PROVE Work(handlers[k])' = Work(NewHandler)
      BY <1>1, <1>5, <3>2 DEF Work
    <3> QED
      BY <1>4, <3>1, <3>2
  <2>2. D' = D /\ D \in Int /\ elapsed \in Nat /\ (caller = "idle" => elapsed = 0)
    BY <1>1, Timeouts DEF IInv, CallInv
  <2>3. /\ \A k \in 1..n : Work(handlers[k]) >= elapsed /\ handlers[k].age <= Work(handlers[k])
        /\ \A k, l \in 1..n : k < l => Work(handlers[k]) >= D + elapsed
        /\ n <= 2
    BY <1>1, <1>2, <1>3, WireTyped DEF IInv, WorkInv
  <2>4. \A k \in 1..n : Work(handlers[k]) \in Int
    BY <1>3, HandlersTyped, WorkTyped DEF IInv
  <2> HIDE DEF D
  <2>5. \A k \in DOMAIN handlers' : ~handlers'[k].wanted => k \in 1..n
    BY <1>3, <1>4, <1>5
  <2>6. \A k \in DOMAIN handlers' : ~handlers'[k].wanted => Work(handlers[k])' >= elapsed'
    BY <1>1, <2>1, <2>3, <2>5
  <2>7. \A k, l \in DOMAIN handlers' : k < l /\ ~handlers'[l].wanted => Work(handlers[k])' >= D + elapsed'
    <3> SUFFICES ASSUME NEW k \in DOMAIN handlers', NEW l \in DOMAIN handlers', k < l, ~handlers'[l].wanted
                 PROVE  Work(handlers[k])' >= D + elapsed
      BY <1>1
    <3>1. l \in 1..n /\ k \in 1..n
      BY <1>3, <1>5, <2>5
    <3> QED
      BY <2>1, <2>3, <3>1
  <2>8. Len(handlers') <= 3 /\ (Len(handlers') = 3 => handlers'[3].wanted)
    BY <1>3, <1>4, <1>5, <2>3
  <2>9. \A k \in DOMAIN handlers' : handlers'[k].age <= Work(handlers[k])'
    <3>1. \A k \in 1..n : handlers'[k].age <= Work(handlers[k])'
      BY <1>5, <2>1, <2>3
    <3>2. \A k \in DOMAIN handlers' : k = n + 1 => handlers'[k].age <= Work(handlers[k])'
      BY <1>4, <1>5, <2>1
    <3> QED
      BY <1>3, <1>5, <3>1, <3>2
  <2> QED
    BY <1>1, <2>2, <2>6, <2>7, <2>8, <2>9 DEF WorkInv, D
<1>11. LoopInv'
  BY <1>1, LoopUnchanged
<1> QED
  BY <1>7, <1>8, <1>9, <1>10, <1>11 DEF IInv

\* AgentCrashes ends all handlers, and the record says so.
LEMMA CrashStep ==
    ASSUME IInv, UNCHANGED loopVars, AgentCrashes PROVE IInv'
<1>1. /\ handlers' = <<>> /\ late' = 0
      /\ wire' \in IF caller = "waiting" /\ wire = Empty THEN {Response(ControlFailure), Request} ELSE {wire}
      /\ record' = IF caller = "waiting" THEN [record EXCEPT !.crashed = TRUE] ELSE record
      /\ UNCHANGED <<spec, door, caller, elapsed, reply>>
  BY DEF AgentCrashes, ConnectionLost
<1>2. handlers' \in Seq(Handler) /\ Len(handlers') = 0 /\ DOMAIN handlers' = {}
  BY <1>1
<1>3. record \in [delay : Nat, ended : Nat, lost : Nat, connected : BOOLEAN, crashed : BOOLEAN]
  BY DEF IInv, CallInv
<1>4. /\ record' \in [delay : Nat, ended : Nat, lost : Nat, connected : BOOLEAN, crashed : BOOLEAN]
      /\ record'.lost = record.lost /\ record'.ended = record.ended
      /\ caller = "waiting" => record'.crashed
      /\ caller = "idle" => record' = record
  BY <1>1, <1>3
<1>5. \/ caller = "waiting" /\ wire' \in {Response(ControlFailure), Request}
      \/ wire' = wire
  BY <1>1
<1>6. CallInv'
  <2>1. /\ wire' \in [holds : {"nothing", "request", "response"}, result : ProbeResult]
        /\ wire'.holds = "nothing" => wire' = Empty
        /\ wire'.holds = "request" => wire' = Request
        /\ wire'.holds # "nothing" => caller = "waiting"
    BY <1>5, WireTyped DEF IInv, CallInv
  <2>2. late' \in 0..MaxLate
    BY <1>1, ProbeCallAssumption
  <2> QED
    BY <1>1, <1>2, <1>4, <2>1, <2>2 DEF IInv, CallInv, Request, Empty, NoReply
<1>7. RecordInv'
  <2>1. wire'.holds = "response" => wire' = wire \/ wire'.result.agentError
    BY <1>5, WireTyped
  <2> QED
    BY <1>1, <1>2, <1>4, <2>1 DEF IInv, RecordInv, Tells, Returned
<1>8. DropInv'
  <2>1. CASE caller = "waiting"
    BY <1>1, <1>2, <1>4, <2>1 DEF DropInv, Dropped
  <2>2. CASE caller = "idle"
    <3>1. wire' = wire /\ record' = record /\ wire.holds # "response"
      BY <1>1, <1>4, <2>2 DEF IInv, CallInv
    <3> QED
      BY <1>1, <1>2, <2>2, <3>1 DEF IInv, DropInv, Dropped, Admits, ServerGrants, Returned
  <2> QED
    BY <2>1, <2>2 DEF IInv, CallInv
<1>9. WorkInv'
  BY <1>2 DEF WorkInv
<1>10. LoopInv'
  BY <1>1, LoopUnchanged
<1> QED
  BY <1>6, <1>7, <1>8, <1>9, <1>10 DEF IInv

-----------------------------------------------------------------------------
\* The steps of the controller.

\* A handler that is abandoned goes on as before, for nobody.
LEMMA AbandonedTyped ==
    ASSUME CallInv, NEW h \in Handler, HandlerInv(h)
    PROVE  /\ Abandoned(h) \in Handler /\ HandlerInv(Abandoned(h)) /\ ~Abandoned(h).wanted
           /\ Work(Abandoned(h)) = Work(h)
<1>1. PICK g : g = Abandoned(h)
  OBVIOUS
<1>2. g \in Handler
  BY <1>1 DEF Abandoned, Handler
<1>3. /\ ~g.wanted /\ g.lost = 0 /\ g.step = h.step /\ g.spent = h.spent /\ g.begun = h.begun
  BY <1>1 DEF Abandoned, Handler
<1>4. h.begun \in Nat /\ h.lost \in Nat
  BY DEF Handler
<1>5. HandlerInv(g)
  BY <1>3, <1>4 DEF HandlerInv
<1>6. Work(g) = Work(h)
  BY <1>3 DEF Work
<1> QED
  BY <1>1, <1>2, <1>3, <1>5, <1>6

\* Handlers that all change in place.
LEMMA EachHandler ==
    ASSUME CallInv, NEW changed, DOMAIN changed = DOMAIN handlers,
           changed = [k \in DOMAIN handlers |-> changed[k]],
           \A k \in DOMAIN handlers : changed[k] \in Handler
    PROVE  changed \in Seq(Handler) /\ Len(changed) = Len(handlers)
<1>1. Len(handlers) \in Nat /\ DOMAIN handlers = 1..Len(handlers)
  BY HandlersTyped
<1>2. changed \in [1..Len(handlers) -> Handler]
  BY <1>1
<1> QED
  BY <1>1, <1>2

\* Two handlers that both nobody wants, after a deadline: the elder would have
\* worked for two deadlines, longer than any handler does.
LEMMA OneLeftBehind ==
    ASSUME IInv, spec.timeout > 0, elapsed >= Deadline(spec),
           NEW k \in DOMAIN handlers, NEW l \in DOMAIN handlers, k < l
    PROVE  handlers[l].wanted
<1> SUFFICES ASSUME ~handlers[l].wanted PROVE FALSE
  OBVIOUS
<1> DEFINE T == AgentTimeout(spec)
           w == Work(handlers[k])
           D == Deadline(spec)
<1>1. w >= D + elapsed
  BY DEF IInv, WorkInv
<1>2. handlers[k] \in Handler /\ HandlerInv(handlers[k])
  BY HandlersTyped DEF IInv
<1>3. w <= T * spec.count + T * spec.count /\ T * spec.count \in Nat /\ w \in Int
  BY <1>2, WorkBounds, WorkTyped DEF IInv
<1>4. T = spec.timeout /\ D = spec.timeout * spec.count + Second
  BY Timeouts DEF IInv
<1>5. elapsed \in Nat /\ Second \in Nat \ {0}
  BY CheckSpecAssumption DEF IInv, CallInv
<1> HIDE DEF T, w, D
<1>6. D = T * spec.count + Second /\ elapsed >= D
  BY <1>4 DEF D
<1> QED
  BY <1>1, <1>3, <1>5, <1>6

\* Whatever a call returns, its handlers go on for nobody, and have worked for
\* as long as the call took.
LEMMA ReturnsStep ==
    ASSUME IInv, UNCHANGED loopVars, UNCHANGED <<spec, door, record>>,
           NEW result \in ProbeResult, Returns(result), Tells(result),
           wire' = Empty, late' \in 0..MaxLate,
           Dropped /\ record.delay < Second => ~result.agentError,
           elapsed >= Deadline(spec) \/ wire.holds = "response"
    PROVE  IInv'
<1> DEFINE n == Len(handlers)
<1>1. /\ caller = "waiting" /\ caller' = "idle" /\ elapsed' = 0 /\ reply' = result
      /\ handlers' = [k \in DOMAIN handlers |-> Abandoned(handlers[k])]
  BY DEF Returns
<1>2. n \in Nat /\ DOMAIN handlers = 1..n /\ \A k \in 1..n : handlers[k] \in Handler /\ HandlerInv(handlers[k])
  BY HandlersTyped DEF IInv
<1>3. /\ DOMAIN handlers' = 1..n
      /\ \A k \in 1..n : handlers'[k] = Abandoned(handlers[k])
  BY <1>1, <1>2
<1>4. \A k \in 1..n : handlers'[k] \in Handler /\ HandlerInv(handlers'[k]) /\ ~handlers'[k].wanted
  BY <1>2, <1>3, AbandonedTyped DEF IInv
<1>5. handlers' \in Seq(Handler) /\ Len(handlers') = n
  BY <1>1, <1>2, <1>3, <1>4, EachHandler DEF IInv
<1>6. CallInv'
  <2>1. \A k \in DOMAIN handlers' : HandlerInv(handlers[k])'
    BY <1>3, <1>4 DEF HandlerInv
  <2> QED
    BY <1>1, <1>3, <1>4, <1>5, <2>1, WireTyped DEF IInv, CallInv, Request, Empty, NoReply
<1>7. RecordInv'
  BY <1>1, <1>3, <1>4, WireTyped DEF RecordInv, Tells, Returned
<1>8. DropInv'
  <2>1. Dropped' <=> Dropped
    BY DEF Dropped, Admits, ServerGrants
  <2> QED
    BY <1>1, <1>3, <1>4, <2>1, WireTyped DEF DropInv, Returned
<1>9. WorkInv'
  <2> SUFFICES ASSUME spec.timeout > 0 PROVE WorkInv'
    BY DEF WorkInv
  <2> DEFINE D == Deadline(spec)
  <2>1. \A k \in DOMAIN handlers' : Work(handlers[k])' = Work(handlers[k])
    <3>1. ASSUME NEW k \in DOMAIN handlers' PROVE Work(handlers[k])' = Work(Abandoned(handlers[k]))
      BY <1>3 DEF Work
    <3> QED
      BY <1>2, <1>3, <3>1, AbandonedTyped DEF IInv
  <2>2. /\ \A k \in 1..n : Work(handlers[k]) >= 0 /\ Work(handlers[k]) \in Int
        /\ D \in Int /\ D' = D /\ elapsed \in Nat
    BY <1>2, WorkBounds, WorkTyped, Timeouts DEF IInv, CallInv
  <2>3. /\ \A k \in 1..n : ~handlers[k].wanted => Work(handlers[k]) >= elapsed
        /\ \A k, l \in 1..n : k < l /\ ~handlers[l].wanted => Work(handlers[k]) >= D + elapsed
        /\ n <= 3 /\ (n = 3 => handlers[3].wanted)
    BY <1>2 DEF IInv, WorkInv
  <2>4. \A k \in 1..n : handlers[k].wanted => k = n /\ wire.holds = "nothing"
    BY <1>2, WireTyped DEF IInv, CallInv
  <2>5. elapsed >= D => \A k, l \in 1..n : k < l => handlers[l].wanted
    BY <1>2, OneLeftBehind
  <2>6. elapsed >= D \/ \A k \in 1..n : ~handlers[k].wanted
    BY <2>4
  <2> HIDE DEF D
  <2>8. \A k, l \in DOMAIN handlers' : k < l => Work(handlers[k])' >= D
    <3> SUFFICES ASSUME NEW k \in 1..n, NEW l \in 1..n, k < l PROVE Work(handlers[k]) >= D
      BY <1>3, <2>1
    <3>1. CASE handlers[l].wanted
      <4>1. elapsed >= D
        BY <2>6, <3>1
      <4>2. l = n /\ k # n
        BY <2>4, <3>1
      <4>3. ~handlers[k].wanted
        BY <2>4, <4>2
      <4> QED
        BY <2>2, <2>3, <4>1, <4>3
    <3>2. CASE ~handlers[l].wanted
      BY <2>2, <2>3, <3>2
    <3> QED
      BY <3>1, <3>2
  <2>9. \A k \in DOMAIN handlers' : handlers'[k].age <= Work(handlers[k])'
    <3>1. \A k \in 1..n : handlers'[k].age = handlers[k].age
      BY <1>2, <1>3 DEF Abandoned, Handler
    <3>2. \A k \in 1..n : handlers[k].age <= Work(handlers[k])
      BY <1>2 DEF IInv, WorkInv
    <3> QED
      BY <1>3, <2>1, <3>1, <3>2
  <2>10. n # 3
    <3> SUFFICES ASSUME n = 3 PROVE FALSE
      OBVIOUS
    <3>1. 1 \in 1..n /\ 2 \in 1..n /\ 3 \in 1..n /\ handlers[3].wanted
      BY <2>3
    <3>2. elapsed >= D /\ ~handlers[2].wanted
      BY <2>4, <2>6, <3>1
    <3> QED
      BY <2>5, <3>1, <3>2
  <2> QED
    BY <1>1, <1>3, <1>5, <2>1, <2>2, <2>3, <2>8, <2>9, <2>10 DEF WorkInv, D
<1>10. LoopInv'
  BY <1>1, LoopUnchanged
<1> QED
  BY <1>6, <1>7, <1>8, <1>9, <1>10 DEF IInv

\* Receive returns what the wire holds.
LEMMA ReceiveStep ==
    ASSUME IInv, UNCHANGED loopVars, Receive PROVE IInv'
<1>1. /\ wire.holds = "response" /\ Returns(wire.result) /\ wire' = Empty
      /\ UNCHANGED <<spec, door, late, record>>
  BY DEF Receive
<1>2. wire.result \in ProbeResult /\ Tells(wire.result)
  BY <1>1 DEF IInv, CallInv, RecordInv
<1>3. Dropped => ~wire.result.agentError
  BY <1>1 DEF IInv, DropInv
<1>4. late' \in 0..MaxLate
  BY <1>1 DEF IInv, CallInv
<1> QED
  BY <1>1, <1>2, <1>3, <1>4, ReturnsStep

\* GiveUp comes too early for no call that waited less than a second for the
\* control channel and otherwise for dropped dials.
LEMMA GiveUpStep ==
    ASSUME IInv, UNCHANGED loopVars, GiveUp PROVE IInv'
<1> DEFINE T == AgentTimeout(spec)
<1>1. /\ elapsed >= Deadline(spec) /\ Returns(ControlFailure) /\ caller = "waiting"
      /\ wire' = Empty
      /\ late' = IF wire.holds = "request" /\ late < MaxLate THEN late + 1 ELSE late
      /\ UNCHANGED <<spec, door, record>>
  BY DEF GiveUp, Returns
<1>2. ~(Dropped /\ record.delay < Second)
  <2> SUFFICES ASSUME Dropped, record.delay < Second PROVE FALSE
    OBVIOUS
  <2>1. record.delay \in Nat /\ elapsed \in Nat /\ Second \in Nat \ {0}
    BY CheckSpecAssumption DEF IInv, CallInv
  <2>2. spec.timeout > 0 /\ T = spec.timeout /\ T \in Nat /\ spec.count \in Nat
    BY Timeouts DEF IInv, Dropped
  <2>3. PICK total \in Nat : total = T * spec.count
    BY <2>2
  <2>4. elapsed >= total + Second
    BY <1>1, <2>2, <2>3, Timeouts DEF IInv
  <2>5. wire.holds \in {"nothing", "request", "response"}
    BY DEF IInv, CallInv
  <2>6. CASE wire.holds = "request"
    BY <1>1, <2>1, <2>3, <2>4, <2>6 DEF IInv, DropInv
  <2>7. CASE wire.holds = "response"
    <3>1. elapsed <= record.delay + total
      BY <2>2, <2>3, <2>7 DEF IInv, DropInv
    <3> QED
      BY <2>1, <2>3, <2>4, <3>1
  <2>8. CASE wire.holds = "nothing"
    <3>1. PICK i \in DOMAIN handlers : handlers[i].wanted
      BY <1>1, <2>8 DEF IInv, DropInv
    <3>2. handlers[i].age <= DialTime(handlers[i]) /\ elapsed = record.delay + handlers[i].age
      BY <3>1 DEF IInv, DropInv
    <3>3. handlers[i] \in Handler /\ HandlerInv(handlers[i])
      BY HandlersTyped DEF IInv
    <3>4. DialTime(handlers[i]) <= total /\ DialTime(handlers[i]) \in Int /\ handlers[i].age \in Nat
      BY <2>3, <3>3, WorkBounds, WorkTyped DEF IInv, Handler
    <3> QED
      BY <2>1, <2>3, <2>4, <3>2, <3>4
  <2> QED
    BY <2>5, <2>6, <2>7, <2>8
<1>3. ControlFailure \in ProbeResult /\ Tells(ControlFailure)
  BY WireTyped DEF Tells
<1>4. late' \in 0..MaxLate
  BY <1>1, ProbeCallAssumption DEF IInv, CallInv
<1> QED
  BY <1>1, <1>2, <1>3, <1>4, ReturnsStep

\* What each call adds to the time since the latest status.
LEMMA CallTimeTyped ==
    ASSUME IInv
    PROVE  /\ CallTime \in Nat /\ elapsed \in 0..CallTime /\ Wait \in Nat
           /\ PollInterval \in Nat /\ PollInterval <= Wait
           /\ Calls \in Nat /\ todo \in 0..Calls /\ idle \in Nat
           /\ CallTime * (Calls - todo) \in Nat
           /\ todo > 0 => CallTime * (Calls - (todo - 1)) = CallTime * (Calls - todo) + CallTime
<1>1. CallTime \in Nat /\ elapsed \in 0..CallTime
  BY Timeouts DEF IInv, CallInv, CallTime
<1>2. Calls \in Nat /\ todo \in 0..Calls /\ idle \in Nat
  BY PollLoopAssumption DEF IInv, LoopInv
<1>3. Wait \in Nat /\ PollInterval \in Nat /\ PollInterval <= Wait
  BY Timeouts, PollLoopAssumption DEF IInv, Wait
<1>4. PICK made \in Nat : made = Calls - todo
  BY <1>2
<1>5. CallTime * 0 <= CallTime * made /\ CallTime * 0 = 0 /\ CallTime * made \in Int
  BY <1>1, Monotonic
<1>6. CallTime * (made + 1) = CallTime * made + CallTime
  BY <1>1
<1>7. Calls - (todo - 1) = made + 1
  BY <1>2, <1>4
<1> QED
  BY <1>1, <1>2, <1>3, <1>4, <1>5, <1>6, <1>7

\* Call sends the next request of the round.
LEMMA CallStep ==
    ASSUME IInv, Call PROVE IInv'
<1>1. /\ loop = "round" /\ todo > 0 /\ todo' = todo - 1 /\ caller = "idle" /\ caller' = "waiting" /\ elapsed' = 0
      /\ wire' = (IF Deadline(spec) > 0 THEN Request ELSE Empty)
      /\ reply' = NoReply /\ record' = NoRecord
      /\ UNCHANGED <<spec, door, late, handlers, loop, ticked, toTick, second, idle, cut, rounds>>
  BY DEF Call, Send
<1>2. \A k \in DOMAIN handlers : ~handlers[k].wanted
  BY <1>1, NoneWanted DEF IInv
<1>3. /\ wire' \in [holds : {"nothing", "request", "response"}, result : ProbeResult]
      /\ wire'.holds = "nothing" => wire' = Empty
      /\ wire'.holds = "request" => wire' = Request
      /\ wire'.holds # "response"
  BY <1>1, WireTyped
<1>4. /\ record' \in [delay : Nat, ended : Nat, lost : Nat, connected : BOOLEAN, crashed : BOOLEAN]
      /\ record'.delay = 0
  BY <1>1 DEF NoRecord
<1>5. elapsed = 0
  BY <1>1 DEF IInv, CallInv
<1>6. CallInv'
  <2>1. \A k \in DOMAIN handlers : HandlerInv(handlers[k])'
    BY <1>1 DEF IInv, CallInv, HandlerInv
  <2>2. reply' \in ProbeResult
    BY <1>1, WireTyped
  <2> QED
    BY <1>1, <1>2, <1>3, <1>4, <2>1, <2>2 DEF IInv, CallInv, Request, Empty, NoReply
<1>7. RecordInv'
  BY <1>1, <1>2, <1>3 DEF RecordInv, Returned
<1>8. DropInv'
  <2>1. Dropped' => Deadline(spec) > 0
    <3> SUFFICES ASSUME Dropped' PROVE Deadline(spec) > 0
      OBVIOUS
    <3>1. spec.timeout > 0
      BY <1>1 DEF Dropped
    <3>2. spec.timeout \in Nat /\ spec.count \in Nat /\ Second \in Nat \ {0}
      BY <3>1, Timeouts, CheckSpecAssumption DEF IInv
    <3>3. spec.timeout * spec.count >= 0
      BY <3>2
    <3> QED
      BY <3>2, <3>3, Timeouts DEF IInv
  <2>2. Dropped' => wire'.holds = "request"
    BY <1>1, <2>1, WireTyped
  <2> QED
    BY <1>1, <1>2, <1>3, <1>4, <2>2 DEF DropInv, Returned
<1>9. WorkInv'
  <2>1. \A k \in DOMAIN handlers : Work(handlers[k])' = Work(handlers[k])
    BY <1>1 DEF Work
  <2> QED
    BY <1>1, <1>2, <1>5, <2>1 DEF IInv, WorkInv
<1>10. LoopInv'
  <2>1. CallTime' = CallTime /\ Wait' = Wait
    BY <1>1 DEF CallTime, Wait, Deadline
  <2>2. idle <= Wait + CallTime * (Calls - todo)
    BY <1>1 DEF IInv, LoopInv
  <2>3. idle <= Wait + CallTime * (Calls - (todo - 1)) - (CallTime - 0)
    BY <1>1, <2>2, CallTimeTyped
  <2>4. todo' \in 0..Calls
    BY <1>1, CallTimeTyped
  <2>5. idle' <= Wait' + CallTime' * (Calls - todo') - (CallTime' - elapsed')
    BY <1>1, <2>1, <2>3
  <2> QED
    BY <1>1, <2>4, <2>5 DEF IInv, LoopInv
<1> QED
  BY <1>6, <1>7, <1>8, <1>9, <1>10 DEF IInv

-----------------------------------------------------------------------------
\* The steps of the loop.

\* PollDue begins a round.
LEMMA PollDueStep ==
    ASSUME IInv, PollDue PROVE IInv'
<1>1. /\ loop = "wait" /\ loop' = "round" /\ todo' = Calls /\ ticked' = FALSE
      /\ UNCHANGED <<callVars, toTick, second, idle, cut, rounds>>
  BY DEF PollDue
<1>2. CallTime' = CallTime /\ Wait' = Wait /\ caller # "waiting"
  BY <1>1 DEF CallTime, Wait, callVars, IInv, LoopInv
<1>3. LoopInv'
  <2>1. Calls \in 0..Calls /\ CallTime * (Calls - Calls) = 0 /\ Wait \in Nat
    <3>1. Calls - Calls = 0 /\ CallTime * 0 = 0 /\ Calls \in Nat /\ Wait \in Nat
      BY CallTimeTyped
    <3> QED
      BY <3>1
  <2>2. idle <= Wait
    BY <1>1 DEF IInv, LoopInv
  <2>3. idle' <= Wait' + CallTime' * (Calls - todo')
    BY <1>1, <1>2, <2>1, <2>2
  <2>4. caller' # "waiting"
    BY <1>1, <1>2 DEF callVars
  <2> QED
    BY <1>1, <2>1, <2>3, <2>4 DEF IInv, LoopInv
<1>4. CallInv' /\ RecordInv' /\ DropInv' /\ WorkInv'
  BY <1>1, CallsUnchanged DEF callVars, IInv, CallInv
<1> QED
  BY <1>3, <1>4 DEF IInv

\* PollSkips lets a tick go by.
LEMMA PollSkipsStep ==
    ASSUME IInv, PollSkips PROVE IInv'
<1>1. /\ loop = "wait" /\ ~Due /\ ticked' = FALSE
      /\ UNCHANGED <<callVars, loop, toTick, todo, second, idle, cut, rounds>>
  BY DEF PollSkips
<1>2. CallTime' = CallTime /\ Wait' = Wait
  BY <1>1 DEF CallTime, Wait, callVars
<1>3. idle + toTick <= Wait
  <2>1. spec.interval > 0 /\ idle + cut < spec.interval
    BY <1>1, Timeouts DEF Due, IInv, LoopInv
  <2>2. cut \in Nat /\ idle \in Nat /\ toTick \in 0..PollInterval /\ spec.interval \in Int
    BY Timeouts, CheckSpecAssumption DEF IInv, LoopInv
  <2> QED
    BY <2>1, <2>2, PollLoopAssumption DEF Wait
<1>4. LoopInv'
  BY <1>1, <1>2, <1>3 DEF IInv, LoopInv, callVars
<1>5. CallInv' /\ RecordInv' /\ DropInv' /\ WorkInv'
  BY <1>1, CallsUnchanged DEF callVars, IInv, CallInv
<1> QED
  BY <1>4, <1>5 DEF IInv

\* FinishRound builds the status.
LEMMA FinishRoundStep ==
    ASSUME IInv, FinishRound PROVE IInv'
<1>1. /\ loop = "round" /\ caller = "idle" /\ loop' = "wait"
      /\ idle' = 0 /\ cut' = second /\ rounds' = 1
      /\ toTick' = IF rounds = 0 THEN PollInterval ELSE toTick
      /\ UNCHANGED <<callVars, ticked, todo, second>>
  BY DEF FinishRound
<1>2. Wait' = Wait /\ caller' = "idle"
  BY <1>1 DEF Wait, callVars
<1>3. toTick' \in 0..PollInterval /\ toTick' # 0 /\ PollInterval <= Wait /\ Wait \in Nat
  <2>1. toTick' \in 0..PollInterval /\ toTick' # 0
    BY <1>1, PollLoopAssumption DEF IInv, LoopInv
  <2> QED
    BY <2>1, CallTimeTyped
<1>4. idle' <= Wait' /\ idle' + toTick' <= Wait'
  BY <1>1, <1>2, <1>3, PollLoopAssumption
<1>5. LoopInv'
  BY <1>1, <1>2, <1>3, <1>4 DEF IInv, LoopInv
<1>6. CallInv' /\ RecordInv' /\ DropInv' /\ WorkInv'
  BY <1>1, CallsUnchanged DEF callVars, IInv, CallInv
<1> QED
  BY <1>5, <1>6 DEF IInv

-----------------------------------------------------------------------------
\* Time.

\* A handler in a dial or an exchange that is not over works for one unit more.
LEMMA Worked ==
    ASSUME CallInv, NEW h \in Handler, HandlerInv(h), h.step # "select", h.spent # AgentTimeout(spec),
           NEW g, g = [h EXCEPT !.spent = @ + 1, !.age = Older(@)]
    PROVE  /\ g \in Handler /\ HandlerInv(g)
           /\ g.step = h.step /\ g.begun = h.begun /\ g.lost = h.lost
           /\ g.cancelled = h.cancelled /\ g.wanted = h.wanted
           /\ g.age = Older(h.age)
           /\ Work(g) = Work(h) + 1 /\ DialTime(g) = DialTime(h) + 1
<1>1. PICK p \in Nat : p = h.spent + 1
  BY DEF Handler
<1>2. PICK a \in Nat : a = Older(h.age)
  BY DEF Handler, Older
<1>3. g = [h EXCEPT !.spent = p, !.age = a]
  BY <1>1, <1>2
<1>4. g \in Handler
  BY <1>3 DEF Handler
<1>5. /\ g.step = h.step /\ g.begun = h.begun /\ g.lost = h.lost /\ g.spent = p /\ g.age = a
      /\ g.cancelled = h.cancelled /\ g.wanted = h.wanted
  BY <1>3 DEF Handler
<1>6. h.spent \in Nat /\ AgentTimeout(spec) \in Nat /\ h.spent <= AgentTimeout(spec)
  BY Timeouts DEF HandlerInv, Handler
<1>7. HandlerInv(g)
  BY <1>1, <1>5, <1>6 DEF HandlerInv
<1>8. Work(g) = Work(h) + 1 /\ DialTime(g) = DialTime(h) + 1
  <2> DEFINE T == AgentTimeout(spec)
             x == 2 * (IF h.step = "select" THEN h.begun ELSE h.begun - 1)
                      + (IF h.step = "exchange" THEN 1 ELSE 0)
             y == IF h.step = "select" THEN h.begun ELSE h.begun - 1
  <2>1. x \in Int /\ y \in Int
    BY DEF Handler
  <2>2. /\ Work(h) = T * x + h.spent /\ DialTime(h) = T * y + h.spent
        /\ Work(g) = T * x + p /\ DialTime(g) = T * y + p
    BY <1>5 DEF Work, DialTime
  <2> HIDE DEF x, y, T
  <2>3. T * x \in Int /\ T * y \in Int
    BY <1>6, <2>1 DEF T
  <2> QED
    BY <1>1, <1>6, <2>2, <2>3
<1> QED
  BY <1>2, <1>4, <1>5, <1>7, <1>8

\* What time does to the calls.
LEMMA CallTickStep ==
    ASSUME IInv, CallTick, ~CallUrgent
    PROVE  CallInv' /\ RecordInv' /\ DropInv' /\ WorkInv'
<1> DEFINE n == Len(handlers)
           T == AgentTimeout(spec)
           older(k) == [handlers[k] EXCEPT !.spent = @ + 1, !.age = Older(@)]
<1>1. /\ elapsed' = (IF caller = "waiting" THEN elapsed + 1 ELSE elapsed)
      /\ handlers' = [k \in DOMAIN handlers |-> older(k)]
      /\ record' = (IF caller = "waiting" /\ wire # Empty THEN [record EXCEPT !.delay = @ + 1] ELSE record)
      /\ UNCHANGED <<spec, door, caller, wire, late, reply>>
  BY DEF CallTick
<1>2. /\ caller = "waiting" => elapsed < Deadline(spec)
      /\ \A k \in DOMAIN handlers : handlers[k].step # "select" /\ handlers[k].spent # T
  BY Timeouts DEF CallUrgent, IInv, CallInv
<1>3. n \in Nat /\ DOMAIN handlers = 1..n /\ \A k \in 1..n : handlers[k] \in Handler /\ HandlerInv(handlers[k])
  BY HandlersTyped DEF IInv
<1>4. DOMAIN handlers' = 1..n /\ \A k \in 1..n : handlers'[k] = older(k)
  BY <1>1, <1>3
<1>5. \A k \in 1..n :
          /\ handlers'[k] \in Handler /\ HandlerInv(handlers'[k])
          /\ handlers'[k].step = handlers[k].step /\ handlers'[k].begun = handlers[k].begun
          /\ handlers'[k].lost = handlers[k].lost
          /\ handlers'[k].cancelled = handlers[k].cancelled /\ handlers'[k].wanted = handlers[k].wanted
          /\ handlers'[k].age = Older(handlers[k].age)
          /\ Work(handlers'[k]) = Work(handlers[k]) + 1 /\ DialTime(handlers'[k]) = DialTime(handlers[k]) + 1
  <2> SUFFICES ASSUME NEW k \in 1..n
               PROVE  /\ handlers'[k] \in Handler /\ HandlerInv(handlers'[k])
                      /\ handlers'[k].step = handlers[k].step /\ handlers'[k].begun = handlers[k].begun
                      /\ handlers'[k].lost = handlers[k].lost
                      /\ handlers'[k].cancelled = handlers[k].cancelled
                      /\ handlers'[k].wanted = handlers[k].wanted
                      /\ handlers'[k].age = Older(handlers[k].age)
                      /\ Work(handlers'[k]) = Work(handlers[k]) + 1
                      /\ DialTime(handlers'[k]) = DialTime(handlers[k]) + 1
    OBVIOUS
  <2>1. PICK g : g = older(k)
    OBVIOUS
  <2>2. handlers'[k] = g
    BY <1>4, <2>1
  <2>3. /\ handlers[k] \in Handler /\ HandlerInv(handlers[k])
        /\ handlers[k].step # "select" /\ handlers[k].spent # AgentTimeout(spec)
        /\ g = [handlers[k] EXCEPT !.spent = @ + 1, !.age = Older(@)]
    BY <1>2, <1>3, <2>1
  <2>4. /\ g \in Handler /\ HandlerInv(g)
        /\ g.step = handlers[k].step /\ g.begun = handlers[k].begun /\ g.lost = handlers[k].lost
        /\ g.cancelled = handlers[k].cancelled /\ g.wanted = handlers[k].wanted
        /\ g.age = Older(handlers[k].age)
        /\ Work(g) = Work(handlers[k]) + 1 /\ DialTime(g) = DialTime(handlers[k]) + 1
    BY <2>3, Worked DEF IInv
  <2> QED
    BY <2>2, <2>4
<1> HIDE DEF older
<1>6. handlers' \in Seq(Handler) /\ Len(handlers') = n
  BY <1>1, <1>3, <1>4, <1>5, EachHandler DEF IInv
<1>7. /\ record' \in [delay : Nat, ended : Nat, lost : Nat, connected : BOOLEAN, crashed : BOOLEAN]
      /\ record'.ended = record.ended /\ record'.lost = record.lost
      /\ record'.connected = record.connected /\ record'.crashed = record.crashed
      /\ caller = "waiting" /\ wire # Empty => record'.delay = record.delay + 1
      /\ ~(caller = "waiting" /\ wire # Empty) => record'.delay = record.delay
      /\ caller = "idle" => record' = record
  <2>1. record \in [delay : Nat, ended : Nat, lost : Nat, connected : BOOLEAN, crashed : BOOLEAN]
    BY DEF IInv, CallInv
  <2>2. PICK d \in Nat : d = record.delay + 1
    BY <2>1
  <2>3. record' = IF caller = "waiting" /\ wire # Empty THEN [record EXCEPT !.delay = d] ELSE record
    BY <1>1, <2>2
  <2> QED
    BY <2>1, <2>2, <2>3
<1>8. CallInv'
  <2>1. \A k \in DOMAIN handlers' : HandlerInv(handlers[k])'
    BY <1>1, <1>4, <1>5 DEF HandlerInv
  <2>2. elapsed' \in Nat /\ (elapsed' = 0 \/ elapsed' <= Deadline(spec)') /\ (caller' = "idle" => elapsed' = 0)
    BY <1>1, <1>2, Timeouts DEF IInv, CallInv
  <2>3. \A k \in DOMAIN handlers' : handlers'[k].wanted =>
            caller' = "waiting" /\ k = Len(handlers') /\ wire' = Empty
    BY <1>1, <1>3, <1>4, <1>5, <1>6 DEF IInv, CallInv
  <2> QED
    BY <1>1, <1>6, <1>7, <2>1, <2>2, <2>3 DEF IInv, CallInv, Request, Empty, NoReply
<1>9. RecordInv'
  <2>1. \A k \in DOMAIN handlers' : handlers'[k].wanted =>
          /\ record'.lost = handlers'[k].lost
          /\ record'.ended = IF handlers'[k].step = "select" THEN handlers'[k].begun ELSE handlers'[k].begun - 1
    BY <1>3, <1>4, <1>5, <1>7 DEF IInv, RecordInv
  <2> QED
    BY <1>1, <1>7, <2>1 DEF IInv, RecordInv, Tells, Returned
<1>10. DropInv'
  <2>1. Dropped' <=> Dropped
    BY <1>1, <1>7 DEF Dropped, Admits, ServerGrants
  <2>2. record.delay \in Nat /\ elapsed \in Nat
    BY DEF IInv, CallInv
  <2>3. ASSUME NEW k \in 1..n, Dropped, handlers'[k].wanted
        PROVE  /\ handlers'[k].step # "exchange"
               /\ handlers'[k].age <= DialTime(handlers'[k])
               /\ handlers'[k].cancelled => handlers'[k].age >= ReadTimeout
               /\ elapsed' = record'.delay + handlers'[k].age
    <3>1. /\ handlers[k].wanted /\ caller = "waiting" /\ wire = Empty
          /\ handlers[k].step # "exchange"
          /\ handlers[k].age <= DialTime(handlers[k])
          /\ handlers[k].cancelled => handlers[k].age >= ReadTimeout
          /\ elapsed = record.delay + handlers[k].age
      BY <1>3, <1>5, <2>3 DEF IInv, DropInv, CallInv
    <3>2. handlers[k].age \in Nat /\ DialTime(handlers[k]) \in Int
      BY <1>3, WorkTyped DEF IInv, Handler
    <3>3. handlers[k].age <= ReadTimeout
      <4>1. T * spec.count \in Nat /\ DialTime(handlers[k]) <= T * spec.count
        BY <1>3, WorkBounds DEF IInv
      <4>2. T * spec.count <= ReadTimeout
        BY <2>3, Timeouts DEF IInv, Dropped, ServerGrants
      <4> HIDE DEF T
      <4> QED
        BY <3>1, <3>2, <4>1, <4>2, ProbeCallAssumption
    <3>4. Older(handlers[k].age) = handlers[k].age + 1
      BY <3>2, <3>3, ProbeCallAssumption DEF Older
    <3>5. record'.delay = record.delay /\ elapsed' = elapsed + 1
      BY <1>1, <1>7, <3>1
    <3>6. handlers'[k].age = handlers[k].age + 1 /\ DialTime(handlers'[k]) = DialTime(handlers[k]) + 1
      BY <1>5, <3>4
    <3>7. elapsed' = record'.delay + handlers'[k].age
      <4>1. handlers'[k].age = handlers[k].age + 1
        BY <3>6
      <4> QED
        BY <2>2, <3>1, <3>2, <3>5, <4>1
    <3>8. handlers'[k].age <= DialTime(handlers'[k])
      <4> DEFINE a == handlers[k].age
                 d == DialTime(handlers[k])
                 b == handlers'[k].age
                 e == DialTime(handlers'[k])
      <4>1. a \in Nat /\ d \in Int /\ a <= d /\ b = a + 1 /\ e = d + 1
        BY <3>1, <3>2, <3>6
      <4> HIDE DEF a, b, d, e
      <4>2. b <= e
        BY <4>1
      <4> QED
        BY <4>2 DEF b, e
    <3>9. handlers'[k].cancelled => handlers'[k].age >= ReadTimeout
      <4>1. handlers'[k].cancelled = handlers[k].cancelled /\ handlers'[k].age = handlers[k].age + 1
        BY <1>5, <3>6
      <4> QED
        BY <3>1, <3>2, <4>1, ProbeCallAssumption
    <3> QED
      BY <1>5, <3>1, <3>7, <3>8, <3>9
  <2>4. \A k \in DOMAIN handlers' : DialTime(handlers[k])' = DialTime(handlers'[k])
    BY <1>1 DEF DialTime
  <2>5. Dropped' /\ caller' = "waiting" /\ wire'.holds = "request" => elapsed' = record'.delay
    BY <1>1, <1>7, <2>1, <2>2, WireTyped DEF IInv, DropInv
  <2>6. Dropped' /\ wire'.holds = "response" =>
          ~wire'.result.agentError /\ elapsed' <= record'.delay + (spec.timeout * spec.count)'
    <3> SUFFICES ASSUME Dropped, wire.holds = "response"
                 PROVE  ~wire.result.agentError /\ elapsed' <= record'.delay + spec.timeout * spec.count
      BY <1>1, <2>1
    <3>1. caller = "waiting" /\ wire # Empty
      BY WireTyped DEF IInv, CallInv
    <3>2. ~wire.result.agentError /\ elapsed <= record.delay + spec.timeout * spec.count
      BY DEF IInv, DropInv
    <3>3. spec.timeout * spec.count \in Int
      BY Timeouts DEF IInv
    <3>4. elapsed' = elapsed + 1 /\ record'.delay = record.delay + 1
      BY <1>1, <1>7, <3>1
    <3>5. PICK total \in Int : total = spec.timeout * spec.count
      BY <3>3
    <3> QED
      BY <2>2, <3>2, <3>4, <3>5
  <2>7. Dropped' /\ caller' = "waiting" /\ wire'.holds = "nothing" => \E k \in DOMAIN handlers' : handlers'[k].wanted
    BY <1>1, <1>3, <1>4, <1>5, <2>1 DEF IInv, DropInv
  <2>8. Dropped' /\ Returned' /\ record'.delay < Second => ~reply'.agentError
    BY <1>1, <1>7, <2>1 DEF IInv, DropInv, Returned
  <2> QED
    BY <1>4, <2>1, <2>3, <2>4, <2>5, <2>6, <2>7, <2>8 DEF DropInv
<1>11. WorkInv'
  <2> SUFFICES ASSUME spec.timeout > 0 PROVE WorkInv'
    BY <1>1 DEF WorkInv
  <2> DEFINE D == Deadline(spec)
  <2>1. \A k \in DOMAIN handlers' : Work(handlers[k])' = Work(handlers[k]) + 1
    <3>1. \A k \in DOMAIN handlers' : Work(handlers[k])' = Work(handlers'[k])
      BY <1>1 DEF Work
    <3> QED
      BY <1>4, <1>5, <3>1
  <2>2. /\ \A k \in 1..n : Work(handlers[k]) \in Int
        /\ D \in Int /\ D' = D /\ elapsed \in Nat /\ elapsed' \in Nat /\ elapsed' <= elapsed + 1
    BY <1>1, <1>3, WorkTyped, Timeouts DEF IInv, CallInv
  <2>3. /\ \A k \in 1..n : ~handlers[k].wanted => Work(handlers[k]) >= elapsed
        /\ \A k, l \in 1..n : k < l /\ ~handlers[l].wanted => Work(handlers[k]) >= D + elapsed
        /\ \A k \in 1..n : handlers[k].age <= Work(handlers[k])
        /\ n <= 3 /\ (n = 3 => handlers[3].wanted)
    BY <1>3 DEF IInv, WorkInv
  <2> HIDE DEF D
  <2>4. \A k \in DOMAIN handlers' : ~handlers'[k].wanted => Work(handlers[k])' >= elapsed'
    <3> SUFFICES ASSUME NEW k \in 1..n, ~handlers'[k].wanted PROVE Work(handlers[k]) + 1 >= elapsed'
      BY <1>4, <2>1
    <3>1. Work(handlers[k]) >= elapsed /\ Work(handlers[k]) \in Int
      BY <1>5, <2>2, <2>3
    <3> QED
      BY <2>2, <3>1
  <2>5. \A k, l \in DOMAIN handlers' : k < l /\ ~handlers'[l].wanted => Work(handlers[k])' >= D + elapsed'
    <3> SUFFICES ASSUME NEW k \in 1..n, NEW l \in 1..n, k < l, ~handlers'[l].wanted
                 PROVE  Work(handlers[k]) + 1 >= D + elapsed'
      BY <1>4, <2>1
    <3>1. Work(handlers[k]) >= D + elapsed /\ Work(handlers[k]) \in Int
      BY <1>5, <2>2, <2>3
    <3> QED
      BY <2>2, <3>1
  <2>6. \A k \in DOMAIN handlers' : handlers'[k].age <= Work(handlers[k])'
    <3> SUFFICES ASSUME NEW k \in 1..n PROVE handlers'[k].age <= Work(handlers[k]) + 1
      BY <1>4, <2>1
    <3>1. handlers[k].age \in Nat /\ handlers'[k].age <= handlers[k].age + 1
      <4>1. handlers[k].age \in Nat
        BY <1>3 DEF Handler
      <4>2. handlers'[k].age = Older(handlers[k].age)
        BY <1>5
      <4>3. Older(handlers[k].age) <= handlers[k].age + 1
        BY <4>1 DEF Older
      <4> QED
        BY <4>1, <4>2, <4>3
    <3>2. Work(handlers[k]) \in Int /\ handlers[k].age <= Work(handlers[k])
      BY <2>2, <2>3
    <3>3. handlers'[k].age \in Nat
      BY <1>5 DEF Handler
    <3> DEFINE w == Work(handlers[k])
               a == handlers[k].age
               b == handlers'[k].age
    <3>4. w \in Int /\ a \in Nat /\ b \in Nat /\ a <= w /\ b <= a + 1
      BY <3>1, <3>2, <3>3
    <3> HIDE DEF w, a, b
    <3>5. b <= w + 1
      BY <3>4
    <3> QED
      BY <3>5 DEF w, b
  <2>7. n = 3 => handlers'[3].wanted
    <3>1. n = 3 => 3 \in 1..n
      OBVIOUS
    <3> QED
      BY <1>5, <2>3, <3>1
  <2> QED
    BY <1>1, <1>6, <2>2, <2>3, <2>4, <2>5, <2>6, <2>7 DEF WorkInv, D
<1> QED
  BY <1>8, <1>9, <1>10, <1>11

\* TimePasses while a tick or a call is waited for, neither for too long.
LEMMA TimeStep ==
    ASSUME IInv, TimePasses PROVE IInv'
<1>1. /\ ~CallUrgent /\ CallTick
      /\ ~(loop = "wait" /\ ticked) /\ ~(loop = "round" /\ caller = "idle")
      /\ second' = (second + 1) % Second
      /\ idle' = (IF rounds = 0 THEN 0 ELSE idle + 1)
      /\ ticked' = (ticked \/ toTick = 1)
      /\ toTick' = (IF toTick = 1 THEN PollInterval ELSE IF toTick > 0 THEN toTick - 1 ELSE 0)
      /\ UNCHANGED <<loop, todo, cut, rounds>>
  BY DEF TimePasses
<1>2. /\ elapsed' = (IF caller = "waiting" THEN elapsed + 1 ELSE elapsed)
      /\ UNCHANGED <<spec, door, caller, wire, late, reply>>
  BY <1>1 DEF CallTick
<1>3. CallTime' = CallTime /\ Wait' = Wait
  BY <1>2 DEF CallTime, Wait, Deadline
<1>4. CallInv' /\ RecordInv' /\ DropInv' /\ WorkInv'
  BY <1>1, CallTickStep
<1>5. LoopInv'
  <2>1. second' \in 0..(Second - 1)
    BY <1>1, CheckSpecAssumption DEF IInv, LoopInv
  <2>2. toTick' \in 0..PollInterval /\ (rounds' = 1 => toTick' # 0)
    BY <1>1, PollLoopAssumption DEF IInv, LoopInv
  <2>3. idle' \in Nat /\ (rounds' = 0 => idle' = 0) /\ idle' <= idle + 1
    BY <1>1 DEF IInv, LoopInv
  <2>4. ticked' \in BOOLEAN
    BY <1>1 DEF IInv, LoopInv
  <2>5. CASE loop = "wait"
    <3>1. ~ticked /\ idle + toTick <= Wait /\ caller = "idle"
      BY <1>1, <2>5 DEF IInv, LoopInv, CallInv
    <3>2. CASE rounds = 0
      <4>1. idle' = 0 /\ toTick' <= Wait /\ Wait \in Nat
        <5>1. idle' = 0
          BY <1>1, <3>2
        <5>2. PollInterval \in Nat /\ PollInterval <= Wait /\ Wait \in Nat
          BY CallTimeTyped
        <5>3. toTick' \in 0..PollInterval
          BY <2>2
        <5> QED
          BY <5>1, <5>2, <5>3
      <4>2. idle' + toTick' <= Wait
        <5>1. toTick' \in 0..PollInterval /\ PollInterval \in Nat
          BY <2>2, CallTimeTyped
        <5>2. PICK t \in Nat : t = toTick'
          BY <5>1
        <5>3. idle' + toTick' = 0 + t /\ t <= Wait
          BY <4>1, <5>2
        <5> QED
          BY <5>2, <5>3
      <4> QED
        BY <1>1, <1>2, <1>3, <2>1, <2>2, <2>3, <2>4, <2>5, <3>1, <4>1, <4>2 DEF IInv, LoopInv
    <3>3. CASE rounds = 1
      <4>1. toTick \in 1..PollInterval /\ idle \in Nat /\ Wait \in Nat
        BY <3>3, CallTimeTyped, PollLoopAssumption DEF IInv, LoopInv
      <4>2. idle' = idle + 1
        BY <1>1, <3>3
      <4>3. idle' <= Wait
        BY <3>1, <4>1, <4>2
      <4>4. ~ticked' => idle' + toTick' <= Wait
        <5>1. ~ticked' => toTick # 1
          BY <1>1
        <5>2. ~ticked' => toTick' = toTick - 1
          BY <1>1, <4>1, <5>1
        <5> QED
          BY <3>1, <4>1, <4>2, <5>2
      <4> QED
        BY <1>1, <1>2, <1>3, <2>1, <2>2, <2>3, <2>4, <2>5, <3>1, <4>3, <4>4 DEF IInv, LoopInv
    <3> QED
      BY <3>2, <3>3 DEF IInv, LoopInv
  <2>6. CASE loop = "round"
    <3>1. caller = "waiting"
      BY <1>1, <2>6 DEF IInv, CallInv
    <3>2. idle <= Wait + CallTime * (Calls - todo) - (CallTime - elapsed)
      BY <3>1 DEF IInv, LoopInv
    <3>3. idle' <= Wait + CallTime * (Calls - todo) - (CallTime - elapsed')
      BY <1>2, <2>3, <3>1, <3>2, CallTimeTyped
    <3>4. idle' <= Wait' + CallTime' * (Calls - todo') - (CallTime' - elapsed')
      BY <1>1, <1>3, <3>3
    <3> QED
      BY <1>1, <1>2, <2>1, <2>2, <2>3, <2>4, <2>6, <3>1, <3>4 DEF IInv, LoopInv
  <2> QED
    BY <2>5, <2>6 DEF IInv, LoopInv
<1> QED
  BY <1>4, <1>5 DEF IInv

-----------------------------------------------------------------------------
\* The invariant holds in the initial states.
LEMMA InitInv == Init => IInv
<1> SUFFICES ASSUME Init PROVE IInv
  OBVIOUS
<1>1. /\ caller = "idle" /\ elapsed = 0 /\ wire = Empty /\ late = 0 /\ reply = NoReply
      /\ handlers = <<>> /\ record = NoRecord
      /\ loop = "wait" /\ ticked = TRUE /\ toTick = 0 /\ todo = 0
      /\ second \in 0..(Second - 1) /\ idle = 0 /\ cut = 0 /\ rounds = 0
  BY DEF Init, CallInit
<1>2. PICK resource \in Resources : spec = Reconciled(ParseSpec(resource))
  BY DEF Init, CallInit
<1>3. spec \in [interval : Int, timeout : Int, count : Nat \ {0}]
  <2>1. resource \in Resource
    BY <1>2, ProbeCallAssumption
  <2>2. /\ OrElse(resource.interval, DefaultInterval) \in Int
        /\ OrElse(resource.probeTimeout, DefaultTimeout) \in Int
        /\ OrElse({c \in resource.probeCount : c > 0}, DefaultCount) \in Nat \ {0}
    BY <2>1, CheckSpecAssumption DEF Resource, OrElse
  <2>3. ParseSpec(resource) \in [interval : Int, timeout : Int, count : Nat \ {0}]
    BY <2>2 DEF ParseSpec
  <2>4. PICK parsed \in [interval : Int, timeout : Int, count : Nat \ {0}] : parsed = ParseSpec(resource)
    BY <2>3
  <2>5. PICK t \in Int : t = IF parsed.timeout = 0 THEN DefaultTimeout ELSE parsed.timeout
    BY CheckSpecAssumption
  <2>6. spec = [parsed EXCEPT !.timeout = t]
    BY <1>2, <2>4, <2>5 DEF Reconciled
  <2> QED
    BY <2>6
<1>4. handlers \in Seq(Handler) /\ Len(handlers) = 0 /\ DOMAIN handlers = {}
  BY <1>1
<1>5. record \in [delay : Nat, ended : Nat, lost : Nat, connected : BOOLEAN, crashed : BOOLEAN]
  BY <1>1 DEF NoRecord
<1>6. CallInv
  BY <1>1, <1>3, <1>4, <1>5, WireTyped, ProbeCallAssumption DEF CallInv
<1>7. RecordInv /\ DropInv /\ WorkInv
  BY <1>1, <1>4, WireTyped DEF RecordInv, DropInv, WorkInv, Returned
<1>8. LoopInv
  <2>1. Wait \in Nat
    BY <1>6, Timeouts, PollLoopAssumption DEF Wait
  <2> QED
    BY <1>1, <2>1, PollLoopAssumption, CheckSpecAssumption DEF LoopInv
<1> QED
  BY <1>6, <1>7, <1>8 DEF IInv

\* Every step keeps the invariant.
LEMMA NextInv == IInv /\ [Next]_vars => IInv'
<1> SUFFICES ASSUME IInv, [Next]_vars PROVE IInv'
  OBVIOUS
<1>1. CASE PollDue
  BY <1>1, PollDueStep
<1>2. CASE PollSkips
  BY <1>2, PollSkipsStep
<1>3. CASE Call
  BY <1>3, CallStep
<1>4. CASE FinishRound
  BY <1>4, FinishRoundStep
<1>5. CASE TimePasses
  BY <1>5, TimeStep
<1>6. CASE CallNext /\ UNCHANGED loopVars
  <2>1. CASE Receive
    BY <1>6, <2>1, ReceiveStep
  <2>2. CASE GiveUp
    BY <1>6, <2>2, GiveUpStep
  <2>3. CASE Refuse
    BY <1>6, <2>3, RefuseStep
  <2>4. CASE Accept
    BY <1>6, <2>4, AcceptStep
  <2>5. CASE AgentCrashes
    BY <1>6, <2>5, CrashStep
  <2>7. CASE LateEnds
    BY <1>6, <2>7, LateEndsStep
  <2>6. ASSUME NEW i \in DOMAIN handlers,
               \/ Cancel(i) \/ Begin(i) \/ Interrupted(i) \/ Finish(i) \/ Connect(i) \/ Ack(i)
               \/ \E error \in {"refused", "timeout"} : Lose(i, error)
        PROVE  IInv'
    BY <1>6, <2>6, CancelStep, BeginStep, InterruptedStep, FinishStep, ConnectStep, AckStep, LoseStep
  <2> QED
    BY <1>6, <2>1, <2>2, <2>3, <2>4, <2>5, <2>6, <2>7 DEF CallNext
<1>7. CASE UNCHANGED vars
  <2>1. UNCHANGED callVars /\ UNCHANGED loopVars
    BY <1>7 DEF vars
  <2>2. UNCHANGED <<spec, door, caller, elapsed, wire, late, reply, handlers, record>>
    BY <2>1 DEF callVars
  <2>3. late' \in 0..MaxLate
    BY <2>2 DEF IInv, CallInv
  <2> QED
    BY <2>1, <2>2, <2>3, CallsUnchanged, LoopUnchanged DEF IInv
<1> QED
  BY <1>1, <1>2, <1>3, <1>4, <1>5, <1>6, <1>7 DEF Next

\* The inductive invariant: who is wanted, what the record has to say, how old
\* handlers are and how long a status may be waited for.
THEOREM InductiveInvariant == Spec => []IInv
BY InitInv, NextInv, PTL DEF Spec

-----------------------------------------------------------------------------
\* The settings, the call, its handlers and the loop are of their types, and
\* no call is waited for longer than its deadline.
THEOREM PollLoopTypeCorrect == Spec => []TypeOK
<1>1. IInv => TypeOK
  <2> SUFFICES ASSUME IInv PROVE TypeOK
    OBVIOUS
  <2>1. elapsed \in 0..(IF Deadline(spec) > 0 THEN Deadline(spec) ELSE 0)
    BY Timeouts DEF IInv, CallInv
  <2>2. \A i \in DOMAIN handlers :
          /\ handlers[i].spent \in 0..AgentTimeout(spec)
          /\ handlers[i].begun \in 0..spec.count
          /\ handlers[i].lost \in 0..handlers[i].begun
          /\ handlers[i].wanted => caller = "waiting" /\ i = Len(handlers)
    <3> SUFFICES ASSUME NEW i \in DOMAIN handlers
                 PROVE  /\ handlers[i].spent \in 0..AgentTimeout(spec)
                        /\ handlers[i].begun \in 0..spec.count
                        /\ handlers[i].lost \in 0..handlers[i].begun
                        /\ handlers[i].wanted => caller = "waiting" /\ i = Len(handlers)
      OBVIOUS
    <3>1. handlers[i] \in Handler /\ HandlerInv(handlers[i])
      BY HandlersTyped DEF IInv
    <3>2. AgentTimeout(spec) \in Nat /\ spec.count \in Nat
      BY Timeouts DEF IInv
    <3>3. handlers[i].wanted => caller = "waiting" /\ i = Len(handlers)
      BY DEF IInv, CallInv
    <3> QED
      BY <3>1, <3>2, <3>3 DEF Handler, HandlerInv
  <2>3. CallTypeOK
    BY <2>1, <2>2 DEF CallTypeOK, IInv, CallInv
  <2> QED
    BY <2>3 DEF TypeOK, IInv, LoopInv
<1> QED
  BY <1>1, InductiveInvariant, PTL

\* What a call reports as measured was measured by its own probes and in full,
\* whatever handlers of earlier calls still do.
THEOREM MeasuredIsComplete == Spec => []MeasuredMeansComplete
<1>1. IInv => MeasuredMeansComplete
  BY DEF IInv, RecordInv, Tells, MeasuredMeansComplete
<1> QED
  BY <1>1, InductiveInvariant, PTL

\* A data plane that drops everything is measured, for any timeout and count
\* that the server's own timeouts leave room for.
THEOREM DropMeasured == Spec => []DropIsMeasured
<1>1. IInv => DropIsMeasured
  BY DEF IInv, DropInv, Dropped, DropIsMeasured
<1> QED
  BY <1>1, InductiveInvariant, PTL

\* The work of calls given up ends: a request taken up while its caller waited
\* is handled for at most two timeouts per probe, and at most three of them at
\* once, for any positive timeout and any count.
THEOREM UnwantedWorkBounded == Spec => []UnwantedWorkEnds
<1>1. IInv => UnwantedWorkEnds
  <2> SUFFICES ASSUME IInv, spec.timeout > 0
               PROVE  /\ \A i \in DOMAIN handlers : handlers[i].age <= 2 * spec.timeout * spec.count
                      /\ Len(handlers) <= 3
    BY DEF UnwantedWorkEnds
  <2>1. ASSUME NEW i \in DOMAIN handlers
        PROVE  handlers[i].age <= 2 * spec.timeout * spec.count
    <3>1. handlers[i] \in Handler /\ HandlerInv(handlers[i])
      BY HandlersTyped DEF IInv
    <3>2. AgentTimeout(spec) = spec.timeout /\ spec.timeout \in Nat /\ spec.count \in Nat
      BY Timeouts DEF IInv
    <3>3. PICK total \in Nat : total = spec.timeout * spec.count
      BY <3>2
    <3>4. Work(handlers[i]) <= total + total /\ Work(handlers[i]) \in Int
      BY <3>1, <3>2, <3>3, WorkBounds, WorkTyped DEF IInv
    <3>5. handlers[i].age <= Work(handlers[i]) /\ handlers[i].age \in Nat
      BY <3>1 DEF IInv, WorkInv, Handler
    <3>6. 2 * spec.timeout * spec.count = total + total
      BY <3>2, <3>3
    <3> QED
      BY <3>3, <3>4, <3>5, <3>6
  <2> QED
    BY <2>1 DEF IInv, WorkInv
<1> QED
  BY <1>1, InductiveInvariant, PTL

\* The status is never older than the interval, a period of the ticker and the
\* deadlines of a round, for any number of calls and any settings.
THEOREM StatusIsFresh == Spec => []Freshness
<1>1. IInv => Freshness
  <2> SUFFICES ASSUME IInv PROVE Freshness
    OBVIOUS
  <2>1. LongestGap = Wait + Calls * CallTime
    BY DEF LongestGap, LongestRound, Wait, CallTime, Deadline
  <2>2. Calls * CallTime = CallTime * Calls /\ CallTime * Calls \in Int
    BY CallTimeTyped
  <2>3. CallTime * (Calls - todo) <= CallTime * Calls /\ CallTime * (Calls - todo) \in Nat
    BY CallTimeTyped, Monotonic
  <2>4. /\ idle \in Nat /\ Wait \in Nat /\ CallTime \in Nat /\ elapsed \in 0..CallTime
        /\ loop \in {"wait", "round"} /\ caller \in {"idle", "waiting"}
    BY CallTimeTyped DEF IInv, LoopInv, CallInv
  <2>5. CASE loop = "wait"
    <3>1. idle <= Wait
      BY <2>5 DEF IInv, LoopInv
    <3>2. CallTime * Calls >= 0
      BY <2>2, <2>3
    <3> QED
      BY <2>1, <2>2, <2>4, <3>1, <3>2 DEF Freshness
  <2>6. CASE loop = "round" /\ caller = "idle"
    <3>1. idle <= Wait + CallTime * (Calls - todo)
      BY <2>6 DEF IInv, LoopInv
    <3> QED
      BY <2>1, <2>2, <2>3, <2>4, <3>1 DEF Freshness
  <2>7. CASE caller = "waiting"
    <3>1. idle <= Wait + CallTime * (Calls - todo) - (CallTime - elapsed)
      BY <2>7 DEF IInv, LoopInv
    <3> QED
      BY <2>1, <2>2, <2>3, <2>4, <3>1 DEF Freshness
  <2> QED
    BY <2>4, <2>5, <2>6, <2>7
<1> QED
  BY <1>1, InductiveInvariant, PTL

\* Rounds follow each other at the interval, but for less than the second that
\* lastProbeTime may lack.
THEOREM IntervalKept == Spec => IntervalIsKept
<1>1. IInv /\ [Next]_vars => [PollDue => rounds = 0 \/ idle > spec.interval - Second]_vars
  <2> SUFFICES ASSUME IInv, PollDue, rounds # 0 PROVE idle > spec.interval - Second
    OBVIOUS
  <2>1. spec.interval <= 0 \/ idle + cut >= spec.interval
    BY DEF PollDue, Due
  <2>2. cut \in 0..(Second - 1) /\ idle \in Nat /\ Second \in Nat \ {0} /\ spec.interval \in Int
    BY Timeouts, CheckSpecAssumption DEF IInv, LoopInv
  <2> QED
    BY <2>1, <2>2
<1> QED
  BY <1>1, InductiveInvariant, PTL DEF Spec, IntervalIsKept
=============================================================================
