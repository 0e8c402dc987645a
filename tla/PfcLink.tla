------------------------------- MODULE PfcLink -------------------------------
(***************************************************************************)
(* Priority flow control over one link (the switch_* handlers of           *)
(* executor/src/scalar.rs): an upstream egress queue sends over a          *)
(* controlled link to downstream egress queues.  Each downstream queue     *)
(* monitors the bytes that the link has brought to it, per class, and      *)
(* sends PAUSE and RESUME frames back over a control lane.                 *)
(*                                                                         *)
(* Every queue is an LP with the same handlers.  Time is relative: an      *)
(* event carries the time left until it is due, so behaviours are not      *)
(* bounded in length.  At one instant an LP takes its arrivals (phase 0),  *)
(* then its TxComplete (phase 1), then its TxReady (phase 2).              *)
(***************************************************************************)
EXTENDS Integers, Sequences, FiniteSetsExt

CONSTANTS
  Up,             \* the upstream queue
  Down,           \* the downstream queues, controllers of the link
  Beyond,         \* a controller that pauses the downstream queues in turn
  Class,          \* priorities under PFC
  Size,           \* frame sizes in bytes
  Rate,           \* bytes per ns of every link
  Propagation,    \* of the controlled link
  ReverseDelay,   \* of a 64-byte control frame
  Xon, Xoff,
  Traffic,        \* the sets of frames an image's sources may send over the link
  MaxQueue        \* bound: frames that wait at the upstream queue

LP == {Up} \cup Down

Frame == [class : Class, size : Size, to : Down]

MaxFrame == Max(Size)

CeilDiv(a, b) == (a + b - 1) \div b

\* validate.rs: pfc_line_rate_bytes, for a rate in bytes per ns.
pfc_line_rate_bytes == Rate * (Propagation + ReverseDelay)

\* Mutant: the frame whose transmission a PAUSE finds started is not counted.
HeadroomOneFrame == (MaxFrame - 1) + pfc_line_rate_bytes

pfc_required_headroom_bytes == (MaxFrame - 1) + pfc_line_rate_bytes + MaxFrame

\* The smallest buffer the validator accepts.
Capacity == Xoff + pfc_required_headroom_bytes

ASSUME PfcAssumption ==
  /\ Up \notin Down /\ Beyond \notin LP
  /\ Traffic \subseteq SUBSET Frame
  /\ Xon \in Nat /\ Xoff \in Nat /\ Xon < Xoff
  /\ Size \subseteq Nat \ {0} /\ Rate \in Nat \ {0}
  /\ \E largest \in Size : \A size \in Size : size <= largest
  /\ Propagation \in Nat /\ ReverseDelay \in Nat \ {0}

VARIABLES
  traffic,    \* the frames that the sources behind the upstream queue send
  queues,     \* per LP, its SwitchQueueState
  phase,      \* per LP, the phase it has reached at this instant
  link,       \* frames on the controlled link
  control,    \* per downstream queue, PAUSE and RESUME frames on its control lane
  dropped     \* a frame was dropped because the monitored buffer was full

vars == <<traffic, queues, phase, link, control, dropped>>

-----------------------------------------------------------------------------

serialization_time_ns(size) == CeilDiv(size, Rate)

IsPaused(q, c) == q.paused_by[c] # {}

\* pfc_first_eligible: the positions whose class is not paused.
Eligible(q) == {i \in DOMAIN q.queue : ~IsPaused(q, q.queue[i].class)}

Idle(q) == q.in_service = {} /\ ~q.tx_ready_pending

\* The queue once the frame at position i has left it.
Without(s, i) == SubSeq(s, 1, i - 1) \o SubSeq(s, i + 1, Len(s))

\* TxReady is scheduled at this instant when an idle queue can serve something.
ScheduleReady(q) ==
  IF Idle(q) /\ Eligible(q) # {} THEN [q EXCEPT !.tx_ready_pending = TRUE] ELSE q

EmptyQueue ==
  [queue |-> <<>>, in_service |-> {}, left |-> 0, tx_ready_pending |-> FALSE,
   paused_by |-> [c \in Class |-> {}],
   occupancy_bytes |-> [c \in Class |-> 0], pause_asserted |-> [c \in Class |-> FALSE]]

Init ==
  /\ traffic \in Traffic
  /\ queues = [n \in LP |-> EmptyQueue]
  /\ phase = [n \in LP |-> 0]
  /\ link = <<>>
  /\ control = [d \in Down |-> <<>>]
  /\ dropped = FALSE

ControlFrame(c, pause) == [class |-> c, pause |-> pause, left |-> ReverseDelay]

\* A frame joins the queue; TxReady is scheduled unless its own class is paused.
Enqueued(q, frame) ==
  [q EXCEPT !.queue = Append(@, frame),
            !.tx_ready_pending = @ \/ (q.in_service = {} /\ ~IsPaused(q, frame.class))]

\* switch_remote_arrival at the upstream queue, which monitors no link.
UpstreamArrival(frame) ==
  /\ phase[Up] = 0
  /\ Len(queues[Up].queue) < MaxQueue
  /\ queues' = [queues EXCEPT ![Up] = Enqueued(@, frame)]
  /\ UNCHANGED <<traffic, phase, link, control, dropped>>

\* switch_remote_arrival at a downstream queue, over the controlled link.
switch_remote_arrival ==
  /\ link # <<>>
  /\ Head(link).left = 0
  /\ LET frame == Head(link).frame
         d     == frame.to
         q     == queues[d]
         depth == q.occupancy_bytes[frame.class] + frame.size
         crosses == depth >= Xoff /\ ~q.pause_asserted[frame.class]
     IN IF depth > Capacity
        THEN /\ dropped' = TRUE
             /\ UNCHANGED <<queues, control>>
        ELSE /\ queues' = [queues EXCEPT ![d] =
                  [Enqueued(q, frame) EXCEPT
                     !.occupancy_bytes[frame.class] = depth,
                     !.pause_asserted[frame.class] = @ \/ crosses]]
             /\ control' = IF crosses
                           THEN [control EXCEPT ![d] = Append(@, ControlFrame(frame.class, TRUE))]
                           ELSE control
             /\ UNCHANGED dropped
  /\ link' = Tail(link)
  /\ UNCHANGED <<traffic, phase>>

\* Mutant: a RESUME schedules nothing.
ResumeWithoutReady(q, d, c, pause) ==
  [q EXCEPT !.paused_by[c] = IF pause THEN @ \cup {d} ELSE @ \ {d}]

\* A PAUSE or RESUME of controller d for class c at queue n.
PfcApplied(q, d, c, pause) ==
  IF pause THEN [q EXCEPT !.paused_by[c] = @ \cup {d}]
  ELSE LET r == [q EXCEPT !.paused_by[c] = @ \ {d}]
       IN IF q.paused_by[c] = {d} THEN ScheduleReady(r) ELSE r

\* Mutant: the frame is applied to the first class.
PauseIgnoresClass(d) ==
  /\ control[d] # <<>>
  /\ Head(control[d]).left = 0
  /\ queues' = [queues EXCEPT ![Up] =
                  PfcApplied(@, d, CHOOSE c \in Class : TRUE, Head(control[d]).pause)]
  /\ control' = [control EXCEPT ![d] = Tail(@)]
  /\ UNCHANGED <<traffic, phase, link, dropped>>

\* switch_pfc_remote_arrival at the upstream queue.
switch_pfc_remote_arrival(d) ==
  /\ control[d] # <<>>
  /\ Head(control[d]).left = 0
  /\ queues' = [queues EXCEPT ![Up] =
                  PfcApplied(@, d, Head(control[d]).class, Head(control[d]).pause)]
  /\ control' = [control EXCEPT ![d] = Tail(@)]
  /\ UNCHANGED <<traffic, phase, link, dropped>>

\* The same handler at a downstream queue, whose controller is the environment.
BeyondPfcArrival(d, c, pause) ==
  /\ phase[d] = 0
  /\ queues' = [queues EXCEPT ![d] = PfcApplied(@, Beyond, c, pause)]
  /\ UNCHANGED <<traffic, phase, link, control, dropped>>

\* No arrival is due at n.
ArrivalsDone(n) ==
  IF n = Up THEN \A d \in Down : \A i \in DOMAIN control[d] : control[d][i].left > 0
  ELSE \A i \in DOMAIN link : link[i].frame.to = n => link[i].left > 0

\* Mutant: the end of a transmission does not look for the next frame.
TxCompleteOnly(n) ==
  /\ ArrivalsDone(n)
  /\ queues[n].in_service # {}
  /\ queues[n].left = 0
  /\ queues' = [queues EXCEPT ![n].in_service = {}]
  /\ phase' = [phase EXCEPT ![n] = 1]
  /\ UNCHANGED <<traffic, link, control, dropped>>

\* switch_tx_complete.
switch_tx_complete(n) ==
  /\ ArrivalsDone(n)
  /\ queues[n].in_service # {}
  /\ queues[n].left = 0
  /\ queues' = [queues EXCEPT ![n] = ScheduleReady([@ EXCEPT !.in_service = {}])]
  /\ phase' = [phase EXCEPT ![n] = 1]
  /\ UNCHANGED <<traffic, link, control, dropped>>

\* The served frame leaves the monitored buffer.
Drained(q, frame) ==
  LET depth == q.occupancy_bytes[frame.class] - frame.size
  IN [q EXCEPT !.occupancy_bytes[frame.class] = depth,
               !.pause_asserted[frame.class] = @ /\ depth > Xon]

\* switch_tx_ready: the first eligible frame enters service.
switch_tx_ready(n) ==
  /\ ArrivalsDone(n)
  /\ queues[n].tx_ready_pending
  /\ queues[n].in_service = {}
  /\ phase' = [phase EXCEPT ![n] = 2]
  /\ UNCHANGED <<traffic, dropped>>
  /\ LET q == queues[n] IN
     IF Eligible(q) = {}
     THEN /\ queues' = [queues EXCEPT ![n].tx_ready_pending = FALSE]
          /\ UNCHANGED <<link, control>>
     ELSE LET i     == Min(Eligible(q))
              frame == q.queue[i]
              serve == [q EXCEPT !.tx_ready_pending = FALSE,
                                 !.queue = Without(@, i),
                                 !.in_service = {frame},
                                 !.left = serialization_time_ns(frame.size)]
              after == IF n = Up THEN serve ELSE Drained(serve, frame)
              lifts == q.pause_asserted[frame.class] /\ ~after.pause_asserted[frame.class]
          IN /\ queues' = [queues EXCEPT ![n] = after]
             /\ control' = IF n # Up /\ lifts
                           THEN [control EXCEPT ![n] = Append(@, ControlFrame(frame.class, FALSE))]
                           ELSE control
             /\ link' = IF n = Up
                        THEN Append(link, [frame |-> frame, left |-> serialization_time_ns(frame.size)
                                                                     + Propagation])
                        ELSE link

\* Nothing is left to do at this instant.
Quiet ==
  /\ \A n \in LP : /\ ArrivalsDone(n)
                   /\ ~queues[n].tx_ready_pending
                   /\ queues[n].in_service # {} => queues[n].left > 0

Sooner(s) == [i \in DOMAIN s |-> [s[i] EXCEPT !.left = @ - 1]]

Advance ==
  /\ Quiet
  /\ queues' = [n \in LP |-> IF queues[n].in_service = {} THEN queues[n]
                             ELSE [queues[n] EXCEPT !.left = @ - 1]]
  /\ phase' = [n \in LP |-> 0]
  /\ link' = Sooner(link)
  /\ control' = [d \in Down |-> Sooner(control[d])]
  /\ UNCHANGED <<traffic, dropped>>

\* What the two sides of the link do by themselves.
Step ==
  \/ switch_remote_arrival
  \/ \E d \in Down : switch_pfc_remote_arrival(d)
  \/ \E n \in LP : switch_tx_complete(n) \/ switch_tx_ready(n)
  \/ Advance

Environment ==
  \/ \E frame \in traffic : UpstreamArrival(frame)
  \/ \E frame \in traffic, pause \in BOOLEAN : BeyondPfcArrival(frame.to, frame.class, pause)

Next == Step \/ Environment

Spec == Init /\ [][Next]_vars

\* Due events are dispatched and time passes.
FairSpec == Spec /\ WF_vars(Step)

-----------------------------------------------------------------------------

\* The bytes of class c that wait in s, each by the position of its frame.
BytesOf(s, c) ==
  {byte \in (DOMAIN s) \X (1 .. MaxFrame) : s[byte[1]].class = c /\ byte[2] <= s[byte[1]].size}

\* Type correctness of the two sides.
TypeOK ==
  /\ \A n \in LP :
       /\ queues[n].queue \in Seq(Frame)
       /\ queues[n].in_service \subseteq Frame
       /\ queues[n].left \in Nat
       /\ queues[n].tx_ready_pending \in BOOLEAN
       /\ \A c \in Class : queues[n].paused_by[c] \subseteq IF n = Up THEN Down ELSE {Beyond}
       /\ \A c \in Class : queues[n].occupancy_bytes[c] \in 0 .. Capacity
       /\ \A c \in Class : queues[n].pause_asserted[c] \in BOOLEAN
  /\ traffic \in Traffic
  /\ phase \in [LP -> 0 .. 2]
  /\ \A i \in DOMAIN link : link[i].frame \in Frame /\ link[i].left \in Nat
  /\ \A d \in Down : \A i \in DOMAIN control[d] :
       control[d][i] \in [class : Class, pause : BOOLEAN, left : Nat]

\* The headroom the validator requires is enough: with the smallest buffer it
\* accepts, no frame of the controlled link is ever dropped, whatever is on the
\* wire when XOFF is crossed and however long the downstream queue stands still.
\* The state keeps its types throughout, occupancy within the buffer included.
Lossless == TypeOK /\ ~dropped

\* No wake-up is lost and none is doubled: an idle queue without a pending
\* TxReady has nothing it may send, and SwitchAlreadyTransmitting cannot arise.
\* A PAUSE that overtakes a scheduled TxReady, or a RESUME of one of two
\* controllers, must not leave an eligible frame behind.
NoLostWakeup ==
  \A n \in LP :
    /\ Idle(queues[n]) =>
         \A i \in DOMAIN queues[n].queue : IsPaused(queues[n], queues[n].queue[i].class)
    /\ queues[n].tx_ready_pending => queues[n].in_service = {}

\* validate_pfc on any checkpoint: occupancy is the bytes that wait, and the
\* asserted bit follows XON and XOFF with hysteresis.
MonitorIsValid(q, c) ==
  /\ q.occupancy_bytes[c] = Cardinality(BytesOf(q.queue, c))
  /\ q.pause_asserted[c] => q.occupancy_bytes[c] > Xon
  /\ ~q.pause_asserted[c] => q.occupancy_bytes[c] < Xoff

\* The PAUSE and RESUME frames for class c on the control lane of d.
Sent(d, c) == {i \in DOMAIN control[d] : control[d][i].class = c}

\* The upstream queue is paused for exactly what its controllers assert, once
\* the frames on the control lane have landed, and every controller asserts what
\* the bytes that wait in it call for.
PauseStateAgrees ==
  \A d \in Down : \A c \in Class :
    /\ Sent(d, c) = {} => (queues[d].pause_asserted[c] <=> d \in queues[Up].paused_by[c])
    /\ \A i \in Sent(d, c) :
         (\A j \in Sent(d, c) : j <= i) => (queues[d].pause_asserted[c] <=> control[d][i].pause)
    /\ MonitorIsValid(queues[d], c)

\* A pause ends: once the downstream queues are left to send, every asserted
\* pause is lifted again, however the frames interleave with the control lane.
PauseEnds ==
  <>[](\A d \in Down : \A c \in Class : ~IsPaused(queues[d], c)) =>
    \A d \in Down : \A c \in Class : []<>(~queues[d].pause_asserted[c])
=============================================================================
