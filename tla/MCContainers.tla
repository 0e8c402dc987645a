---------------------------- MODULE MCContainers ----------------------------
(***************************************************************************)
(* Three containers that the executors keep exact by index arithmetic: the *)
(* frontier heap of a CPU worker, the segment ring of a device, and the    *)
(* capacities that the host plans a device with.  A behaviour is one of    *)
(* the three; the variables of the others are idle.                        *)
(***************************************************************************)
EXTENDS CapacityRetry, TLC

VARIABLES
  part,
  heap, next_time_ns, active, index_slot, sift, answer,
  capacity, head, count, high_water, slots, segments, outcome

heapVars == <<heap, next_time_ns, active, index_slot, sift, answer>>
ringVars == <<capacity, head, count, high_water, slots, segments, outcome>>
allVars == <<part, vars, heapVars, ringVars>>

\* Six slots, the fewest with which the entry that fills a gap may have to move up; the
\* order of the nodes is not the order of the slots.
Heap == INSTANCE FrontierHeap WITH Slot <- 1 .. 6, Time <- {1, 2}, NodeOf <- <<4, 2, 6, 1, 5, 3>>

ASSUME Heap!HeapAssumption

\* Up to three records at three places, so that the window wraps in every position.
Ring == INSTANCE LedgerRing WITH Capacities <- 0 .. 3, MaxSequence <- 4, SegmentBytes <- 2,
          Packet <- {0, 1}

-----------------------------------------------------------------------------
\* Runs whose arenas tie in the ways that decide which bound has to move: one override
\* over two lanes, a cap that meets what is derived or resident, a floor above an
\* override, two classes of receivers that a retry could merge, several ledgers in need.

MCUsize == 9

NoLimits == [lane \in Lane |-> None]
NoFloors == [lane \in Lane |-> 0]

Arena(arena, id) == [arena |-> arena, id |-> id]

\* sizes gives each arena what is derived, resident and needed.
Image(sizes, override, cap, floor, stream_floor, budget, memory) ==
  [derived  |-> [e \in DOMAIN sizes |-> sizes[e][1]],
   resident |-> [e \in DOMAIN sizes |-> sizes[e][2]],
   need     |-> [e \in DOMAIN sizes |-> sizes[e][3]],
   config   |-> [override |-> override @@ NoLimits, cap |-> cap @@ NoLimits, floor |-> NoFloors],
   warm     |-> [floors |-> floor @@ NoFloors,
                 entity_floor |-> [e \in DOMAIN sizes |->
                                     IF e.arena = "ChannelInbox" /\ e.id = 1 THEN stream_floor ELSE 0],
                 class_floor |-> [c \in 0 .. MCUsize |-> 0]],
   budget   |-> budget,
   memory   |-> memory]

\* One override for the outbox and the staging of two LPs.
Producers ==
  {Image(Arena("Outbox", AllLps) :> <<3, 0, n[1]>> @@ Arena("RemoteStaging", 1) :> <<1, 0, n[2]>>
           @@ Arena("RemoteStaging", 2) :> <<2, 0, n[3]>>,
         "Outbox" :> o, "Outbox" :> c @@ "RemoteStaging" :> d, "RemoteStaging" :> f, 0, b, m) :
     n \in {<<1, 2, 3>>, <<4, 4, 1>>, <<5, 1, 5>>}, o \in {None, 0, 2}, c \in {None, 1, 3},
     d \in {None, 1, 2}, f \in {0, 3}, b \in {0, 3}, m \in {12, 99}}

\* The logs of an LP, and the count over all LPs.
Logs ==
  {Image(Arena("ObservedPackets", 1) :> <<2, 0, n[1]>> @@ Arena("Departures", 1) :> <<2, 0, n[2]>>
           @@ Arena("Arrivals", AllLps) :> <<3, 0, n[3]>>,
         "Observation" :> o, "Observation" :> c, "Observation" :> f, 0, 3, 99) :
     n \in {<<3, 2, 4>>, <<2, 5, 3>>}, o \in {None, 1, 3}, c \in {None, 2, 3}, f \in {0, 1, 4}}

\* Resident events and packets, next to arenas that have only floors.
Residents ==
  {Image(Arena("Fel", 1) :> <<2, r, 4>> @@ Arena("Queue", 1) :> <<1, r, 3>>
           @@ Arena("ServiceStream", 1) :> <<2, 0, s>> @@ Arena("GeneratorStream", 1) :> <<2, 0, 2>>
           @@ Arena("Worklist", AllLps) :> <<1, 0, s>>,
         "Fel" :> o @@ "Queue" :> q, "Fel" :> c @@ "Queue" :> c, "Queue" :> 0, 0, b, 99) :
     r \in {0, 2, 3}, s \in {1, 3}, o \in {None, 0, 2}, q \in {None, 1}, c \in {None, 1, 2},
     b \in {1, 4}}

\* Streams, receivers and ledgers.
Entities ==
  {Image(Arena("ChannelInbox", 1) :> <<1, 0, n[1]>> @@ Arena("ChannelInbox", 2) :> <<2, 0, n[2]>>
           @@ Arena("TcpReceiverRanges", 1) :> <<1, 0, n[1]>>
           @@ Arena("TcpReceiverRanges", 2) :> <<3, 1, n[2]>>
           @@ Arena("TcpReceiverRanges", 3) :> <<1, 1, n[3]>>
           @@ Arena("TcpSegmentLedger", 1) :> <<1, 0, n[2]>>
           @@ Arena("TcpSegmentLedger", 2) :> <<2, 1, n[3]>>,
         "ChannelInbox" :> o, "ChannelInbox" :> c @@ "TcpSegmentLedger" :> c,
         "TcpReceiverRanges" :> f, w, 3, 99) :
     n \in {<<1, 1, 4>>, <<3, 4, 1>>, <<2, 5, 1>>}, o \in {None, 1}, c \in {None, 1},
     f \in {0, 1}, w \in {0, 2}}

MCImages == Producers \cup Logs \cup Residents \cup Entities

-----------------------------------------------------------------------------

IdleRetry ==
  /\ image = {} /\ config = {} /\ base = {} /\ entity_floor = {} /\ class_floor = {}
  /\ plan = {} /\ retry_trace = <<>> /\ phase = "idle" /\ result = "none" /\ converged = {}

IdleRing ==
  /\ capacity = 0 /\ head = 0 /\ count = 0 /\ high_water = 0 /\ slots = {} /\ segments = {}
  /\ outcome = {}

MCInit ==
  \/ part = "heap" /\ Heap!Init /\ IdleRing /\ IdleRetry
  \/ part = "ring" /\ Ring!RingInit /\ Heap!Init /\ IdleRetry
  \/ part = "retry" /\ Init /\ Heap!Init /\ IdleRing

MCNext ==
  \/ part = "heap" /\ Heap!Next /\ UNCHANGED <<part, ringVars, vars>>
  \/ part = "ring" /\ Ring!RingNext /\ UNCHANGED <<part, heapVars, vars>>
  \/ part = "retry" /\ Next /\ UNCHANGED <<part, heapVars, ringVars>>

MCSpec == MCInit /\ [][MCNext]_allVars

\* The heap of a worker answers as the frontier of the LPs it owns.
ImplementsFrontier == Heap!ImplementsFrontier

\* The ring of a device decodes to the ledger of the CPU executors, with the same answers.
LedgerIsCanonical == part = "ring" => Ring!LedgerIsCanonical
=============================================================================
