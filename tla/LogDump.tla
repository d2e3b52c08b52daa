------------------------------ MODULE LogDump ------------------------------
(***************************************************************************)
(* The dump of the event log over the UART of the radio module:            *)
(* log_stream.c (the session) and log_transport.c (the ring of frames to   *)
(* send), with the parts of can_bus.c that share the UART.                 *)
(*                                                                         *)
(* Requests of the host are carried out in the receive interrupt, which    *)
(* also pumps packets of the dump into the ring; LogTransport_Process of   *)
(* the main loop pumps the rest.  The interrupt may come while the main    *)
(* loop reads the flash for a packet or hands a frame to the UART.  The    *)
(* log moves on meanwhile.                                                 *)
(*                                                                         *)
(* The second port of the code, UART4, is left out: nothing enables its    *)
(* interrupt, so no request can come from it.                              *)
(***************************************************************************)
EXTENDS Integers, Sequences, FiniteSets

CONSTANTS
    Capacity,       \* records of a tier
    PerSector,      \* records of a sector
    PerPacket,      \* LOG_STREAM_MAX_REC_PER_PKT
    RingSize,       \* LOG_TX_QUEUE_SIZE
    PumpBudget,     \* packets the interrupt pumps at once
    MainBudget,     \* packets LogTransport_Process pumps at once
    Rs485On,        \* PPKYConfig.rs485_on: the main loop calls LogTransport_Process
    InitPosts,      \* records a tier may hold at first
    Starts,         \* values of start_logical
    \* bounds on what happens
    MaxRequests, MaxPosts,
    MaxFaults       \* reads that fail, errors of the line, power switches of the ESP

ASSUME SizesAssumption ==
    /\ PerSector \in Nat \ {0} /\ Capacity \in Nat \ {0} /\ Capacity % PerSector = 0
    /\ PerPacket \in Nat \ {0} /\ MainBudget \in Nat \ {0} /\ PumpBudget \in Nat \ {0}
    /\ RingSize \in Nat /\ RingSize > PumpBudget + 1
ASSUME SurroundingsAssumption ==
    /\ Rs485On \in BOOLEAN /\ InitPosts \subseteq Nat /\ Starts \subseteq Nat
    /\ MaxRequests \in Nat /\ MaxPosts \in Nat /\ MaxFaults \in Nat

VARIABLES
    log,            \* per tier, how many records have been posted
    session,        \* s_session
    tx,             \* ring of frames, UART transmitter, queue of the CAN bridge
    loop,           \* LogTransport_Process of the main loop, between two steps
    irq,            \* packets the running receive interrupt may still pump
    panel,          \* ESP on, HOST_LINK logged, next stream id
    host,           \* what the host has received of the stream it started last
    spent           \* how much of each bound is used

vars == <<log, session, tx, loop, irq, panel, host, spent>>

Tier == {"critical", "general"}
None == [type |-> "none"]
-----------------------------------------------------------------------------
(* The log (event_log_reader.c).  A record is the number of its post. *)

EmptyRecord == 0

Lesser(a, b) == IF a < b THEN a ELSE b

TotalRecords(t) == Lesser(log[t], Capacity)

Sector(n) == ((n - 1) % Capacity) \div PerSector

\* The sector of the newest record was erased when it was begun.
Reclaimed(t, n) == Sector(n) = Sector(log[t]) /\ log[t] - n >= PerSector

\* Logical indices count from the oldest cell of the ring.
ReadLogical(t, logical) ==
    LET n == log[t] - TotalRecords(t) + logical + 1
    IN  IF Reclaimed(t, n) THEN EmptyRecord ELSE n
-----------------------------------------------------------------------------
(* The session (log_stream.c). *)

NoSession ==
    [active |-> FALSE, stream |-> 0, pkt_num |-> 0, mode |-> "critical", cur_tier |-> "critical",
     first_packet |-> FALSE, next_logical |-> 0, end_logical |-> [t \in Tier |-> 0]]

Response(status, stream, total) ==
    [type |-> "rsp", status |-> status, stream |-> stream, total |-> total]

\* LogStream_StartDump: the session and the answer.  A start_logical out of
\* range is found when the session is already filled in.
StartDump(s, mode, start) ==
    LET crit == TotalRecords("critical")
        gen == TotalRecords("general")
        in_critical == mode = "critical" \/ (mode = "both" /\ start < crit)
        records == CASE mode = "critical" -> crit
                     [] mode = "general" -> gen
                     [] mode = "both" -> crit + gen
        fresh == [NoSession EXCEPT !.stream = panel.next_stream, !.mode = mode,
                                   !.first_packet = TRUE]
        opened ==
            [fresh EXCEPT
                !.active = TRUE,
                !.cur_tier = IF in_critical THEN "critical" ELSE "general",
                !.next_logical = IF mode = "both" /\ ~in_critical THEN start - crit ELSE start,
                !.end_logical = [t \in Tier |-> IF mode \in {t, "both"} THEN TotalRecords(t)
                                                                       ELSE 0]]
    IN  CASE s.active -> [session |-> s, rsp |-> Response("BUSY", 0, 0)]
          [] ~s.active /\ start > records ->
                [session |-> fresh, rsp |-> Response("OUT_OF_RANGE", 0, 0)]
          [] ~s.active /\ start = records ->
                [session |-> NoSession, rsp |-> Response("OK", panel.next_stream, 0)]
          [] ~s.active /\ start < records ->
                [session |-> opened,
                 rsp |-> Response("OK", panel.next_stream, records - start)]

\* A dump of both tiers goes on with the general one.
GeneralFollows(s) ==
    s.mode = "both" /\ s.cur_tier = "critical" /\ s.end_logical["general"] > 0

\* (mutant) the general tier begins behind its oldest record
BeginPacketSecond(s) ==
    IF s.next_logical < s.end_logical[s.cur_tier] THEN s
    ELSE IF GeneralFollows(s) THEN [s EXCEPT !.cur_tier = "general", !.next_logical = 1]
    ELSE [s EXCEPT !.active = FALSE]

\* LogStream_Process up to its first read.
BeginPacket(s) ==
    IF s.next_logical < s.end_logical[s.cur_tier] THEN s
    ELSE IF GeneralFollows(s) THEN [s EXCEPT !.cur_tier = "general", !.next_logical = 0]
    ELSE [s EXCEPT !.active = FALSE]

Entry(s, logical) == [label |-> logical, record |-> ReadLogical(s.cur_tier, logical)]

\* (mutant) LAST is set one record too late
PacketFlagsLate(s, tier_end, error) ==
    {f \in {"FIRST", "LAST", "TIER_CHANGE", "ERROR"} :
        CASE f = "FIRST" -> s.first_packet
          [] f = "ERROR" -> error
          [] f = "TIER_CHANGE" ->
                ~error /\ GeneralFollows(s) /\ s.next_logical >= s.end_logical["critical"]
          [] f = "LAST" -> error \/ (s.next_logical > tier_end /\ ~GeneralFollows(s))}

PacketFlags(s, tier_end, error) ==
    {f \in {"FIRST", "LAST", "TIER_CHANGE", "ERROR"} :
        CASE f = "FIRST" -> s.first_packet
          [] f = "ERROR" -> error
          [] f = "TIER_CHANGE" ->
                ~error /\ GeneralFollows(s) /\ s.next_logical >= s.end_logical["critical"]
          [] f = "LAST" -> error \/ (s.next_logical >= tier_end /\ ~GeneralFollows(s))}

\* The rest of LogStream_Process, behind the reads: the session and the frames
\* sent.  Without a record there is no packet, not even one that says so.
EndPacket(s, tier_end, error, entries) ==
    LET flags == PacketFlags(s, tier_end, error)
    IN  IF entries = <<>> THEN [session |-> [s EXCEPT !.active = FALSE], frames |-> <<>>]
        ELSE [session |-> [s EXCEPT !.first_packet = FALSE, !.pkt_num = @ + 1,
                                    !.active = @ /\ "LAST" \notin flags],
              frames |-> <<[type |-> "data", stream |-> s.stream, pkt_num |-> s.pkt_num,
                            tier |-> s.cur_tier, flags |-> flags, entries |-> entries]>>]

\* What the next packet would hold, by logical index.
Wanted(s) ==
    LET b == BeginPacket(s)
    IN  IF ~b.active THEN {}
        ELSE b.next_logical .. Lesser(b.next_logical + PerPacket, b.end_logical[b.cur_tier]) - 1

\* LogStream_Process as a whole; the read of the record at failing reports an
\* error.
WholePacket(s, failing) ==
    LET b == BeginPacket(s)
        wanted == Wanted(s)
        got == IF failing \in wanted THEN failing - b.next_logical ELSE Cardinality(wanted)
    IN  IF ~b.active THEN [session |-> b, frames |-> <<>>]
        ELSE EndPacket([b EXCEPT !.next_logical = @ + got], b.end_logical[b.cur_tier],
                       failing \in wanted,
                       [k \in 1 .. got |-> Entry(b, b.next_logical + k - 1)])
-----------------------------------------------------------------------------
(* The ring of frames and the UART (log_transport.c, can_bus.c). *)

\* (mutant) one frame too many
SendFrameTooMany(x, f) ==
    [x EXCEPT !.queue = Append(IF Len(@) = RingSize THEN Tail(@) ELSE @, f)]

\* (mutant) a full ring takes the new frame in place of the oldest
SendFrameInPlace(x, f) ==
    [x EXCEPT !.queue = IF Len(@) = RingSize - 1 THEN [@ EXCEPT ![1] = f] ELSE Append(@, f)]

\* log_transport_send_cb: a full ring drops its oldest frame.
SendFrame(x, f) ==
    [x EXCEPT !.queue = Append(IF Len(@) = RingSize - 1 THEN Tail(@) ELSE @, f)]

Send(x, frames) == IF frames = <<>> THEN x ELSE SendFrame(x, frames[1])

\* UartBridge_IsTxIdle
BridgeIdle(x) == ~x.bridge_busy /\ x.bridge = 0

\* The busy test of log_transport_try_tx_uart2
UartTaken(x) == x.log_busy \/ ~BridgeIdle(x)

\* The oldest frame is taken from the ring and copied to s_uart2_tx_buf; a frame
\* of the log still being sent from there is spoilt.
Copied(x) ==
    [x EXCEPT !.queue = Tail(@), !.sending = IF x.line = "log" THEN None ELSE @]

\* log_transport_try_tx_uart2 in an interrupt.  The frame is lost if the UART
\* turns out to be busy.  A frame that the main loop has just copied to the same
\* buffer is overwritten.
TryTx(x) ==
    LET copied == [Copied(x) EXCEPT !.buffer = IF @ = None THEN None ELSE Head(x.queue)]
    IN  IF UartTaken(x) \/ x.queue = <<>> THEN x
        ELSE IF x.line # "idle" THEN copied
        ELSE [copied EXCEPT !.line = "log", !.sending = Head(x.queue), !.log_busy = TRUE]

\* (mutant) the transmitter is freed only if the bridge has nothing to send
TxDoneIfIdle(x) ==
    [(IF x.log_busy /\ BridgeIdle(x) THEN TryTx([x EXCEPT !.log_busy = FALSE]) ELSE x)
        EXCEPT !.bridge_busy = FALSE]

\* HAL_UART_TxCpltCallback and HAL_UART_ErrorCallback of UART2 end alike.
TxDone(x) ==
    [(IF x.log_busy THEN TryTx([x EXCEPT !.log_busy = FALSE]) ELSE x)
        EXCEPT !.bridge_busy = FALSE]
-----------------------------------------------------------------------------
(* What the host sees. *)

\* A frame arrives: the host keeps those of its stream.
Received(h, f) ==
    IF f # None /\ f.stream = h.stream /\ h.stream # 0
    THEN [h EXCEPT !.heard = Append(@, f)] ELSE h

\* The main loop is inside LogStream_Process,
InPacket == loop.at \in {"read", "store"}

\* or inside log_transport_try_tx_uart2, behind the busy test.
InSend == loop.at \in {"look", "copy", "crossed", "send", "mark"}

\* The UART sends and the code does not know.
Mistaken == tx.line # "idle" /\ ~tx.log_busy /\ ~tx.bridge_busy

\* Something of an earlier request is under way.
Outstanding ==
    \/ session.active \/ tx.queue # <<>> \/ tx.line = "log" \/ tx.log_busy \/ Mistaken
    \/ InPacket \/ InSend

\* Something happens that may cost frames of the stream under way, or repeat
\* them if the main loop is handing one to the UART.
Disturbed(h) == [h EXCEPT !.quiet = @ /\ ~Outstanding, !.mixed = @ \/ InSend]
-----------------------------------------------------------------------------
(* The receive interrupt. *)

LogHostLink ==
    /\ panel' = [panel EXCEPT !.linked = TRUE]
    /\ log' = [log EXCEPT !["critical"] = IF panel.linked THEN @ ELSE @ + 1]

\* The interrupt runs log_transport_try_tx_uart2 while the main loop may be
\* taking a frame from the ring.
CrossLoop == loop' = IF loop.at = "copy" THEN [loop EXCEPT !.at = "crossed"] ELSE loop

Requested ==
    /\ irq = 0 /\ panel.esp /\ spent.requests < MaxRequests
    /\ spent' = [spent EXCEPT !.requests = @ + 1]
    /\ irq' = PumpBudget

\* START_DUMP.  The host forgets the stream before.
RequestStart(mode, start) ==
    LET a == StartDump(session, mode, start)
    IN  /\ Requested
        /\ session' = a.session
        /\ tx' = TryTx(SendFrame(tx, a.rsp))
        /\ IF a.rsp.status = "BUSY"
           THEN panel' = panel /\ host' = Disturbed(host)
           ELSE /\ panel' = [panel EXCEPT !.next_stream = @ + 1]
                /\ host' = [stream |-> a.rsp.stream, heard |-> <<>>, failed |-> FALSE,
                            quiet |-> ~Outstanding, mixed |-> InPacket \/ InSend]
        /\ CrossLoop
        /\ UNCHANGED log

\* STOP_DUMP
RequestStop ==
    /\ Requested
    /\ session' = NoSession
    /\ tx' = TryTx(SendFrame(tx, Response("OK", 0, 0)))
    /\ host' = Disturbed(host)
    /\ CrossLoop
    /\ UNCHANGED <<log, panel>>

\* PING, GET_INFO, GET_DUMP_STATUS and everything that is not understood
RequestOther ==
    /\ Requested
    /\ tx' = TryTx(SendFrame(tx, Response("OK", 0, 0)))
    /\ host' = Disturbed(host)
    /\ CrossLoop
    /\ UNCHANGED <<log, session, panel>>

Pumped(n, active) == IF active /\ n > 1 THEN n - 1 ELSE 0

NoFailure == -1

ReadFails(failing) ==
    /\ failing # NoFailure => spent.faults < MaxFaults
    /\ spent' = [spent EXCEPT !.faults = IF failing = NoFailure THEN @ ELSE @ + 1]

\* One round of log_transport_pump_stream; behind the last one the link to the
\* host is logged.
Pump(failing) ==
    LET p == IF session.active THEN WholePacket(session, failing)
             ELSE [session |-> session, frames |-> <<>>]
    IN  /\ irq > 0
        /\ failing # NoFailure => session.active /\ failing \in Wanted(session)
        /\ ReadFails(failing)
        /\ session' = p.session
        /\ tx' = TryTx(Send(tx, p.frames))
        /\ irq' = Pumped(irq, p.session.active)
        /\ IF irq' = 0 THEN LogHostLink ELSE UNCHANGED <<log, panel>>
        /\ host' = [host EXCEPT !.failed = @ \/ failing # NoFailure,
                                !.mixed = @ \/ (InPacket /\ p.frames # <<>>)]
        /\ CrossLoop
-----------------------------------------------------------------------------
(* The main loop. *)

Resting ==
    [at |-> "idle", next |-> "idle", budget |-> 0, tier_end |-> 0, entries |-> <<>>,
     record |-> 0, frame |-> None]

\* log_transport_try_tx_uart2 of the main loop is left: the pump follows the
\* first call, the rest of the main loop the last.
Left(next) ==
    [Resting EXCEPT !.at = next, !.budget = IF next = "pump" THEN MainBudget ELSE 0]

\* It begins with the busy test.
TestUart(next) ==
    loop' = IF UartTaken(tx) THEN Left(next)
            ELSE [Resting EXCEPT !.at = "look", !.next = next]

LogTransport_Process ==
    /\ irq = 0 /\ loop.at = "idle" /\ Rs485On
    /\ TestUart("pump")
    /\ UNCHANGED <<log, session, tx, irq, panel, host, spent>>

\* The oldest frame, if there is one,
LookAtRing ==
    /\ irq = 0 /\ loop.at = "look"
    /\ loop' = IF tx.queue = <<>> THEN Left(loop.next)
               ELSE [loop EXCEPT !.at = "copy", !.frame = Head(tx.queue)]
    /\ UNCHANGED <<log, session, tx, irq, panel, host, spent>>

\* is copied and taken from the ring,
CopyFrame ==
    /\ irq = 0 /\ loop.at = "copy"
    /\ tx' = [Copied(tx) EXCEPT !.buffer = Head(tx.queue)]
    /\ loop' = [loop EXCEPT !.at = "send", !.frame = None]
    /\ UNCHANGED <<log, session, irq, panel, host, spent>>

Torn == Response("OK", 0, 0)

\* unless an interrupt has moved the ring meanwhile: then the frame may be torn,
\* a frame the interrupt has begun to send may be spoilt, and the tail goes one
\* further than the interrupt left it, back to what the interrupt took, or past
\* the head of an empty ring.  Old frames come again; the one picked stands for
\* each of them.
CopyCrossed ==
    /\ irq = 0 /\ loop.at = "crossed"
    /\ \E buffer \in {loop.frame, Torn},
          sending \in IF tx.line = "log" THEN {tx.sending, None} ELSE {tx.sending},
          queue \in (IF tx.queue = <<>> THEN {} ELSE {Tail(tx.queue)})
                    \cup {[i \in 1 .. n |-> loop.frame] \o tx.queue :
                            n \in 0 .. RingSize - 1 - Len(tx.queue)} :
            tx' = [tx EXCEPT !.buffer = buffer, !.sending = sending, !.queue = queue]
    /\ loop' = [loop EXCEPT !.at = "send", !.frame = None]
    /\ UNCHANGED <<log, session, irq, panel, host, spent>>

\* and sent.  It is lost if the UART turns out to be busy.
SendBuffer ==
    /\ irq = 0 /\ loop.at = "send"
    /\ IF tx.line = "idle"
       THEN /\ tx' = [tx EXCEPT !.buffer = None, !.line = "log", !.sending = tx.buffer]
            /\ loop' = [loop EXCEPT !.at = "mark"]
       ELSE /\ tx' = [tx EXCEPT !.buffer = None]
            /\ loop' = Left(loop.next)
    /\ UNCHANGED <<log, session, irq, panel, host, spent>>

\* Only then it counts as being sent.
MarkBusy ==
    /\ irq = 0 /\ loop.at = "mark"
    /\ tx' = [tx EXCEPT !.log_busy = TRUE]
    /\ loop' = Left(loop.next)
    /\ UNCHANGED <<log, session, irq, panel, host, spent>>

\* (mutant) the ring is taken to have room
MayPumpAnyway(x) == TRUE

MayPump(x) == Len(x.queue) < RingSize - 1

\* The next round begins a packet,
NextPacket ==
    LET b == BeginPacket(session)
    IN  /\ irq = 0 /\ loop.at = "pump"
        /\ loop.budget > 0 /\ session.active /\ MayPump(tx)
        /\ session' = b
        /\ loop' = [loop EXCEPT !.budget = @ - 1, !.at = IF b.active THEN "read" ELSE "pump",
                                !.tier_end = b.end_logical[b.cur_tier]]
        /\ UNCHANGED <<log, tx, irq, panel, host, spent>>

\* or there is none.
PumpEnds ==
    /\ irq = 0 /\ loop.at = "pump"
    /\ loop.budget = 0 \/ ~session.active \/ ~MayPump(tx)
    /\ TestUart("idle")
    /\ UNCHANGED <<log, session, tx, irq, panel, host, spent>>

\* The packet of the main loop is finished with what the session is by now.
FinishPacket(s, error, entries) ==
    LET p == EndPacket(s, loop.tier_end, error, entries)
    IN  /\ session' = p.session
        /\ tx' = Send(tx, p.frames)
        /\ loop' = [loop EXCEPT !.at = "pump", !.entries = <<>>, !.record = 0]

\* EventLogReader_ReadLogical
ReadRecord ==
    /\ irq = 0 /\ loop.at = "read" /\ session.next_logical < TotalRecords(session.cur_tier)
    /\ loop' = [loop EXCEPT !.at = "store",
                            !.record = ReadLogical(session.cur_tier, session.next_logical)]
    /\ UNCHANGED <<log, session, tx, irq, panel, host, spent>>

\* It fails for an index out of range or if the flash does.
ReadRecordFails ==
    LET in_range == session.next_logical < TotalRecords(session.cur_tier)
    IN  /\ irq = 0 /\ loop.at = "read"
        /\ ReadFails(IF in_range THEN session.next_logical ELSE NoFailure)
        /\ FinishPacket(session, TRUE, loop.entries)
        /\ host' = [host EXCEPT !.failed = TRUE]
        /\ UNCHANGED <<log, irq, panel>>

\* The record goes into the packet under the index the session has now.
StoreRecord ==
    LET entries == Append(loop.entries, [label |-> session.next_logical, record |-> loop.record])
        s == [session EXCEPT !.next_logical = @ + 1]
    IN  /\ irq = 0 /\ loop.at = "store"
        /\ IF Len(entries) < PerPacket /\ s.next_logical < loop.tier_end
           THEN /\ session' = s
                /\ loop' = [loop EXCEPT !.at = "read", !.entries = entries]
                /\ tx' = tx
           ELSE FinishPacket(s, FALSE, entries)
        /\ UNCHANGED <<log, irq, panel, host, spent>>

\* Anything the main loop logs meanwhile.
PostEvent(t) ==
    /\ irq = 0 /\ loop.at = "idle" /\ spent.posts < MaxPosts
    /\ log' = [log EXCEPT ![t] = @ + 1]
    /\ spent' = [spent EXCEPT !.posts = @ + 1]
    /\ UNCHANGED <<session, tx, loop, irq, panel, host>>
-----------------------------------------------------------------------------
(* The surroundings. *)

\* A frame from the CAN bus is to be mirrored to the UART.
CanMirror ==
    /\ irq = 0 /\ loop.at = "idle" /\ panel.esp /\ tx.bridge = 0
    /\ tx' = [tx EXCEPT !.bridge = 1]
    /\ UNCHANGED <<log, session, loop, irq, panel, host, spent>>

\* uart_bridge_process_tx; a busy UART keeps the frame in its queue.
BridgeTx ==
    /\ irq = 0 /\ loop.at = "idle" /\ panel.esp
    /\ ~tx.bridge_busy /\ tx.bridge > 0 /\ tx.line = "idle"
    /\ tx' = [tx EXCEPT !.bridge = 0, !.bridge_busy = TRUE, !.line = "bridge"]
    /\ UNCHANGED <<log, session, loop, irq, panel, host, spent>>

\* The main loop hands a frame over in less time than one takes on the line.
TxComplete ==
    /\ irq = 0 /\ tx.line # "idle"
    /\ loop.at # "mark" /\ ~(InSend /\ tx.log_busy)
    /\ tx' = TxDone([tx EXCEPT !.line = "idle", !.sending = None])
    /\ host' = Received(host, tx.sending)
    /\ UNCHANGED <<log, session, loop, irq, panel, spent>>

\* An error of the receiver: the transmitter goes on, the code takes it for done.
LineError ==
    /\ irq = 0 /\ panel.esp /\ spent.faults < MaxFaults
    /\ spent' = [spent EXCEPT !.faults = @ + 1]
    /\ tx' = TxDone(tx)
    /\ host' = Disturbed(host)
    /\ IF tx.log_busy THEN CrossLoop ELSE loop' = loop
    /\ UNCHANGED <<log, session, irq, panel>>

\* The menu switches the ESP off: UartBridge_Stop aborts what is being sent.
EspOff ==
    /\ irq = 0 /\ loop.at = "idle" /\ panel.esp /\ spent.faults < MaxFaults
    /\ spent' = [spent EXCEPT !.faults = @ + 1]
    /\ panel' = [panel EXCEPT !.esp = FALSE, !.linked = FALSE]
    /\ tx' = [tx EXCEPT !.line = "idle", !.sending = None, !.bridge = 0, !.bridge_busy = FALSE]
    /\ host' = Disturbed(host)
    /\ UNCHANGED <<log, session, loop, irq>>

EspOn ==
    /\ irq = 0 /\ loop.at = "idle" /\ ~panel.esp
    /\ panel' = [panel EXCEPT !.esp = TRUE]
    /\ UNCHANGED <<log, session, tx, loop, irq, host, spent>>
-----------------------------------------------------------------------------
Init ==
    /\ log \in [Tier -> InitPosts]
    /\ session = NoSession
    /\ tx = [queue |-> <<>>, line |-> "idle", sending |-> None, buffer |-> None,
             log_busy |-> FALSE, bridge |-> 0, bridge_busy |-> FALSE]
    /\ loop = Resting /\ irq = 0
    /\ panel = [esp |-> TRUE, linked |-> FALSE, next_stream |-> 1]
    /\ host = [stream |-> 0, heard |-> <<>>, quiet |-> FALSE, mixed |-> FALSE, failed |-> FALSE]
    /\ spent = [requests |-> 0, posts |-> 0, faults |-> 0]

Interrupt ==
    \/ \E mode \in Tier \cup {"both"}, start \in Starts : RequestStart(mode, start)
    \/ RequestStop \/ RequestOther
    \/ \E failing \in {NoFailure} \cup Wanted(session) : Pump(failing)
    \/ TxComplete \/ LineError

TryTxSteps == LookAtRing \/ CopyFrame \/ CopyCrossed \/ SendBuffer \/ MarkBusy

MainLoop ==
    \/ LogTransport_Process \/ TryTxSteps \/ NextPacket \/ PumpEnds
    \/ ReadRecord \/ ReadRecordFails \/ StoreRecord
    \/ \E t \in Tier : PostEvent(t)
    \/ BridgeTx \/ EspOff \/ EspOn

Next == Interrupt \/ MainLoop \/ CanMirror

Spec == Init /\ [][Next]_vars

\* What the main loop does inside LogTransport_Process.
InProcess ==
    TryTxSteps \/ NextPacket \/ PumpEnds \/ ReadRecord \/ ReadRecordFails \/ StoreRecord

\* The UART is fast enough for what is mirrored to it.
CanLeavesGaps == []<>(BridgeIdle(tx) /\ loop.at = "idle")

\* The main loop and the interrupt finish what they began and the UART sends.
\* The main loop calls uart_bridge_process_tx and LogTransport_Process again and
\* again; frames of the CAN bus keep coming and leave gaps.
FairSpec ==
    /\ Spec /\ CanLeavesGaps
    /\ WF_vars(Pump(NoFailure) \/ TxComplete) /\ WF_vars(InProcess)
    /\ SF_vars(BridgeTx) /\ SF_vars(CanMirror)
    /\ SF_vars(LogTransport_Process /\ BridgeIdle(tx))
-----------------------------------------------------------------------------
(* Properties. *)

Frame ==
    [type : {"rsp"}, status : {"OK", "BUSY", "OUT_OF_RANGE"}, stream : Nat, total : Nat]
    \cup [type : {"data"}, stream : Nat, pkt_num : Nat, tier : Tier,
          flags : SUBSET {"FIRST", "LAST", "TIER_CHANGE", "ERROR"},
          entries : Seq([label : Nat, record : Nat])]

\* What the main loop has in hand while it gives a frame to the UART.
InHand ==
    /\ loop.at = "copy" => tx.queue # <<>>
    /\ loop.at \in {"copy", "crossed"} => loop.frame # None
    /\ loop.at = "send" <=> tx.buffer # None

TypeOK ==
    /\ log \in [Tier -> Nat]
    /\ session \in [active : BOOLEAN, stream : Nat, pkt_num : Nat, mode : Tier \cup {"both"},
                    cur_tier : Tier, first_packet : BOOLEAN, next_logical : Nat,
                    end_logical : [Tier -> 0 .. Capacity]]
    /\ tx \in [queue : Seq(Frame), line : {"idle", "log", "bridge"},
               sending : Frame \cup {None}, buffer : Frame \cup {None}, log_busy : BOOLEAN,
               bridge : 0 .. 1, bridge_busy : BOOLEAN]
    /\ Len(tx.queue) < RingSize
    /\ loop \in [at : {"idle", "look", "copy", "crossed", "send", "mark", "pump", "read",
                       "store"},
                 next : {"idle", "pump"}, budget : 0 .. MainBudget, tier_end : 0 .. Capacity,
                 entries : Seq([label : Nat, record : Nat]), record : Nat,
                 frame : Frame \cup {None}]
    /\ irq \in 0 .. PumpBudget
    /\ panel \in [esp : BOOLEAN, linked : BOOLEAN, next_stream : Nat]
    /\ host \in [stream : Nat, heard : Seq(Frame), quiet : BOOLEAN, mixed : BOOLEAN,
                 failed : BOOLEAN]
    /\ spent \in [requests : Nat, posts : Nat, faults : Nat]
    /\ InHand

\* What the host has of the stream behind the answer.
Packets == SubSeq(host.heard, 2, Len(host.heard))

InSequence(frames) ==
    \A i \in DOMAIN frames :
        LET f == frames[i]
        IN  IF i = 1 THEN f.type = "rsp"
            ELSE /\ f.type = "data" /\ f.pkt_num = i - 2
                 /\ "FIRST" \in f.flags <=> i = 2
                 /\ "LAST" \in f.flags => i = Len(frames)

\* protocol, line 21 and section 6.4: the answer comes first, then packets
\* numbered without a gap, the first of them marked; nothing follows the last.
\* So it is for a host that waits for the end of what it asked for, if its START
\* does not come while the main loop is inside a packet or hands a frame to the
\* UART: from then on the ring never runs over and no frame is lost, whatever
\* the log, the bridge and the main loop do.
NumberedWithoutGap == host.quiet => InSequence(host.heard)

\* The protocol makes no such exception: a host that has asked for a single dump
\* on a line without errors gets its packets numbered 0, 1, 2, ...
OnlyDumpNumbered == spent.requests = 1 /\ spent.faults = 0 => InSequence(host.heard)

\* Section 6.4: within a tier every index follows the one before, the general
\* tier comes behind the critical one, and the change is announced.  The
\* records themselves never repeat or run back, although an index of a full
\* tier names a later record after every post.  Of the same hosts.
RecordsInOrder ==
    host.quiet =>
        \A i \in DOMAIN Packets : \A k \in DOMAIN Packets[i].entries :
            LET e == Packets[i].entries[k]
                p == IF k > 1 THEN Packets[i].entries[k - 1]
                     ELSE Packets[i - 1].entries[Len(Packets[i - 1].entries)]
                same_tier == k > 1 \/ Packets[i - 1].tier = Packets[i].tier
            IN  (i > 1 \/ k > 1) =>
                    IF same_tier
                    THEN /\ e.label = p.label + 1
                         /\ EmptyRecord \notin {e.record, p.record} => e.record > p.record
                         /\ k = 1 => "TIER_CHANGE" \notin Packets[i - 1].flags
                    ELSE /\ Packets[i - 1].tier = "critical" /\ Packets[i].tier = "general"
                         /\ e.label = 0 /\ "TIER_CHANGE" \in Packets[i - 1].flags

\* A stream that came to its end by itself has brought as many records as the
\* answer promised, in a stream with a LAST packet, unless the flash could not
\* be read: no record is lost between the packets of the interrupt and those of
\* the main loop.  Of the same hosts.
PromisedIsDelivered ==
    LET ended == host.stream # 0 /\ host.quiet /\ ~Outstanding /\ irq = 0
        delivered == UNION {{<<Packets[i].tier, e.label>> :
                                e \in {Packets[i].entries[k] : k \in DOMAIN Packets[i].entries}} :
                            i \in DOMAIN Packets}
    IN  ended /\ ~host.failed /\ host.heard[1].status = "OK" =>
            /\ Cardinality(delivered) = host.heard[1].total
            /\ Packets # <<>> => "LAST" \in Packets[Len(Packets)].flags

\* Requests in the middle of a dump, errors of the line and the ESP switched
\* off cost frames; but what comes is still in order and never twice, unless
\* the interrupt sent packets while the main loop was inside one.
NeverRunsBack ==
    ~host.mixed =>
        \A i, j \in DOMAIN host.heard :
            LET f == host.heard[i]
                g == host.heard[j]
            IN  i < j /\ f.type = "data" /\ g.type = "data" =>
                    /\ f.pkt_num < g.pkt_num
                    /\ f.tier = g.tier => f.entries[Len(f.entries)].label < g.entries[1].label

\* Every dump ends and every frame leaves the ring, however requests, frames of
\* the bridge, errors of the line and power switches of the ESP come in between.
DumpEnds ==
    (session.active \/ tx.queue # <<>>) ~> ((~session.active /\ tx.queue = <<>>) \/ ~panel.esp)
=============================================================================
