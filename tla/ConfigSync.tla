----------------------------- MODULE ConfigSync -----------------------------
(***************************************************************************)
(* Synchronisation of the configurations of the MCUs on the bus with the   *)
(* image the panel keeps (config_sync.cpp), the blocking of the igniters   *)
(* of zones whose launch is blocked (config_ign_block_sync.c) and the      *)
(* periodic comparison of checksums (config_monitor.cpp).                  *)
(*                                                                         *)
(* An MCU is named by its slot in the image, which stands for its type and *)
(* its h_adr; its zone is the part of the address that changes.  A         *)
(* configuration is sent word by word; the words told apart here are the   *)
(* zone and the blocking of the igniters.  A checksum is the configuration *)
(* it is computed from.  The frames of one MCU keep their order on the     *)
(* bus; they may be lost, and an answer may come after its timeout.  What  *)
(* is outside the panel (an MCU, the host) is modelled from the frames the *)
(* panel sends it and expects of it.                                       *)
(***************************************************************************)
EXTENDS Naturals, Sequences, FiniteSets

CONSTANTS
    NSlots,         \* slots of the image in use
    Zones,          \* numbers of zones
    RequestRetries, SaveRetries,    \* CFGSYNC_REQ_ / CFGSYNC_SAVE_MAX_RETRIES
    Igniters,       \* MCUs with an igniter
    New,            \* MCUs that are not in the image at first
    Missing,        \* MCUs that are not on the bus
    Size,           \* words of the configuration of each MCU
    LateAnswers,    \* whether an answer may come after its timeout
    \* bounds on what happens
    MaxWire,        \* frames under way in one direction
    MaxStarted, MaxModes, MaxEdits, MaxReboots, MaxSilences,
    MaxDelays       \* frames lost and timeouts before the answer

Slot == 1 .. NSlots

ASSUME ConstantsAssumption ==
    /\ NSlots \in Nat \ {0} /\ Zones \subseteq Nat \ {0}     \* zone 0 is nobody's
    /\ RequestRetries \in Nat /\ SaveRetries \in Nat
    /\ Igniters \subseteq Slot /\ New \subseteq Slot /\ Missing \subseteq Slot
    /\ Size \in [Slot -> Nat] /\ \A s \in Igniters : Size[s] # 1   \* the blocking is the second word
    /\ LateAnswers \in BOOLEAN

VARIABLES
    image,          \* PPKYConfig.CfgDevices
    blocked,        \* zones whose launch is blocked
    active,         \* the zone of the first online entry of an MCU
    sync,           \* g_cfg_sync
    pending,        \* g_pending_request
    boot,           \* g_boot_sync_started, g_boot_sync_done
    streak, latched,    \* s_crc_fail_streak, s_crc_latched
    serials,        \* MCUs with a valid entry of s_remote_uid
    requests, replies,  \* frames under way
    mcu,            \* the MCUs: zone listened to, working and saved configuration
    spent           \* how often the bounded things happened

panel == <<image, blocked, active, sync, pending, boot, streak, latched, serials>>
wire == <<requests, replies>>
vars == <<panel, wire, mcu, spent>>
-----------------------------------------------------------------------------
(* Data. *)

NoIgniter == 0
Free == 1
Blocked == 2

Config == [zone : Zones \cup {0}, block : {NoIgniter, Free, Blocked}]
Blank == [zone |-> 0, block |-> NoIgniter]     \* a cleared slot is no MCU
Field == <<"zone", "block">>                   \* the words of a configuration
Words == Len(Field)

IsValidCfgSlot(s) == image[s] # Blank
Offline == 0

\* The address an MCU is spoken to at: where it is online, else the image's.
Resolve(s) == IF active[s] # Offline THEN active[s] ELSE image[s].zone

Expected(z) == IF z \in blocked THEN Blocked ELSE Free
\* (mutant) igniters are blocked, but never unblocked
PatchedBlockOnly(c, z) ==
    IF c.block = NoIgniter \/ z \notin blocked THEN c ELSE [c EXCEPT !.block = Blocked]

\* CfgSync_PatchIgniterBlocks, for the zone of the address.
Patched(c, z) == IF c.block = NoIgniter THEN c ELSE [c EXCEPT !.block = Expected(z)]

\* MCUs with an igniter in the image and online.
EligibleForIgnBlock ==
    {s \in Slot : /\ IsValidCfgSlot(s) /\ image[s].block # NoIgniter
                  /\ active[s] # Offline /\ mcu[s].work.block # NoIgniter}

ActiveMcuHasIgniter ==
    \E s \in Slot : active[s] # Offline /\ mcu[s].work.block # NoIgniter

InOrder(S) ==
    CHOOSE q \in [1 .. Cardinality(S) -> S] : \A i, j \in DOMAIN q : i < j => q[i] < q[j]
-----------------------------------------------------------------------------
(* Requests. *)

NoSync ==
    [busy |-> FALSE, op |-> "none", step |-> "idle", success |-> FALSE, failed |-> 0,
     targets |-> <<>>, pos |-> 0, slot |-> 1, zone |-> 0, total |-> 0, word |-> 0,
     rx |-> Blank, expected |-> Blank, waiting |-> FALSE, cmd |-> "none", value |-> 0,
     retries |-> 0, sub |-> "read",
     unsure |-> {}]     \* history: see Started

Frame(s) == [slot |-> s.slot, zone |-> s.zone, cmd |-> s.cmd, word |-> s.word, value |-> s.value]

Put(q, m) == IF Len(q) < MaxWire THEN Append(q, m) ELSE q

\* (mutant) the retries of the request before are kept
SendReqKeepRetries(s, step, cmd, word, value) ==
    LET t == [s EXCEPT !.step = step, !.cmd = cmd, !.word = word, !.value = value,
                       !.waiting = TRUE]
    IN  sync' = t /\ requests' = Put(requests, Frame(t))

\* CfgSync_SendReq; the caller sets the step.
SendReq(s, step, cmd, word, value) ==
    LET t == [s EXCEPT !.step = step, !.cmd = cmd, !.word = word, !.value = value,
                       !.waiting = TRUE, !.retries = 0]
    IN  sync' = t /\ requests' = Put(requests, Frame(t))

\* The next word of a configuration to read or to write.
AskWord(s, word) == SendReq(s, "word", "get", word, 0)
SetWord(s, word, config) == SendReq(s, "set", "set", word, config[Field[word + 1]])

\* CfgSync_Finish.  Of an operation that ended only its outcome is kept.
Finish(s) ==
    /\ sync' = [NoSync EXCEPT !.op = s.op, !.targets = s.targets, !.success = s.failed = 0]
    /\ UNCHANGED requests

\* CfgSync_StartTargetByPos from position p on.
StartTarget(s, p) ==
    LET left == {q \in p .. Len(s.targets) : IsValidCfgSlot(s.targets[q])}
        q == CHOOSE r \in left : \A t \in left : r <= t
        slot == s.targets[q]
        zone == IF s.op = "read_all" THEN image[slot].zone ELSE Resolve(slot)
    IN  IF left = {} THEN Finish(s)
        ELSE SendReq([s EXCEPT !.pos = q, !.slot = slot, !.zone = zone, !.total = 0,
                               !.rx = Blank, !.expected = Blank, !.sub = "read"],
                     "size", "size", 0, 0)

\* The MCU whose serial number is read is not in the image: its zone was given.
StartUid(s) == AskWord([s EXCEPT !.pos = 1, !.slot = s.targets[1], !.total = Words], 0)

NextTargetOrFinish(s) ==
    IF s.op = "uid" THEN Finish(s) ELSE StartTarget(s, s.pos + 1)

\* CfgSync_MarkCurrentFailed, always followed by the next target.
Fail == NextTargetOrFinish([sync EXCEPT !.failed = @ + 1])
-----------------------------------------------------------------------------
(* Replies. *)

\* (mutant) the checksum to expect is computed for one of the two checks only
ExpectedConfigOfVerify(s) == IF s.op = "verify" THEN image[s.slot] ELSE Blank

ExpectedConfig(s) == image[s.slot]

HandleCfgSizeReply(m) ==
    LET s == [sync EXCEPT !.total = m.value]
    IN  /\ IF m.value \notin 1 .. Words \/ (s.op = "apply" /\ m.value # Words) THEN Fail
           ELSE CASE s.op \in {"read_all", "ign_block"} -> AskWord(s, 0)
                  [] s.op \in {"verify", "periodic"} ->
                        SendReq([s EXCEPT !.expected = ExpectedConfig(s)], "crc", "crc", 0, 0)
                  [] s.op = "apply" -> SetWord(s, 0, image[s.slot])
        /\ UNCHANGED <<image, streak, latched, serials>>

\* All words of the current MCU are read.
WordsRead(s) ==
    CASE s.op = "uid" ->
            /\ NextTargetOrFinish(s)
            /\ serials' = serials \cup {s.slot}
            /\ UNCHANGED image
      [] s.op = "read_all" \/ (s.op = "ign_block" /\ s.sub = "readback") ->
            /\ NextTargetOrFinish(s)
            /\ image' = [image EXCEPT ![s.slot] = s.rx]
            /\ UNCHANGED serials
      [] s.op = "ign_block" /\ s.sub = "read" ->
            LET config == Patched(s.rx, s.zone)
            IN  /\ IF config = s.rx THEN NextTargetOrFinish(s)
                   ELSE SetWord([s EXCEPT !.sub = "apply"], 0, config)
                /\ image' = [image EXCEPT ![s.slot] = config]
                /\ UNCHANGED serials

\* (mutant) the index of the word is not compared
AwaitedAny(m) == TRUE

\* The reply is about the word asked for.
Awaited(m) == m.word = sync.word

HandleCfgWordReply(m) ==
    LET s == [sync EXCEPT !.rx[Field[m.word + 1]] = m.value, !.word = @ + 1]
    IN  /\ IF ~Awaited(m) THEN UNCHANGED <<sync, requests, image, serials>>
           ELSE IF s.word < s.total
           THEN AskWord(s, s.word) /\ UNCHANGED <<image, serials>>
           ELSE WordsRead(s)
        /\ UNCHANGED <<streak, latched>>

\* (mutant) the configuration an MCU saved is not compared
HandleCfgCrcReplyTrusting(m) ==
    /\ NextTargetOrFinish(sync)
    /\ UNCHANGED <<image, streak, latched, serials>>

\* ConfigMonitor_OnPeriodicCrcResult: the second difference in a row latches.
OnPeriodicCrcResult(slot, match) ==
    /\ streak' = [streak EXCEPT ![slot] = IF match THEN 0 ELSE IF @ < 2 THEN @ + 1 ELSE 2]
    /\ latched' = [latched EXCEPT ![slot] = ~match /\ (@ \/ streak[slot] >= 1)]

HandleCfgCrcReply(m) ==
    LET match == m.config = sync.expected
    IN  /\ CASE sync.op = "periodic" -> NextTargetOrFinish(sync)
             [] sync.op = "ign_block" /\ match -> AskWord([sync EXCEPT !.sub = "readback"], 0)
             [] sync.op \in {"verify", "apply"} /\ match -> NextTargetOrFinish(sync)
             [] sync.op \in {"verify", "apply", "ign_block"} /\ ~match -> Fail
        /\ IF sync.op = "periodic" THEN OnPeriodicCrcResult(sync.slot, match)
           ELSE UNCHANGED <<streak, latched>>
        /\ UNCHANGED <<image, serials>>

HandleSetCfgWordReply(m) ==
    LET config == image[sync.slot]
        s == [sync EXCEPT !.word = @ + 1]
    IN  /\ IF ~Awaited(m) THEN UNCHANGED <<sync, requests>>
           ELSE IF m.value # config[Field[m.word + 1]] THEN Fail
           ELSE IF s.word < s.total THEN SetWord(s, s.word, config)
           ELSE SendReq(s, "save", "save", 0, 0)
        /\ UNCHANGED <<image, streak, latched, serials>>

\* The MCU has moved to the zone it saved and is spoken to there.
HandleSaveReply ==
    /\ SendReq([sync EXCEPT !.zone = image[sync.slot].zone, !.expected = image[sync.slot]],
               "readback", "crc", 0, 0)
    /\ UNCHANGED <<image, streak, latched, serials>>

\* UpdateActiveDeviceList: a frame keeps the first online entry of the MCU,
\* unless its own entry stands before it or is the only one.
Heard(s, zone) ==
    active' \in {[active EXCEPT ![s] = z] :
                    z \in IF active[s] = Offline THEN {zone} ELSE {active[s], zone}}

\* ListenerCommandCB with an answer to a configuration command.
OnListenerMessage ==
    /\ replies # <<>>
    /\ replies' = Tail(replies)
    /\ LET m == Head(replies)
       IN  /\ Heard(m.slot, m.zone)
           /\ IF ~sync.waiting \/ m.slot # sync.slot \/ m.zone # sync.zone \/ m.cmd # sync.cmd
              THEN UNCHANGED <<sync, requests, image, streak, latched, serials>>
              ELSE CASE sync.step = "size" -> HandleCfgSizeReply(m)
                     [] sync.step = "word" -> HandleCfgWordReply(m)
                     [] sync.step \in {"crc", "readback"} -> HandleCfgCrcReply(m)
                     [] sync.step = "set" -> HandleSetCfgWordReply(m)
                     [] sync.step = "save" -> HandleSaveReply
    /\ UNCHANGED <<blocked, pending, boot, mcu, spent>>
-----------------------------------------------------------------------------
(* Operations and time. *)

\* An earlier operation has failed and left words that are not saved.
HalfWritten(s) ==
    \/ mcu[s].work # mcu[s].saved
    \/ \E i \in DOMAIN requests : requests[i].slot = s /\ requests[i].cmd = "set"

\* A new operation; one without targets has succeeded at once.  The history
\* "unsure" has the slots that are half written now or edited later.
Started(op, targets) ==
    [NoSync EXCEPT !.busy = targets # <<>>, !.op = op, !.targets = targets,
                   !.success = targets = <<>>,
                   !.unsure = {s \in Slot : targets # <<>> /\ HalfWritten(s)}]

\* CfgSync_StartCommon: asked for while another operation is busy, it is dropped.
StartCommon(op, targets) ==
    /\ spent.started < MaxStarted
    /\ spent' = [spent EXCEPT !.started = @ + 1]
    /\ sync' = IF sync.busy THEN sync ELSE Started(op, targets)
    /\ UNCHANGED <<blocked, active, pending, boot, streak, latched, serials, wire, mcu>>

ValidSlots == InOrder({s \in Slot : IsValidCfgSlot(s)})

ConfigSync_StartVerify == StartCommon("verify", ValidSlots) /\ UNCHANGED image
ConfigSync_StartApply == StartCommon("apply", ValidSlots) /\ UNCHANGED image

\* The image is built anew from the MCUs online.
ConfigSync_StartReadAllAndSave ==
    /\ StartCommon("read_all", InOrder({s \in Slot : active[s] # Offline}))
    /\ image' = IF sync.busy THEN image
                ELSE [s \in Slot |-> IF active[s] # Offline
                                     THEN [Blank EXCEPT !.zone = active[s]] ELSE Blank]

\* CmSchedulePeriodicCrc, right after ConfigIgnBlockSync_Process1ms: it waits for
\* the first blocking of the igniters.  Any MCU may be the next.
SchedulePeriodicCrc(s) ==
    /\ ~sync.busy
    /\ boot = "done" \/ (boot = "unseen" /\ ~ActiveMcuHasIgniter)
    /\ IsValidCfgSlot(s) /\ active[s] # Offline
    /\ StartCommon("periodic", <<s>>) /\ UNCHANGED image

\* CmRequestRemoteUidIfNeeded for an MCU that is not in the image.
RequestRemoteUid(s) ==
    /\ ~sync.busy /\ s \notin serials
    /\ ~IsValidCfgSlot(s) /\ active[s] # Offline
    /\ spent.started < MaxStarted
    /\ spent' = [spent EXCEPT !.started = @ + 1]
    /\ sync' = [Started("uid", <<s>>) EXCEPT !.zone = active[s]]
    /\ UNCHANGED <<image, blocked, active, pending, boot, streak, latched, serials, wire, mcu>>

\* (mutant) a retry does not count
ResentUncounted == sync

Resent == [sync EXCEPT !.retries = @ + 1]

\* The answer is overdue; a timeout before an answer under way is bounded.
Overdue ==
    IF wire = <<<<>>, <<>>>> THEN UNCHANGED spent
    ELSE LateAnswers /\ spent.delays < MaxDelays /\ spent' = [spent EXCEPT !.delays = @ + 1]

MaxRetries == IF sync.step = "save" THEN SaveRetries ELSE RequestRetries

ConfigSync_Process1ms ==
    /\ sync.busy
    /\ \/ /\ sync.step = "idle" /\ UNCHANGED spent
          /\ IF sync.op = "uid" THEN StartUid(sync) ELSE StartTarget(sync, 1)
       \/ /\ sync.waiting /\ sync.retries < MaxRetries /\ Overdue
          /\ sync' = Resent /\ requests' = Put(requests, Frame(sync))
       \/ /\ sync.waiting /\ sync.retries >= MaxRetries /\ Overdue
          /\ Fail
    /\ UNCHANGED <<image, blocked, active, pending, boot, streak, latched, serials,
                   replies, mcu>>
-----------------------------------------------------------------------------
(* Blocking of the igniters. *)

IgnBlockStarted == Started("ign_block", InOrder(EligibleForIgnBlock))

\* (mutant) a request made while another operation is busy is forgotten
StillPendingDropped(request) == FALSE

StillPending(request) == request /\ sync.busy

\* ScreenBlockZone: the mode of a zone changes; ConfigIgnBlockSync_Request.
BlockZone(z) ==
    /\ spent.modes < MaxModes
    /\ spent' = [spent EXCEPT !.modes = @ + 1]
    /\ blocked' = IF z \in blocked THEN blocked \ {z} ELSE blocked \cup {z}
    /\ pending' = StillPending(TRUE)
    /\ sync' = IF sync.busy THEN sync ELSE IgnBlockStarted
    /\ UNCHANGED <<image, active, boot, streak, latched, serials, wire, mcu>>

\* A request that waited is served first; the synchronisation after the start
\* of the panel runs when the first MCU with an igniter was seen some time ago.
ConfigIgnBlockSync_Process1ms(expired) ==
    LET served == pending /\ ~sync.busy
        busy == IF served THEN IgnBlockStarted.busy ELSE sync.busy
        seen == IF boot = "unseen" /\ ActiveMcuHasIgniter THEN "seen" ELSE boot
        starts == seen = "seen" /\ expired /\ ~busy
    IN  /\ pending' = StillPending(pending)
        /\ sync' = IF served \/ starts THEN IgnBlockStarted ELSE sync
        /\ boot' = CASE starts -> IF IgnBlockStarted.busy THEN "started" ELSE "done"
                     [] seen = "started" /\ ~busy -> "done"
                     [] ~starts /\ ~(seen = "started" /\ ~busy) -> seen
        /\ UNCHANGED <<image, blocked, active, streak, latched, serials, wire, mcu, spent>>
-----------------------------------------------------------------------------
(* The bus, the MCUs and the host, outside the panel. *)

Answer(s, m) ==
    [slot |-> s, zone |-> mcu[s].zone, cmd |-> m.cmd, word |-> m.word, config |-> mcu[s].saved,
     value |-> CASE m.cmd = "size" -> Size[s]
                 [] m.cmd = "get" -> mcu[s].work[Field[m.word + 1]]
                 [] m.cmd = "set" -> m.value
                 [] m.cmd \in {"save", "crc"} -> 0]

Worked(u, m) ==
    CASE m.cmd = "set" -> [u EXCEPT !.work[Field[m.word + 1]] = m.value]
      [] m.cmd = "save" -> [u EXCEPT !.saved = u.work, !.zone = u.work.zone]
      [] m.cmd \in {"get", "crc", "size"} -> u

\* An MCU carries out a request that reaches its address; other frames vanish.
McuAnswers ==
    /\ requests # <<>>
    /\ requests' = Tail(requests)
    /\ LET m == Head(requests)
       IN  IF m.slot \in Missing \/ mcu[m.slot].zone # m.zone THEN UNCHANGED <<replies, mcu>>
           ELSE /\ mcu' = [mcu EXCEPT ![m.slot] = Worked(@, m)]
                /\ replies' = Put(replies, Answer(m.slot, m))
    /\ UNCHANGED <<panel, spent>>

Lose ==
    /\ spent.delays < MaxDelays
    /\ spent' = [spent EXCEPT !.delays = @ + 1]
    /\ \/ requests # <<>> /\ requests' = Tail(requests) /\ UNCHANGED replies
       \/ replies # <<>> /\ replies' = Tail(replies) /\ UNCHANGED requests
    /\ UNCHANGED <<panel, mcu>>

Reboot(s) ==
    /\ spent.reboots < MaxReboots
    /\ spent' = [spent EXCEPT !.reboots = @ + 1]
    /\ mcu' = [mcu EXCEPT ![s].work = mcu[s].saved, ![s].zone = mcu[s].saved.zone]
    /\ UNCHANGED <<panel, wire>>

\* A status frame, not an answer.
StatusFrame(s) ==
    /\ s \notin Missing /\ active[s] # mcu[s].zone
    /\ Heard(s, mcu[s].zone)
    /\ UNCHANGED <<image, blocked, sync, pending, boot, streak, latched, serials, wire, mcu, spent>>

\* RefreshActiveDevices: nothing was heard of the entry for some time, because
\* the MCU has moved or (a bounded number of times) is silent.
RefreshActiveDevices(s) ==
    /\ active[s] # Offline
    /\ active' \in {[active EXCEPT ![s] = z] : z \in {Offline, mcu[s].zone} \ {active[s]}}
    /\ IF active[s] # mcu[s].zone THEN UNCHANGED spent
       ELSE spent.silences < MaxSilences /\ spent' = [spent EXCEPT !.silences = @ + 1]
    /\ UNCHANGED <<image, blocked, sync, pending, boot, streak, latched, serials, wire, mcu>>

\* SetConfigWord: the host writes a word of the image, also during an operation.
EditImage(s) ==
    /\ IsValidCfgSlot(s) /\ spent.edits < MaxEdits
    /\ spent' = [spent EXCEPT !.edits = @ + 1]
    /\ \/ \E z \in Zones : image' = [image EXCEPT ![s].zone = z]
       \/ /\ image[s].block # NoIgniter
          /\ \E b \in {Free, Blocked} : image' = [image EXCEPT ![s].block = b]
    /\ sync' = IF sync.busy THEN [sync EXCEPT !.unsure = @ \cup {s}] ELSE sync
    /\ UNCHANGED <<blocked, active, pending, boot, streak, latched, serials, wire, mcu>>
-----------------------------------------------------------------------------
Init ==
    /\ mcu \in [Slot -> [zone : Zones, work : Config, saved : Config]]
    /\ \A s \in Slot :
          /\ mcu[s].zone = mcu[s].saved.zone /\ mcu[s].work = mcu[s].saved
          /\ (mcu[s].saved.block # NoIgniter) = (s \in Igniters)
    /\ image = [s \in Slot |-> IF s \in New THEN Blank ELSE mcu[s].saved]
    /\ blocked \in SUBSET Zones
    /\ active = [s \in Slot |-> Offline]
    /\ sync = NoSync /\ pending = FALSE /\ boot = "unseen"
    /\ streak = [s \in Slot |-> 0] /\ latched = [s \in Slot |-> FALSE] /\ serials = {}
    /\ requests = <<>> /\ replies = <<>>
    /\ spent = [started |-> 0, modes |-> 0, edits |-> 0, reboots |-> 0, silences |-> 0, delays |-> 0]

Panel ==
    \/ ConfigSync_StartVerify \/ ConfigSync_StartApply \/ ConfigSync_StartReadAllAndSave
    \/ \E s \in Slot : SchedulePeriodicCrc(s) \/ RequestRemoteUid(s) \/ RefreshActiveDevices(s)
    \/ ConfigSync_Process1ms \/ OnListenerMessage
    \/ \E expired \in BOOLEAN : ConfigIgnBlockSync_Process1ms(expired)

Outside ==
    \/ McuAnswers \/ Lose
    \/ \E s \in Slot : Reboot(s) \/ StatusFrame(s) \/ EditImage(s)
    \/ \E z \in Zones : BlockZone(z)

Next == Panel \/ Outside

Spec == Init /\ [][Next]_vars

\* The main loop runs the timers; the bus carries on and MCUs send their status.
FairSpec ==
    /\ Spec
    /\ WF_vars(ConfigSync_Process1ms) /\ WF_vars(OnListenerMessage)
    /\ WF_vars(ConfigIgnBlockSync_Process1ms(TRUE)) /\ WF_vars(McuAnswers)
    /\ \A s \in Slot : WF_vars(StatusFrame(s))
-----------------------------------------------------------------------------
(* Properties. *)

Message ==
    [slot : Slot, zone : Zones \cup {0}, cmd : {"size", "get", "set", "save", "crc"},
     word : Nat, value : Nat]

\* Types; a busy operation waits for a reply but before its first request, and no
\* request is repeated more often than its kind allows (ConfigSync_Process1ms).
TypeOK ==
    /\ image \in [Slot -> Config] /\ blocked \subseteq Zones
    /\ active \in [Slot -> Zones \cup {Offline}]
    /\ sync.busy => (sync.step = "idle" <=> ~sync.waiting)
    /\ sync.targets \in Seq(Slot) /\ sync.failed <= Len(sync.targets)
    /\ sync.retries <= MaxRetries /\ sync.word <= Words
    /\ pending \in BOOLEAN /\ boot \in {"unseen", "seen", "started", "done"}
    /\ streak \in [Slot -> 0 .. 2] /\ latched \in [Slot -> BOOLEAN] /\ serials \subseteq Slot
    /\ requests \in Seq(Message)
    /\ mcu \in [Slot -> [zone : Zones, work : Config, saved : Config]]

\* The MCUs of an operation, but those whose words were disturbed.
Sure(s) == {s.targets[i] : i \in DOMAIN s.targets} \ s.unsure

\* An operation ends and reports success.
Succeeds(op) == sync.busy /\ ~sync'.busy /\ sync'.op = op /\ sync'.success

\* When all MCUs are reported as configured (ApplyConfigDone, the menu, the
\* restart of the MCUs), each has saved the configuration the image has, whatever
\* was lost, answered late, restarted or edited in between (CfgSync_Finish after
\* the readback of CfgSync_HandleSaveReply).
AppliedIsStored ==
    [][Succeeds("apply") => \A s \in Sure(sync) : mcu[s].saved = image[s]]_vars

\* When the blocking of the igniters is reported as done, each igniter has saved
\* the blocking of the zone it is in now, or a change of the zones that came
\* meanwhile waits for its turn (CfgSync_PatchIgniterBlocks, g_pending_request).
BlockingIsStored ==
    [][Succeeds("ign_block") =>
          \A s \in Sure(sync) :
              \/ mcu[s].saved.block = Expected(mcu[s].zone)
              \/ pending]_vars

\* After an operation that reads MCUs and succeeds, the image has what they work
\* with, though words are read one by one, repeated and answered late
\* (CfgSync_HandleCfgWordReply).
ImageIsRead ==
    [][Succeeds("ign_block") \/ Succeeds("read_all") =>
          \A s \in Sure(sync) : image'[s] = mcu[s].work]_vars

\* A mismatch is only reported of an MCU that has saved another configuration
\* than the image has, unless the host wrote the image during the comparison
\* (ConfigMonitor_OnPeriodicCrcResult).
LatchedDiffers ==
    [][\A s \in Sure(sync) : ~latched[s] /\ latched'[s] => image[s] # mcu[s].saved]_vars

\* An operation ends, though MCUs of the image are missing, restart or move: the
\* retries run out (ConfigSync_Process1ms).
BusyEnds == sync.busy ~> ~sync.busy

Quiet ==
    /\ spent.reboots = 0 /\ spent.edits = 0 /\ spent.silences = 0
    /\ sync.op # "read_all"

\* If nobody writes or rebuilds the image, restarts an MCU or takes it off the
\* bus, every igniter that is in the image follows the modes of the zones in the
\* end, also when a mode changed during another operation or before the MCU was
\* seen (ConfigIgnBlockSync_Request, ConfigIgnBlockSync_Process1ms).
IgnitersFollow ==
    []Quiet =>
        <>[](\A s \in Igniters \ (New \cup Missing) :
                mcu[s].saved.block = Expected(mcu[s].zone))
=============================================================================
