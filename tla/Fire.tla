-------------------------------- MODULE Fire --------------------------------
(***************************************************************************)
(* The fire scenario of the panel (Core/Src/fire.c, GOST_MODE = 1): the    *)
(* table of fire slots, the top-level state of the FSM, the countdown of   *)
(* every zone, the extinguishing retries and the outstanding commands to   *)
(* the igniters.                                                           *)
(*                                                                         *)
(* The variable fire is g_fire together with the retry pool and the list   *)
(* of acknowledged sources.  A slot is stored under its zone and           *)
(* fire.table says which zone each place of slots[FIRE_MAX_SLOTS] holds,   *)
(* so slots[i] is fire.slot[fire.table[i]].  Absolute deadlines are kept   *)
(* as the time left until them, one unit per Tick.  A handler is a chain   *)
(* of operators on that record, in the order of the calls of the code.     *)
(***************************************************************************)
EXTENDS Integers, FiniteSets

CONSTANTS
    Zones,          \* CAN zones of the train (never 0, the broadcast zone)
    MaxSlots,       \* FIRE_MAX_SLOTS
    Sources,        \* keys of the detectors and buttons that report a fire
    MaxSources,     \* FIRE_MAX_SOURCES_PER_ZONE
    Delay,          \* zone_delay of each zone, in ticks
    Grace,          \* Fire_ExtinguishGraceMs, in ticks
    MaxAttempts,    \* FIRE_EXT_RETRY_MAX_ATTEMPTS
    \* what the surroundings of the module may do
    SourcesOf,      \* sources that may report from each zone
    ModesOf,        \* launch modes each zone may be configured to
    AndOf,          \* values of Fire_IsAndEffectiveForZone of each zone
    IgnitersOf,     \* states the igniters of each zone may be seen in
    GlobalManualOf, \* values of (PPKYConfig.fire_mode == 2)
    SessionOf       \* values of MenuUi_IsConfigSessionActive

Mode == {"auto", "manual", "blocked"}
Kind == {"START", "STOP", "PAUSE", "RESUME"}
Igniters == {"offline", "ready", "ended"}
State == {"IDLE", "WAIT_AUTO", "WAIT_MANUAL", "EXTINGUISHING"}

NoZone == 0
AnyKey == 0         \* the source key that stands for the whole zone
Places == 1 .. MaxSlots

ASSUME ZonesAssumption ==
    /\ Zones \subseteq Nat \ {NoZone} /\ IsFiniteSet(Zones)
    /\ Sources \subseteq Nat \ {AnyKey}
ASSUME BoundsAssumption ==
    /\ MaxSlots \in Nat \ {0} /\ MaxSources \in Nat \ {0, 1}
    /\ Delay \in [Zones -> Nat] /\ Grace \in Nat \ {0}
    /\ MaxAttempts \in Nat \ {0}
ASSUME SurroundingsAssumption ==
    /\ SourcesOf \in [Zones -> SUBSET Sources]
    /\ ModesOf \in [Zones -> SUBSET Mode]
    /\ AndOf \in [Zones -> SUBSET BOOLEAN]
    /\ IgnitersOf \in [Zones -> SUBSET Igniters]
    /\ GlobalManualOf \subseteq BOOLEAN /\ SessionOf \subseteq BOOLEAN

VARIABLES
    fire,           \* g_fire, the retry pool and the acknowledged sources
    mode,           \* PPKYConfig.zone_fire_mode
    globalManual,   \* PPKYConfig.fire_mode == 2
    andEffective,   \* fire_and[] with at least two detectors online
    igniters,       \* offline, ready (some END_ACK missing) or ended
    session         \* a configuration session is open in the menu

vars == <<fire, mode, globalManual, andEffective, igniters, session>>
settings == <<mode, globalManual, andEffective, igniters, session>>
-----------------------------------------------------------------------------
(* The slot table. *)

ZeroSlot ==
    [phase2_sent |-> FALSE, fire1_waiting |-> FALSE, launch_stopped |-> FALSE,
     countdown_paused |-> FALSE, extinguish_aborted |-> FALSE,
     extinguish_locked |-> FALSE, ext_retry_failed |-> FALSE,
     ext_retry_attempts |-> 0, ext_retry_left |-> 0,
     deadline_left |-> 0, paused_remaining |-> 0, sources |-> {}]

Slot ==
    [phase2_sent : BOOLEAN, fire1_waiting : BOOLEAN, launch_stopped : BOOLEAN,
     countdown_paused : BOOLEAN, extinguish_aborted : BOOLEAN,
     extinguish_locked : BOOLEAN, ext_retry_failed : BOOLEAN,
     ext_retry_attempts : Nat, ext_retry_left : Nat,
     deadline_left : Nat, paused_remaining : Nat, sources : SUBSET Sources]

FireRecord ==
    [table : [Places -> Zones \cup {NoZone}], slot : [Zones -> Slot],
     state : State, zone_countdown_stopped : BOOLEAN,
     zone_countdown_paused : BOOLEAN, start_latched : BOOLEAN,
     suppress : SUBSET (Zones \X (Sources \cup {AnyKey})),
     start_retry : SUBSET Zones, sent : SUBSET (Kind \X Zones)]

EmptyFire ==
    [table |-> [i \in Places |-> NoZone], slot |-> [z \in Zones |-> ZeroSlot],
     state |-> "IDLE", zone_countdown_stopped |-> FALSE,
     zone_countdown_paused |-> FALSE, start_latched |-> FALSE,
     suppress |-> {}, start_retry |-> {}, sent |-> {}]

Active(g, z) == \E i \in Places : g.table[i] = z

FreePlaces(g) == {i \in Places : g.table[i] = NoZone}

\* Position of x in the ascending order of S.
Rank(S, x) == Cardinality({y \in S : y < x})

First(S) == CHOOSE x \in S : \A y \in S : x <= y

Pending(g, z) ==
    /\ Active(g, z)
    /\ ~g.slot[z].phase2_sent
    /\ ~g.slot[z].fire1_waiting
    /\ ~g.slot[z].launch_stopped
    /\ mode[z] # "blocked"

AnyPending(g) == \E z \in Zones : Pending(g, z)

AnyFire1(g) == \E z \in Zones : Active(g, z) /\ g.slot[z].fire1_waiting

ManualOrAuto == IF globalManual THEN "WAIT_MANUAL" ELSE "WAIT_AUTO"

\* A slot for z in the first free place, or over the first place when the
\* table is full: the zone held there loses its slot.
PutSlot(g, z, s) ==
    LET i == IF FreePlaces(g) = {} THEN 1 ELSE First(FreePlaces(g))
        lost == g.table[i]
    IN  [g EXCEPT !.table[i] = z,
                  !.slot = [y \in Zones |-> IF y = z THEN s
                                            ELSE IF y = lost THEN ZeroSlot
                                            ELSE @[y]]]

\* (mutant) a slot is given without looking for an existing one
EnsureSlotsAlways(g, Z) ==
    LET free == FreePlaces(g)
        At(i) == {z \in Z : Rank(Z, z) = Rank(free, i)}
    IN  [g EXCEPT !.table =
            [i \in Places |-> IF i \in free /\ At(i) # {}
                              THEN CHOOSE z \in At(i) : TRUE ELSE @[i]]]

\* Slots for the zones of Z, in ascending order, while places are free.
EnsureSlots(g, Z) ==
    LET new == {z \in Z : ~Active(g, z)}
        free == FreePlaces(g)
        At(i) == {z \in new : Rank(new, z) = Rank(free, i)}
    IN  [g EXCEPT !.table =
            [i \in Places |-> IF i \in free /\ At(i) # {}
                              THEN CHOOSE z \in At(i) : TRUE ELSE @[i]]]
-----------------------------------------------------------------------------
(* Commands to the igniters.  sent is what this handler queued and sent;   *)
(* start_retry are the zones with a START that is not acknowledged and that *)
(* Fire_RetryProcess keeps resending.                                       *)

Quiet(g) == [g EXCEPT !.sent = {}]

Queue(g, k, Z) ==
    [g EXCEPT !.sent = @ \cup ({k} \X {z \in Z : igniters[z] # "offline"})]

\* A START goes only to igniters that have not reported END_ACK.
QueueStart(g, Z) ==
    LET ready == {z \in Z : igniters[z] = "ready"}
    IN  [Queue(g, "START", ready) EXCEPT !.start_retry = @ \cup ready]

CancelStarts(g) == [g EXCEPT !.start_retry = {}]

\* (mutant) the lock of a launched zone is not looked at
LaunchableLocked(g, z) == mode[z] # "blocked" /\ igniters[z] # "offline"

\* Fire_SendPhase2Zone accepts the zone.
Launchable(g, z) ==
    /\ mode[z] # "blocked"
    /\ ~g.slot[z].extinguish_locked
    /\ igniters[z] # "offline"

\* (mutant) the pause survives the launch
Phase2SentPaused(s) ==
    [s EXCEPT !.phase2_sent = TRUE, !.fire1_waiting = FALSE,
              !.launch_stopped = FALSE, !.extinguish_aborted = FALSE,
              !.extinguish_locked = TRUE, !.ext_retry_attempts = 0,
              !.ext_retry_failed = FALSE, !.ext_retry_left = Grace]

Phase2Sent(s) ==
    [s EXCEPT !.phase2_sent = TRUE, !.fire1_waiting = FALSE,
              !.launch_stopped = FALSE, !.countdown_paused = FALSE,
              !.extinguish_aborted = FALSE, !.extinguish_locked = TRUE,
              !.ext_retry_attempts = 0, !.ext_retry_failed = FALSE,
              !.ext_retry_left = Grace]

MarkPhase2Sent(g, Z) ==
    [g EXCEPT !.slot = [z \in Zones |-> IF z \in Z THEN Phase2Sent(@[z]) ELSE @[z]]]

\* Send phase 2 to the slots of Z and mark those the send accepted.
Launch(g, Z) ==
    LET go == {z \in Z : Launchable(g, z)}
    IN  MarkPhase2Sent(QueueStart(g, go), go)

RetriesOver(s) ==
    IF s.phase2_sent
    THEN [s EXCEPT !.ext_retry_left = 0, !.ext_retry_attempts = MaxAttempts]
    ELSE s

AbortRetriesAll(g) ==
    [g EXCEPT !.slot = [z \in Zones |-> IF Active(g, z) THEN RetriesOver(@[z]) ELSE @[z]]]

AbortRetriesForZone(g, z) ==
    IF Active(g, z)
    THEN [g EXCEPT !.slot[z] = [RetriesOver(@) EXCEPT !.fire1_waiting = FALSE]]
    ELSE g

SendStopAll(g) == Queue(CancelStarts(g), "STOP", Zones)

\* (mutant) the STARTs under way are not cancelled
SendStopZoneOnly(g, z) ==
    LET h == AbortRetriesForZone(Queue(g, "STOP", {z}), z)
    IN  IF Active(g, z) THEN [h EXCEPT !.slot[z].launch_stopped = TRUE] ELSE h

SendStopZone(g, z) ==
    LET h == AbortRetriesForZone(Queue(CancelStarts(g), "STOP", {z}), z)
    IN  IF Active(g, z) THEN [h EXCEPT !.slot[z].launch_stopped = TRUE] ELSE h

\* The sources of the slot are acknowledged; a slot without sources
\* acknowledges its whole zone.
SuppressSlot(g, z) ==
    LET keys == IF g.slot[z].sources = {} THEN {AnyKey} ELSE g.slot[z].sources
    IN  [g EXCEPT !.suppress = @ \cup ({z} \X keys)]

Suppressed(g, z, k) == <<z, k>> \in g.suppress \/ <<z, AnyKey>> \in g.suppress
-----------------------------------------------------------------------------
(* The part of Fire_Transition that follows every event. *)

Due(g, z) ==
    /\ Active(g, z)
    /\ ~g.slot[z].phase2_sent
    /\ ~g.slot[z].fire1_waiting
    /\ ~g.slot[z].launch_stopped
    /\ ~g.slot[z].countdown_paused
    /\ ~g.slot[z].extinguish_aborted
    /\ mode[z] # "manual"
    /\ g.slot[z].deadline_left = 0

ProcessAutoDeadlines(g) ==
    LET due == {z \in Zones : Due(g, z) /\ Launchable(g, z)}
    IN  IF g.zone_countdown_stopped \/ g.zone_countdown_paused
           \/ g.state # "WAIT_AUTO" \/ due = {}
        THEN g
        ELSE [Launch(g, due) EXCEPT !.start_latched = TRUE]

RetryDue(g, z) ==
    /\ Active(g, z)
    /\ g.slot[z].phase2_sent
    /\ ~g.slot[z].ext_retry_failed
    /\ ~g.slot[z].extinguish_aborted
    /\ igniters[z] # "ended"
    /\ g.slot[z].ext_retry_left = 0

\* (mutant) the attempts are not counted
RetriedUncounted(s) ==
    IF s.ext_retry_attempts >= MaxAttempts
    THEN [s EXCEPT !.ext_retry_failed = TRUE]
    ELSE [s EXCEPT !.ext_retry_left = Grace]

\* One more START, and failure after the last; an exhausted slot only fails.
Retried(s) ==
    IF s.ext_retry_attempts >= MaxAttempts
    THEN [s EXCEPT !.ext_retry_failed = TRUE]
    ELSE [s EXCEPT !.ext_retry_attempts = @ + 1, !.ext_retry_left = Grace,
                   !.ext_retry_failed = s.ext_retry_attempts + 1 >= MaxAttempts]

ProcessExtinguishRetries(g) ==
    LET due == {z \in Zones : RetryDue(g, z)}
        again == {z \in due : g.slot[z].ext_retry_attempts < MaxAttempts}
    IN  IF g.state # "EXTINGUISHING" THEN g
        ELSE [QueueStart(g, again) EXCEPT
                !.slot = [z \in Zones |-> IF z \in due THEN Retried(@[z]) ELSE @[z]]]

\* (mutant) a new fire does not bring the state back from extinguishing
SyncStateFromIdle(g) ==
    [g EXCEPT !.state =
        IF \A z \in Zones : ~Active(g, z) THEN "IDLE"
        ELSE IF ~AnyPending(g) /\ ~AnyFire1(g) THEN "EXTINGUISHING"
        ELSE IF @ = "IDLE" THEN ManualOrAuto
        ELSE @]

SyncStateFromSlots(g) ==
    [g EXCEPT !.state =
        IF \A z \in Zones : ~Active(g, z) THEN "IDLE"
        ELSE IF ~AnyPending(g) /\ ~AnyFire1(g) THEN "EXTINGUISHING"
        ELSE IF @ \in {"EXTINGUISHING", "IDLE"} THEN ManualOrAuto
        ELSE @]

Settle(g) == SyncStateFromSlots(ProcessExtinguishRetries(ProcessAutoDeadlines(g)))
-----------------------------------------------------------------------------
(* The events of Fire_Transition. *)

StatusFire(g) ==
    [g EXCEPT !.start_latched = FALSE,
              !.state = IF @ = "IDLE" THEN "WAIT_AUTO" ELSE @]

Redisplay(g) == [g EXCEPT !.state = IF @ = "IDLE" THEN ManualOrAuto ELSE @]

StopExt(g) ==
    LET h == [AbortRetriesAll(SendStopAll(g)) EXCEPT
                !.zone_countdown_stopped = TRUE, !.zone_countdown_paused = FALSE,
                !.start_latched = FALSE]
    IN  IF AnyPending(h) THEN [h EXCEPT !.state = ManualOrAuto] ELSE h

\* PUSK takes up a slot that is not in FIRE1 and was not launched yet, or
\* whose launch the operator aborted.
Startable(g, z) ==
    /\ Active(g, z)
    /\ ~g.slot[z].fire1_waiting
    /\ g.slot[z].phase2_sent => g.slot[z].extinguish_aborted

TakenUp(s) ==
    LET u == IF s.extinguish_aborted
             THEN [s EXCEPT !.extinguish_aborted = FALSE, !.phase2_sent = FALSE,
                            !.extinguish_locked = FALSE, !.ext_retry_failed = FALSE]
             ELSE s
    IN  [u EXCEPT !.launch_stopped = FALSE, !.countdown_paused = FALSE]

Phase2Pending(g, Z) ==
    LET go == {z \in Z : Startable(g, z)}
    IN  Launch([g EXCEPT !.slot = [z \in Zones |-> IF z \in go THEN TakenUp(@[z])
                                                               ELSE @[z]]], go)

Phase2AllPending(g) == Phase2Pending(g, {z \in Zones : mode[z] # "blocked"})

Started(g) == SyncStateFromSlots([g EXCEPT !.start_latched = TRUE])

\* sel is the zone chosen on the screen, NoZone when choosing is off.
StartSp(g, sel) ==
    IF sel = NoZone
    THEN IF AnyPending(g) THEN Started(Phase2AllPending(g)) ELSE g
    ELSE LET h == Phase2Pending(g, {sel})
         IN  IF Startable(g, sel) /\ h.slot[sel].phase2_sent THEN Started(h) ELSE h

\* Fire_StartAllExistingZonesAndMarkSlots: START to every zone it may go to,
\* with or without a fire; slots for the zones that had none.
StartAllExisting(g) ==
    LET go == {z \in Zones : Launchable(g, z)}
        h == EnsureSlots(QueueStart(g, go), go)
    IN  MarkPhase2Sent(h, {z \in go : Active(h, z)})

StartAll(g) ==
    LET h == StartAllExisting(g)
        some == \E z \in Zones : Launchable(g, z)
    IN  IF AnyPending(h) THEN Started(Phase2AllPending(h))
        ELSE IF some THEN Started(h) ELSE h

\* A START that a button of an MCU broadcast itself: the panel only marks
\* the zones as launched.
MarkExternal(g, Z) ==
    LET ok == {z \in Z : mode[z] # "blocked" /\ ~g.slot[z].extinguish_locked}
        h == EnsureSlots(g, ok)
    IN  MarkPhase2Sent(h, {z \in ok : Active(h, z) /\ ~h.slot[z].phase2_sent})

\* The second pass over the zones gives a slot to each that still has none.
MarkExternalAll(g) ==
    LET Z == {z \in Zones : igniters[z] # "offline"}
        h == MarkExternal(g, Z)
        rest == {z \in Z : ~Active(h, z)}
        k == EnsureSlots(h, rest)
    IN  MarkPhase2Sent(k, {z \in rest : Active(k, z)})

BusStart(g, z) ==
    LET h == IF z = NoZone THEN MarkExternalAll(g) ELSE MarkExternal(g, {z})
    IN  IF h.slot = g.slot THEN h ELSE Started(h)

PauseSlot(s) == [s EXCEPT !.paused_remaining = s.deadline_left, !.countdown_paused = TRUE]

\* (mutant) the deadline is not moved by the length of the pause
ResumeSlotAsIs(s) == [s EXCEPT !.countdown_paused = FALSE]

ResumeSlot(s) == [s EXCEPT !.deadline_left = s.paused_remaining, !.countdown_paused = FALSE]

PauseZone(g, z) ==
    IF g.slot[z].launch_stopped THEN g
    ELSE Queue([g EXCEPT !.slot[z] = PauseSlot(@)], "PAUSE", {z})

ResumeZone(g, z) == Queue([g EXCEPT !.slot[z] = ResumeSlot(@)], "RESUME", {z})

AbortZone(g, z) ==
    LET h == SendStopZone(SuppressSlot(g, z), z)
    IN  [h EXCEPT !.slot[z].extinguish_aborted = TRUE,
                  !.slot[z].ext_retry_failed = FALSE,
                  !.slot[z].ext_retry_left = 0]

Extinguishing(g, z) ==
    /\ g.slot[z].phase2_sent /\ ~g.slot[z].extinguish_aborted
    /\ ~g.slot[z].ext_retry_failed /\ igniters[z] # "ended"

Waiting(g, z) ==
    /\ ~g.slot[z].phase2_sent /\ ~g.slot[z].fire1_waiting
    /\ ~g.slot[z].extinguish_aborted

\* OSTANOV: the zone z has its extinguishing aborted, its countdown paused or
\* resumed, or its launch stopped.
StopOn(g, z) ==
    LET h == CASE Extinguishing(g, z) -> AbortZone(g, z)
               [] Waiting(g, z) -> IF g.slot[z].countdown_paused
                                   THEN ResumeZone(g, z) ELSE PauseZone(g, z)
               [] ~Extinguishing(g, z) /\ ~Waiting(g, z) -> SendStopZone(g, z)
    IN  SyncStateFromSlots([h EXCEPT !.start_latched = FALSE])

BtnStop(g, z) ==
    IF g.start_latched /\ \A y \in Zones : ~(Active(g, y) /\ g.slot[y].phase2_sent)
    THEN g ELSE StopOn(g, z)

ClearSlot(g, z) ==
    [g EXCEPT !.table = [i \in Places |-> IF @[i] = z THEN NoZone ELSE @[i]],
              !.slot[z] = ZeroSlot]

\* Fire_GostResetFire, the chosen zone or all of them.
ResetZone(g, z) == ClearSlot(SendStopZone(SuppressSlot(g, z), z), z)

\* (mutant) the state is left to the next handler
ResetAllSlots(g) ==
    [EmptyFire EXCEPT !.suppress = g.suppress, !.state = g.state,
                      !.sent = SendStopAll(g).sent]

ResetAll(g) ==
    LET keys(z) == IF g.slot[z].sources = {} THEN {AnyKey} ELSE g.slot[z].sources
    IN  [EmptyFire EXCEPT
            !.suppress = g.suppress \cup
                UNION {{z} \X keys(z) : z \in {y \in Zones : Active(g, y)}},
            !.sent = SendStopAll(g).sent]
-----------------------------------------------------------------------------
(* Reports of fire, Fire_TryAddNewFireZone. *)

WithSource(s, k) ==
    [s EXCEPT !.sources = IF Cardinality(@) < MaxSources THEN @ \cup {k} ELSE @]

Confirmed(s, z) ==
    [s EXCEPT !.fire1_waiting = FALSE, !.phase2_sent = FALSE,
              !.deadline_left = Delay[z], !.paused_remaining = 0]

NewSlot(z, k) ==
    LET s == WithSource(ZeroSlot, k)
    IN  CASE mode[z] = "blocked" -> s
          [] mode[z] = "manual" -> [s EXCEPT !.launch_stopped = TRUE]
          [] mode[z] = "auto" /\ andEffective[z] -> [s EXCEPT !.fire1_waiting = TRUE]
          [] mode[z] = "auto" /\ ~andEffective[z] -> [s EXCEPT !.deadline_left = Delay[z]]

\* A source not heard before of a zone that already has a slot.
KnownZone(g, z, k) ==
    LET s == WithSource(g.slot[z], k)
        Put(t) == [g EXCEPT !.slot[z] = t]
    IN  CASE s.extinguish_locked -> Settle(Redisplay(Put(s)))
          [] ~s.extinguish_locked /\ mode[z] = "blocked" ->
                Put([s EXCEPT !.fire1_waiting = FALSE, !.deadline_left = 0])
          [] ~s.extinguish_locked /\ mode[z] # "blocked" ->
                IF s.fire1_waiting /\ Cardinality(s.sources) >= 2
                THEN Settle(StatusFire(Put(Confirmed(s, z)))) ELSE Put(s)

OnStatusFire(z, k) ==
    /\ ~session
    /\ ~Suppressed(fire, z, k)
    /\ k \notin fire.slot[z].sources
    /\ fire' = IF Active(fire, z)
               THEN KnownZone(Quiet(fire), z, k)
               ELSE Settle(StatusFire(PutSlot(Quiet(fire), z, NewSlot(z, k))))
    /\ UNCHANGED settings
-----------------------------------------------------------------------------
(* The periodic handler.  Time passes by one unit, then Fire_Timer1ms runs *)
(* unless a configuration session is open.                                 *)

\* (mutant) the time left is not clipped at zero
LessUnclipped(n) == n - 1

Less(n) == IF n = 0 THEN 0 ELSE n - 1

Older(s) == [s EXCEPT !.deadline_left = Less(@), !.ext_retry_left = Less(@)]

Aged(g) ==
    [g EXCEPT !.slot = [z \in Zones |-> IF Active(g, z) THEN Older(@[z]) ELSE @[z]]]

\* FIRE1 becomes FIRE2 where a second detector can no longer confirm it.
Promoted(g) ==
    LET up == {z \in Zones : /\ Active(g, z) /\ g.slot[z].fire1_waiting
                             /\ mode[z] # "blocked" /\ ~andEffective[z]}
    IN  IF up = {} THEN g
        ELSE Settle(StatusFire([g EXCEPT !.slot =
                [z \in Zones |-> IF z \in up THEN Confirmed(@[z], z) ELSE @[z]]]))

Tick ==
    /\ fire' = LET g == Aged(Quiet(fire))
               IN  IF session THEN g ELSE Settle(Promoted(g))
    /\ UNCHANGED settings
-----------------------------------------------------------------------------
(* The other handlers: buttons of the panel, commands from the bus. *)

AnyActive(g) == \E z \in Zones : Active(g, z)

\* The zone on the screen when choosing is on, NoZone when it is off.
Choices == {NoZone} \cup {z \in Zones : Active(fire, z)}

\* The panel button and the broadcast of a PUSK SP button of an MCU.
BtnStartSp ==
    /\ ~session /\ AnyActive(fire)
    /\ \E sel \in Choices : fire' = Settle(StartSp(Quiet(fire), sel))
    /\ UNCHANGED settings

\* Held for three seconds; works during a configuration session too.
BtnStartAll == fire' = Settle(StartAll(Quiet(fire))) /\ UNCHANGED settings

\* A ReplyStatusFire of an MCU, or PUSK OBSHCHIY let go, during a configuration
\* session too: no event, only the tail of Fire_Transition.
TransitionOnly == fire' = Settle(Quiet(fire)) /\ UNCHANGED settings

OnStartExtinguishment(z) ==
    /\ ~session
    /\ fire' = Settle(BusStart(Quiet(fire), z))
    /\ UNCHANGED settings

\* On the chosen zone; without choosing, on the one in the first place.
BtnStopPressed ==
    /\ ~session
    /\ \E z \in Zones : Active(fire, z) /\ fire' = Settle(BtnStop(Quiet(fire), z))
    /\ UNCHANGED settings

\* OSTANOV held for five seconds, also during a configuration session.
GostReset ==
    /\ AnyActive(fire)
    /\ \E sel \in Choices :
        fire' = IF sel = NoZone THEN ResetAll(Quiet(fire))
                ELSE LET g == SyncStateFromSlots(
                                [ResetZone(Quiet(fire), sel) EXCEPT !.start_latched = FALSE])
                     IN  IF AnyActive(g) THEN Settle(g)
                         ELSE [g EXCEPT !.zone_countdown_stopped = FALSE,
                                        !.zone_countdown_paused = FALSE]
    /\ UNCHANGED settings

OnStopExtinguishment ==
    /\ ~session
    /\ fire' = Settle(StopExt(Quiet(fire)))
    /\ UNCHANGED settings

\* The slots whose countdown a pause or a resume from the bus touches.
CountingSlots(g) ==
    {z \in Zones : /\ Active(g, z) /\ ~g.slot[z].phase2_sent
                   /\ ~g.slot[z].fire1_waiting /\ ~g.slot[z].launch_stopped}

OnPauseExtinguishmentTimer ==
    /\ ~session /\ ~fire.zone_countdown_stopped /\ ~fire.zone_countdown_paused
    /\ LET Z == CountingSlots(fire)
       IN  fire' = Queue([Quiet(fire) EXCEPT !.zone_countdown_paused = TRUE,
                            !.slot = [z \in Zones |-> IF z \in Z THEN PauseSlot(@[z])
                                                                 ELSE @[z]]],
                         "PAUSE", Z)
    /\ UNCHANGED settings

OnResumeExtinguishmentTimer ==
    /\ ~session /\ fire.zone_countdown_paused
    /\ LET Z == CountingSlots(fire)
       IN  fire' = Queue([Quiet(fire) EXCEPT !.zone_countdown_paused = FALSE,
                            !.slot = [z \in Zones |-> IF z \in Z THEN ResumeSlot(@[z])
                                                                 ELSE @[z]]],
                         "RESUME", Z)
    /\ UNCHANGED settings

\* The START of a zone leaves the retry pool: acknowledged, or resent for the
\* last time.
StartSettled(z) ==
    /\ z \in fire.start_retry
    /\ fire' = [Quiet(fire) EXCEPT !.start_retry = @ \ {z}]
    /\ UNCHANGED settings

Fire_Init == fire' = EmptyFire /\ session' = FALSE
             /\ UNCHANGED <<mode, globalManual, andEffective, igniters>>
-----------------------------------------------------------------------------
(* What the rest of the panel and the igniters change. *)

IgnitersSeen(z) ==
    /\ \E s \in IgnitersOf[z] : igniters' = [igniters EXCEPT ![z] = s]
    /\ fire' = Quiet(fire)
    /\ UNCHANGED <<mode, globalManual, andEffective, session>>

Configured ==
    /\ mode' \in [Zones -> Mode] /\ \A z \in Zones : mode'[z] \in ModesOf[z]
    /\ globalManual' \in GlobalManualOf
    /\ andEffective' \in [Zones -> BOOLEAN]
    /\ \A z \in Zones : andEffective'[z] \in AndOf[z]
    /\ fire' = Quiet(fire)
    /\ UNCHANGED <<igniters, session>>

ConfigSession ==
    /\ session' \in SessionOf
    /\ fire' = Quiet(fire)
    /\ UNCHANGED <<mode, globalManual, andEffective, igniters>>
-----------------------------------------------------------------------------
Init ==
    /\ fire = EmptyFire
    /\ mode \in [Zones -> Mode] /\ \A z \in Zones : mode[z] \in ModesOf[z]
    /\ globalManual \in GlobalManualOf
    /\ andEffective \in [Zones -> BOOLEAN]
    /\ \A z \in Zones : andEffective[z] \in AndOf[z]
    /\ igniters \in [Zones -> Igniters]
    /\ \A z \in Zones : igniters[z] \in IgnitersOf[z]
    /\ session = FALSE

Next ==
    \/ Tick
    \/ \E z \in Zones : \E k \in SourcesOf[z] : OnStatusFire(z, k)
    \/ BtnStartSp \/ BtnStartAll \/ BtnStopPressed \/ GostReset
    \/ TransitionOnly
    \/ \E z \in Zones \cup {NoZone} : OnStartExtinguishment(z)
    \/ OnStopExtinguishment
    \/ OnPauseExtinguishmentTimer \/ OnResumeExtinguishmentTimer
    \/ \E z \in Zones : StartSettled(z)
    \/ Fire_Init
    \/ \E z \in Zones : IgnitersSeen(z)
    \/ Configured \/ ConfigSession

Spec == Init /\ [][Next]_vars

FairSpec == Spec /\ WF_vars(Tick)
-----------------------------------------------------------------------------
(* Properties. *)

TypeOK ==
    /\ fire \in FireRecord
    /\ mode \in [Zones -> Mode]
    /\ globalManual \in BOOLEAN
    /\ andEffective \in [Zones -> BOOLEAN]
    /\ igniters \in [Zones -> Igniters]
    /\ session \in BOOLEAN

SlotConsistent(s) ==
    /\ s.phase2_sent = s.extinguish_locked
    /\ s.extinguish_aborted => s.phase2_sent /\ s.launch_stopped
    /\ s.phase2_sent => ~s.fire1_waiting /\ ~s.countdown_paused
    /\ s.fire1_waiting => ~s.launch_stopped /\ ~s.countdown_paused
    /\ s.ext_retry_failed => s.phase2_sent

Consistent(g) ==
    \A z \in Zones : /\ SlotConsistent(g.slot[z])
                     /\ ~Active(g, z) => g.slot[z] = ZeroSlot

\* The flags of a slot never contradict each other, whatever sequence of
\* handlers wrote them: a launched zone is locked and neither waits for a
\* second detector nor is paused, only a launched zone can be aborted, and a
\* zone without a slot keeps nothing of its last fire.
SlotsConsistent == Consistent(fire)

Distinct(g) ==
    \A i, j \in Places : g.table[i] = g.table[j] /\ g.table[i] # NoZone => i = j

\* Two places never hold slots of one zone.
OneSlotPerZone == Distinct(fire)

\* Once the launch of a zone is stopped (OSTANOV, an aborted extinguishing, a
\* fire in manual mode) the retry pool resends no START to it.
StoppedZoneIsQuiet ==
    \A z \in Zones : fire.slot[z].launch_stopped => z \notin fire.start_retry

IdleIffEmpty(g) == g.state = "IDLE" <=> ~AnyActive(g)

\* The panel shows a fire exactly while some zone has a slot, after every
\* handler and not only after those that run the state machine.
IdleMeansNoFire == IdleIffEmpty(fire)

\* A launched zone gets another START only as one of the bounded retries of
\* an unfinished, unstopped extinguishing, or because the operator took up
\* the aborted launch again.
NoSecondLaunch ==
    [][\A z \in Zones : LET s == fire.slot[z] IN
        s.phase2_sent /\ <<"START", z>> \in fire'.sent =>
            \/ s.extinguish_aborted /\ fire'.start_latched
            \/ /\ ~s.launch_stopped /\ ~s.ext_retry_failed
               /\ s.ext_retry_attempts < MaxAttempts]_vars

Remaining(g, z) ==
    IF g.slot[z].countdown_paused THEN g.slot[z].paused_remaining
    ELSE g.slot[z].deadline_left

\* The countdown of a zone shortens by the passing of time alone, and not at
\* all while the zone is paused.
OnlyTimeShortens(g, h, z) ==
    Pending(g, z) /\ Pending(h, z) /\ Remaining(h, z) < Remaining(g, z) =>
        ~g.slot[z].countdown_paused /\ Remaining(h, z) + 1 = Remaining(g, z)

\* As long as no pause from the bus is involved, pausing and resuming on the
\* panel in any order freezes and continues the countdown exactly; only a
\* PUSK the igniters could not take up drops a pause.
PanelPauseFreezes ==
    [][\/ \A z \in Zones : OnlyTimeShortens(fire, fire', z)
       \/ fire.zone_countdown_paused \/ fire'.zone_countdown_paused
       \/ BtnStartSp \/ BtnStartAll]_vars

\* The same with pauses from the bus.
PauseFreezes ==
    [][\/ \A z \in Zones : OnlyTimeShortens(fire, fire', z)
       \/ BtnStartSp \/ BtnStartAll]_vars
\* What may keep the countdown of a zone from ending in a launch.
Held(z) ==
    \/ fire.slot[z].countdown_paused
    \/ fire.zone_countdown_paused \/ fire.zone_countdown_stopped
    \/ session \/ mode[z] # "auto" \/ igniters[z] = "offline"

\* A zone that waits for its launch with nothing holding it is launched, as
\* long as the periodic handler keeps running: the top-level state never
\* parks a waiting zone.
LaunchEventually ==
    \A z \in Zones : Pending(fire, z) /\ ~Held(z) ~> ~Pending(fire, z) \/ Held(z)

\* While every zone is launched, a zone that never reports END_ACK does not
\* stay in extinguishing for ever: its retries end in success or failure.
RetriesEnd ==
    \A z \in Zones :
        /\ fire.state = "EXTINGUISHING" /\ Active(fire, z) /\ Extinguishing(fire, z)
        ~> \/ fire.state # "EXTINGUISHING" \/ session
           \/ ~Extinguishing(fire, z)
-----------------------------------------------------------------------------
(* Statements of the documents and the comments that the code does not     *)
(* keep; each is refuted by a run of its own.                               *)

\* config_zone_block.h:18, a zone in mode "blocked" is not launched: no START
\* is sent to its igniters.
BlockedZoneNeverStarted ==
    [][\A z \in Zones : mode[z] = "blocked" => <<"START", z>> \notin fire'.sent]_vars
=============================================================================
