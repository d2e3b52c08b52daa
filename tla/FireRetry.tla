----------------------------- MODULE FireRetry -----------------------------
(***************************************************************************)
(* The pool of commands to the igniters that wait for an acknowledgement   *)
(* (fire.c): every command is sent at once and again every                 *)
(* FIRE_CMD_RETRY_TIMEOUT_MS until the igniter acknowledges it or the      *)
(* attempts are used up.                                                   *)
(*                                                                         *)
(* When the panel gives which command is the matter of module Fire; here   *)
(* it may give any command, within MaxOps, also while earlier ones and     *)
(* their acknowledgements are still under way.  Both travel in order over  *)
(* CAN and may be lost.                                                    *)
(*                                                                         *)
(* The igniter is not part of this code: all that is known of it is that   *)
(* it carries out a command when it gets it and acknowledges it then.      *)
(***************************************************************************)
EXTENDS Integers, Sequences, FiniteSets, SequencesExt

CONSTANTS
    Zones,
    Igniters,
    ZoneOf,         \* the zone of an igniter
    MaxItems,       \* FIRE_CMD_RETRY_MAX_ITEMS
    MaxAttempts,    \* FIRE_CMD_RETRY_MAX_ATTEMPTS
    ZoneCap,        \* igniters of a zone that get a command, 16 in the code
    AllCap,         \* igniters that get the STOP to all, 32 in the code
    \* bounds on what happens
    MaxOps, MaxLost,
    MaxUnderWay     \* frames on the bus when the panel gives a command

ASSUME IgnitersAssumption == ZoneOf \in [Igniters -> Zones]
ASSUME PoolAssumption ==
    /\ IsFiniteSet(Igniters)
    /\ MaxItems \in Nat /\ MaxItems >= Cardinality(Igniters)
    /\ MaxAttempts \in Nat \ {0} /\ ZoneCap \in Nat /\ AllCap \in Nat
    /\ MaxOps \in Nat /\ MaxLost \in Nat /\ MaxUnderWay \in Nat

VARIABLES
    pool,           \* g_fire_retry_items
    wire,           \* commands on their way to the igniters
    acks,           \* acknowledgements on their way to the panel
    burning,        \* igniters whose last START or STOP carried out is a START
    ordered,        \* per igniter, the last START or STOP of the panel
    fate,           \* what became of the last command of a kind to an igniter
    late,           \* commands given while an earlier one of the kind to the
                    \* igniter or its acknowledgement was under way
    spent           \* commands of the panel and losses so far

vars == <<pool, wire, acks, burning, ordered, fate, late, spent>>

Kind == {"START", "STOP", "PAUSE", "RESUME"}
Command == [kind : Kind, addr : Igniters]
Free == [used |-> FALSE]
Item == [used : {TRUE}, kind : Kind, addr : Igniters, attempts_sent : 1 .. MaxAttempts]

Slots == 1 .. MaxItems
InZone(z) == {a \in Igniters : ZoneOf[a] = z}

TypeOK ==
    /\ pool \in [Slots -> {Free} \cup Item]
    /\ wire \in Seq(Command)
    /\ acks \in Seq(Command)
    /\ burning \in SUBSET Igniters
    /\ ordered \in [Igniters -> {"nothing", "START", "STOP", "STOP_ALL", "RESET"}]
    /\ fate \in [Command -> {"none", "sent", "acknowledged", "given up", "dropped"}]
    /\ late \in SUBSET Command
    /\ spent \in [ops : 0 .. MaxOps, lost : 0 .. MaxLost]
-----------------------------------------------------------------------------
(* The pool.  It is passed from helper to helper within one step. *)

Holds(p, i, c) == p[i].used /\ p[i].kind = c.kind /\ p[i].addr = c.addr

Matching(p, c) == {i \in Slots : Holds(p, i, c)}
FreeSlots(p) == {i \in Slots : ~p[i].used}
First(S) == CHOOSE i \in S : \A j \in S : i <= j

\* (mutant) the item of an earlier command of the kind is not looked for
QueueAnew(p, c) ==
    LET item == [used |-> TRUE, kind |-> c.kind, addr |-> c.addr, attempts_sent |-> 1]
    IN  IF FreeSlots(p) # {} THEN [p EXCEPT ![First(FreeSlots(p))] = item] ELSE p

\* Fire_RetryQueueStart, -Stop, -Pause and -Resume, but for the sending.  In a
\* full pool the command is not kept.
Queue(p, c) ==
    LET item == [used |-> TRUE, kind |-> c.kind, addr |-> c.addr, attempts_sent |-> 1]
    IN  IF Matching(p, c) # {} THEN [p EXCEPT ![First(Matching(p, c))] = item]
        ELSE IF FreeSlots(p) # {} THEN [p EXCEPT ![First(FreeSlots(p))] = item]
        ELSE p

\* The collectors go through the table and take the igniters that are online
\* until their buffer is full.  Which are online when a command is given, and
\* which of them come first, is left open.
Collected(online, cap) ==
    {A \in SUBSET online : Cardinality(A) = Min({Cardinality(online), cap})}

\* A command to each of them, one after the other.
Commands(kind, A) == [i \in DOMAIN SetToSeq(A) |-> [kind |-> kind, addr |-> SetToSeq(A)[i]]]

\* The pool when the first, the second, ... of the commands is queued
QueueAll(p, cmds) ==
    LET after[n \in 0 .. Len(cmds)] == IF n = 0 THEN p ELSE Queue(after[n - 1], cmds[n])
    IN  after[Len(cmds)]

\* (mutant) pending STARTs survive
CancelNothing(p, kinds) == p

\* Fire_RetryCancelKind, for igniters of every zone
CancelKinds(p, kinds) == [i \in Slots |-> IF p[i].used /\ p[i].kind \in kinds THEN Free ELSE p[i]]

CommandOf(item) == [kind |-> item.kind, addr |-> item.addr]

Kept(p) == {CommandOf(p[i]) : i \in {j \in Slots : p[j].used}}

\* No command waits in two items.
Single(p) ==
    \A i, j \in Slots : p[i].used /\ p[j].used /\ CommandOf(p[i]) = CommandOf(p[j]) => i = j
-----------------------------------------------------------------------------
Init ==
    /\ pool = [i \in Slots |-> Free]
    /\ wire = <<>> /\ acks = <<>>
    /\ burning = {}
    /\ ordered = [a \in Igniters |-> "nothing"]
    /\ fate = [c \in Command |-> "none"] /\ late = {}
    /\ spent = [ops |-> 0, lost |-> 0]

\* What all commands of the panel have in common: they are sent, the pool is p
\* afterwards, and nothing more becomes of those forgotten.
Sent(cmds, p, forgotten) ==
    /\ spent.ops < MaxOps /\ Len(wire) + Len(acks) <= MaxUnderWay
    /\ pool' = p
    /\ wire' = wire \o cmds
    /\ fate' = [c \in Command |-> IF c \in ToSet(cmds) THEN "sent"
                                  ELSE IF c \in forgotten THEN "dropped" ELSE fate[c]]
    /\ late' = (late \ ToSet(cmds)) \cup (ToSet(cmds) \cap (ToSet(wire) \cup ToSet(acks)))
    /\ spent' = [spent EXCEPT !.ops = @ + 1]
    /\ UNCHANGED <<acks, burning>>

\* Items are dropped from the pool, then the command is queued for the igniters
\* of A.
Give(kind, A, dropped) ==
    Sent(Commands(kind, A), QueueAll(CancelKinds(pool, dropped), Commands(kind, A)), {})

Ordered(how, A) ==
    ordered' = [a \in Igniters |-> IF a \in A THEN how ELSE ordered[a]]

\* Fire_SendPhase2Zone, for igniters of one zone that are online; those that
\* have reported the end are passed over.
StartZone(online) ==
    \E A \in Collected(online, ZoneCap) : \E unfinished \in SUBSET A :
        Give("START", unfinished, {}) /\ Ordered("START", unfinished)

\* Fire_SendPhase2ZonePending takes as many as there are.
RestartZone(unfinished) == Give("START", unfinished, {}) /\ Ordered("START", unfinished)

\* (mutant) the pending STARTs are not dropped
StopZoneOnly(online) ==
    \E A \in Collected(online, ZoneCap) : Give("STOP", A, {}) /\ Ordered("STOP", A)

\* Fire_SendStopZone: the STARTs of every zone are dropped.
StopZone(online) ==
    \E A \in Collected(online, ZoneCap) : Give("STOP", A, {"START"}) /\ Ordered("STOP", A)

\* Fire_SendStopAllMcus
StopAll(online) ==
    \E A \in Collected(online, AllCap) :
        Give("STOP", A, {"START", "PAUSE", "RESUME"}) /\ Ordered("STOP_ALL", A)

\* Fire_GostResetFire without a zone selected: Fire_SendStopAllMcus, and then
\* Fire_RetryCancelAll.
ResetFire(online) ==
    \E A \in Collected(online, AllCap) :
        Sent(Commands("STOP", A), [i \in Slots |-> Free], Kept(pool)) /\ Ordered("RESET", A)

\* Fire_PauseZoneCountdown, Fire_ResumeZoneCountdown
PauseZone(online) ==
    \E A \in Collected(online, ZoneCap) : Give("PAUSE", A, {}) /\ UNCHANGED ordered
ResumeZone(online) ==
    \E A \in Collected(online, ZoneCap) : Give("RESUME", A, {}) /\ UNCHANGED ordered

\* (mutant) the attempts are not counted
ResendForever(i) ==
    /\ pool[i].used
    /\ wire' = Append(wire, CommandOf(pool[i]))
    /\ pool' = [pool EXCEPT ![i].attempts_sent = @ + 1]
    /\ UNCHANGED <<acks, burning, ordered, fate, late, spent>>

\* Fire_RetryProcess, for an item whose deadline has passed
Resend(i) ==
    /\ pool[i].used /\ pool[i].attempts_sent < MaxAttempts
    /\ wire' = Append(wire, CommandOf(pool[i]))
    /\ pool' = [pool EXCEPT ![i].attempts_sent = @ + 1]
    /\ UNCHANGED <<acks, burning, ordered, fate, late, spent>>

\* (mutant) one attempt too few
GiveUpEarly(i) ==
    /\ pool[i].used /\ pool[i].attempts_sent + 1 >= MaxAttempts
    /\ pool' = [pool EXCEPT ![i] = Free]
    /\ fate' = [fate EXCEPT ![CommandOf(pool[i])] = "given up"]
    /\ UNCHANGED <<wire, acks, burning, ordered, late, spent>>

GiveUp(i) ==
    /\ pool[i].used /\ pool[i].attempts_sent >= MaxAttempts
    /\ pool' = [pool EXCEPT ![i] = Free]
    /\ fate' = [fate EXCEPT ![CommandOf(pool[i])] = "given up"]
    /\ UNCHANGED <<wire, acks, burning, ordered, late, spent>>

\* Fire_RetryAckByMsgId
Acknowledged ==
    /\ acks # <<>>
    /\ pool' = [i \in Slots |-> IF i \in Matching(pool, Head(acks)) THEN Free ELSE pool[i]]
    /\ fate' = [fate EXCEPT ![Head(acks)] = "acknowledged"]
    /\ acks' = Tail(acks)
    /\ UNCHANGED <<wire, burning, ordered, late, spent>>

(* The igniters and the bus. *)

CarryOut ==
    /\ wire # <<>>
    /\ LET c == Head(wire)
       IN  /\ burning' = CASE c.kind = "START" -> burning \cup {c.addr}
                           [] c.kind = "STOP" -> burning \ {c.addr}
                           [] OTHER -> burning
           /\ acks' = Append(acks, c)
    /\ wire' = Tail(wire)
    /\ UNCHANGED <<pool, ordered, fate, late, spent>>

LoseCommand ==
    /\ wire # <<>> /\ spent.lost < MaxLost
    /\ wire' = Tail(wire)
    /\ spent' = [spent EXCEPT !.lost = @ + 1]
    /\ UNCHANGED <<pool, acks, burning, ordered, fate, late>>

LoseAck ==
    /\ acks # <<>> /\ spent.lost < MaxLost
    /\ acks' = Tail(acks)
    /\ spent' = [spent EXCEPT !.lost = @ + 1]
    /\ UNCHANGED <<pool, wire, burning, ordered, fate, late>>
-----------------------------------------------------------------------------
Next ==
    \/ \E z \in Zones : \E A \in SUBSET InZone(z) :
           \/ StartZone(A)
           \/ RestartZone(A)
           \/ StopZone(A)
           \/ PauseZone(A)
           \/ ResumeZone(A)
    \/ \E A \in SUBSET Igniters : StopAll(A) \/ ResetFire(A)
    \/ \E i \in Slots : Resend(i)
    \/ \E i \in Slots : GiveUp(i)
    \/ Acknowledged
    \/ CarryOut
    \/ LoseCommand
    \/ LoseAck

Spec == Init /\ [][Next]_vars

\* Fire_RetryProcess runs every millisecond outside configuration sessions, and
\* the bus delivers what it does not lose.
Fairness ==
    /\ \A i \in Slots : WF_vars(Resend(i) \/ GiveUp(i))
    /\ WF_vars(Acknowledged)
    /\ WF_vars(CarryOut)

FairSpec == Spec /\ Fairness
-----------------------------------------------------------------------------
(* Properties *)

Stop(a) == [kind |-> "STOP", addr |-> a]
Start(a) == [kind |-> "START", addr |-> a]

\* A command waits in one item at most, however often it is given
\* (Fire_RetryFind before Fire_RetryAlloc): the attempts are not multiplied.
OneItemPerCommand == Single(pool)

\* No START goes out to an igniter after the panel stopped it, by whichever
\* way, unless it is started again (Fire_RetryCancelKind, Fire_RetryCancelAll).
NoStartAfterStop ==
    [][\A a \in Igniters :
        ordered'[a] \in {"STOP", "STOP_ALL", "RESET"} =>
            \A i \in Len(wire) + 1 .. Len(wire') : wire'[i] # Start(a)]_vars

\* The STOP to all igniters finds room in the pool whatever was in it, and leaves
\* it only when acknowledged or given up or with a reset of the fire
\* (Fire_SendStopAllMcus).
GeneralStopIsRetried ==
    \A a \in Igniters :
        ordered[a] = "STOP_ALL" /\ fate[Stop(a)] = "sent" => Stop(a) \in Kept(pool)

\* An igniter whose STOP is acknowledged does not burn, whatever was lost and
\* resent before (Fire_RetryAckByMsgId), unless an earlier STOP or its
\* acknowledgement was still under way when it was given: the acknowledgement
\* does not say which of the two it is for.
AcknowledgedStopPrevails ==
    \A a \in Igniters :
        /\ ordered[a] \in {"STOP", "STOP_ALL", "RESET"}
        /\ fate[Stop(a)] = "acknowledged" /\ Stop(a) \notin late
        => a \notin burning

\* Without the exception it is false: a late acknowledgement passes for that of
\* the last STOP.
AcknowledgedMeansOff ==
    \A a \in Igniters :
        ordered[a] \in {"STOP", "STOP_ALL", "RESET"} /\ fate[Stop(a)] = "acknowledged"
            => a \notin burning

\* With fewer losses than attempts, igniters stopped all together do not burn
\* in the end, unless an earlier STOP was still under way or a reset of the fire
\* drops this one (Fire_RetryProcess).
GeneralStopIsCarriedOut ==
    \A a \in Igniters :
        <>[](/\ ordered[a] = "STOP_ALL" /\ Stop(a) \notin late
             /\ fate[Stop(a)] # "dropped")
            => <>[](a \notin burning)

\* fire.c, line 1376: the STOP goes to each active igniter.  It goes to the first
\* 32 only.
StopReachesAll ==
    [][\A online \in SUBSET Igniters :
        StopAll(online) => \A a \in online : ordered'[a] = "STOP_ALL"]_vars

\* Zones with a START among the commands of C.
StartsOf(C) == {ZoneOf[c.addr] : c \in {d \in C : d.kind = "START"}}

\* STARTs on their way that no STOP of the igniter follows
Loose(w) ==
    {c \in Command : c.kind = "START" /\
        \E i \in DOMAIN w : w[i] = c /\ \A j \in i + 1 .. Len(w) : w[j] # Stop(c.addr)}

\* Zones all igniters of which were stopped last.
Halted ==
    {z \in Zones : /\ InZone(z) # {}
                   /\ \A a \in InZone(z) : ordered[a] \in {"STOP", "STOP_ALL", "RESET"}}

Starts == INSTANCE StartRetries WITH
    start_retry <- StartsOf(Kept(pool)),
    starting <- StartsOf(Loose(wire)),
    halted <- Halted

\* The pool does what module Fire takes for granted of it: a START is sent by
\* the panel or resent while it waits, and a stop drops all that wait
\* (Fire_RetryQueueStart, Fire_RetryCancelKind, Fire_RetryProcess).
KeepsStarts == Starts!Spec

\* Every STOP is confirmed: it stays in the pool until it is acknowledged or
\* given up.  The reset of a fire breaks it (Fire_GostResetFire).
EveryStopIsConfirmed ==
    \A a \in Igniters : fate[Stop(a)] = "sent" => Stop(a) \in Kept(pool)
=============================================================================
