--------------------------- MODULE ConfigSyncProofs ---------------------------
(***************************************************************************)
(* What holds of the synchronisation of the configurations for any number  *)
(* of MCUs and zones, any number of retries, operations, restarts, edits   *)
(* and changes of the modes.                                               *)
(***************************************************************************)
EXTENDS ConfigSync, FiniteSetTheorems, TLAPS

Op == {"none", "verify", "apply", "read_all", "periodic", "uid", "ign_block"}
Step == {"idle", "size", "word", "crc", "set", "save", "readback"}
Command == {"size", "get", "set", "save", "crc"}

\* An MCU is always in a zone, and so are its configurations.
Mcu ==
    {u \in [zone : Zones, work : Config, saved : Config] :
        u.work.zone \in Zones /\ u.saved.zone \in Zones}

Sync ==
    [busy : BOOLEAN, op : Op, step : Step, success : BOOLEAN, failed : Nat,
     targets : Seq(Slot), pos : Nat, slot : Slot, zone : Zones \cup {0}, total : 0 .. Words,
     word : 0 .. Words, rx : Config, expected : Config, waiting : BOOLEAN,
     cmd : Command \cup {"none"}, value : Nat, retries : Nat,
     sub : {"read", "apply", "readback"}, unsure : SUBSET Slot]

\* A value for a word of a configuration; no MCU is in zone 0.
Fits(word, value) ==
    \/ word = 0 /\ value \in Zones
    \/ word = 1 /\ value \in {NoIgniter, Free, Blocked}

\* The requests the panel sends and the answers it gets.
Request ==
    {m \in Message : /\ m.cmd \in {"get", "set"} => m.word \in 0 .. Words - 1
                     /\ m.cmd = "set" => Fits(m.word, m.value)}

Reply ==
    {m \in [slot : Slot, zone : Zones, cmd : Command, word : Nat, config : Config, value : Nat] :
        m.cmd = "get" => Fits(m.word, m.value)}

\* The command of each step, and the operations it belongs to.
AtStep(s) ==
    \/ s.step = "size" /\ s.cmd = "size" /\ s.sub = "read"
          /\ s.op \in {"verify", "apply", "read_all", "periodic", "ign_block"}
    \/ s.step = "word" /\ s.cmd = "get" /\ s.word < s.total
          /\ s.op \in {"uid", "read_all", "ign_block"} /\ s.sub \in {"read", "readback"}
          /\ (s.word > 0 => s.rx.zone \in Zones)
    \/ s.step = "crc" /\ s.cmd = "crc" /\ s.op \in {"verify", "periodic"}
    \/ s.step = "set" /\ s.cmd = "set" /\ s.word < s.total /\ Fits(s.word, s.value)
          /\ s.op \in {"apply", "ign_block"}
    \/ s.step = "save" /\ s.cmd = "save" /\ s.total > 0 /\ s.op \in {"apply", "ign_block"}
    \/ s.step = "readback" /\ s.cmd = "crc" /\ s.total > 0 /\ s.op \in {"apply", "ign_block"}

\* Between two targets, at a target, before the first one, behind the last one.
Working(s) == s.busy /\ s.op # "none" /\ s.pos <= Len(s.targets) /\ s.failed <= s.pos

AtTarget(s) ==
    /\ Working(s) /\ s.waiting
    /\ s.pos > 0 /\ s.slot = s.targets[s.pos] /\ s.failed < s.pos
    /\ s.retries <= IF s.step = "save" THEN SaveRetries ELSE RequestRetries

Begun(s) ==
    /\ Working(s) /\ s.targets # <<>> /\ s.pos = 0 /\ s.step = "idle"
    /\ ~s.waiting /\ s.retries = 0 /\ s.word = 0 /\ s.sub = "read"

Resting(s) == ~s.busy /\ ~s.waiting /\ s.failed = 0 /\ s.retries = 0 /\ s.word = 0 /\ s.step = "idle"

Stage(s) == Resting(s) \/ Begun(s) \/ (AtTarget(s) /\ AtStep(s))

\* The slots of the image in use have a zone, those of an operation are in use.
Listed(img, s) ==
    /\ \A t \in Slot : img[t] = Blank \/ img[t].zone \in Zones
    /\ s.busy /\ s.op # "uid" => \A i \in 1 .. Len(s.targets) : img[s.targets[i]] # Blank
    /\ s.op = "uid" => Len(s.targets) = 1

\* The inductive invariant of the types.
Inv ==
    /\ TypeOK /\ sync \in Sync /\ Stage(sync) /\ Listed(image, sync)
    /\ requests \in Seq(Request) /\ replies \in Seq(Reply) /\ mcu \in [Slot -> Mcu]
-----------------------------------------------------------------------------
(* Words and frames. *)

LEMMA WordsOK == Words = 2
BY DEF Words, Field

LEMMA FieldOK ==
    ASSUME NEW c \in Config
    PROVE  /\ Words = 2 /\ c[Field[1]] = c.zone /\ c[Field[2]] = c.block
           /\ \A word, v : Fits(word, v) => [c EXCEPT ![Field[word + 1]] = v] \in Config
           /\ c.zone \in Zones => \A word \in 0 .. Words - 1 : Fits(word, c[Field[word + 1]])
           /\ \A word, v : Fits(word, v) /\ (word > 0 => c.zone \in Zones)
                 => [c EXCEPT ![Field[word + 1]] = v].zone \in Zones
<1>1. Words = 2 /\ Field[1] = "zone" /\ Field[2] = "block"
  BY DEF Words, Field
<1>2. c = [zone |-> c.zone, block |-> c.block] /\ c.zone \in Zones \cup {0}
      /\ c.block \in {NoIgniter, Free, Blocked}
  BY DEF Config
<1>3. ASSUME NEW word, NEW v, Fits(word, v)
      PROVE  /\ [c EXCEPT ![Field[word + 1]] = v] \in Config
             /\ (word > 0 => c.zone \in Zones) => [c EXCEPT ![Field[word + 1]] = v].zone \in Zones
  <2>1. CASE word = 0 /\ v \in Zones
    <3>1. [c EXCEPT ![Field[word + 1]] = v] = [c EXCEPT !.zone = v]
      BY <1>1, <2>1
    <3>2. [c EXCEPT !.zone = v] = [zone |-> v, block |-> c.block]
      BY <1>2
    <3> QED
      BY <1>2, <2>1, <3>1, <3>2 DEF Config
  <2>2. CASE word = 1 /\ v \in {NoIgniter, Free, Blocked}
    <3>1. [c EXCEPT ![Field[word + 1]] = v] = [c EXCEPT !.block = v]
      BY <1>1, <2>2
    <3>2. [c EXCEPT !.block = v] = [zone |-> c.zone, block |-> v]
      BY <1>2
    <3> QED
      BY <1>2, <2>2, <3>1, <3>2 DEF Config
  <2> QED
    BY <1>3, <2>1, <2>2 DEF Fits
<1>4. ASSUME c.zone \in Zones, NEW word \in 0 .. Words - 1
      PROVE  Fits(word, c[Field[word + 1]])
  <2>1. word = 0 \/ word = 1
    BY <1>1
  <2> QED
    BY <1>1, <1>2, <1>4, <2>1 DEF Fits
<1> QED
  BY <1>1, <1>3, <1>4

LEMMA FitsNat ==
    ASSUME NEW word, NEW v, Fits(word, v)
    PROVE  word \in 0 .. Words - 1 /\ v \in Nat
<1>1. Words = 2
  BY WordsOK
<1>2. Zones \subseteq Nat
  BY ConstantsAssumption
<1>3. CASE word = 0 /\ v \in Zones
  BY <1>1, <1>2, <1>3
<1>4. CASE word = 1 /\ v \in {NoIgniter, Free, Blocked}
  <2>1. v \in Nat
    BY <1>4 DEF NoIgniter, Free, Blocked
  <2> QED
    BY <1>1, <1>4, <2>1
<1> QED
  BY <1>3, <1>4 DEF Fits

LEMMA PutOK ==
    ASSUME NEW S, NEW q \in Seq(S), NEW m \in S
    PROVE  Put(q, m) \in Seq(S)
BY DEF Put

LEMMA TakeOK ==
    ASSUME NEW S, NEW q \in Seq(S), q # <<>>
    PROVE  Head(q) \in S /\ Tail(q) \in Seq(S)
OBVIOUS

LEMMA SyncFields ==
    ASSUME NEW s \in Sync
    PROVE  /\ s.busy \in BOOLEAN /\ s.op \in Op /\ s.step \in Step /\ s.success \in BOOLEAN
           /\ s.failed \in Nat /\ s.targets \in Seq(Slot) /\ s.pos \in Nat /\ s.slot \in Slot
           /\ s.zone \in Zones \cup {0} /\ s.total \in 0 .. Words /\ s.word \in 0 .. Words
           /\ s.rx \in Config /\ s.expected \in Config /\ s.waiting \in BOOLEAN
           /\ s.cmd \in Command \cup {"none"} /\ s.value \in Nat /\ s.retries \in Nat
           /\ s.sub \in {"read", "apply", "readback"} /\ s.unsure \subseteq Slot
BY DEF Sync

LEMMA NoSyncOK == NoSync \in Sync /\ Resting(NoSync)
<1>1. 1 \in Slot /\ Words = 2
  BY ConstantsAssumption, WordsOK DEF Slot
<1>2. Blank \in Config
  BY DEF Blank, Config
<1> QED
  BY <1>1, <1>2 DEF NoSync, Sync, Resting, Op, Step

LEMMA FrameOK ==
    ASSUME NEW s \in Sync, s.cmd # "none", AtStep(s)
    PROVE  Frame(s) \in Request
<1>1. s.word \in 0 .. Words /\ s.value \in Nat /\ s.slot \in Slot /\ s.zone \in Zones \cup {0}
      /\ s.total \in 0 .. Words /\ s.cmd \in Command /\ Words = 2
  BY SyncFields DEF Words, Field
<1>2. Frame(s) \in Message
  BY <1>1 DEF Frame, Message, Command
<1>3. s.cmd \in {"get", "set"} => s.word \in 0 .. Words - 1
  BY <1>1 DEF AtStep
<1>4. s.cmd = "set" => Fits(s.word, s.value)
  BY DEF AtStep
<1> QED
  BY <1>2, <1>3, <1>4 DEF Frame, Request

\* What a request sent changes.
Asking(s, step, cmd, word, value) ==
    [s EXCEPT !.step = step, !.cmd = cmd, !.word = word, !.value = value,
              !.waiting = TRUE, !.retries = 0]

\* What does not change while an operation is at a target.
SameTarget(s, t) ==
    /\ t.busy = s.busy /\ t.op = s.op /\ t.failed = s.failed /\ t.targets = s.targets
    /\ t.pos = s.pos /\ t.slot = s.slot /\ t.unsure = s.unsure /\ t.success = s.success

LEMMA AskingFields ==
    ASSUME NEW s \in Sync, NEW step \in Step, NEW cmd \in Command, NEW word \in 0 .. Words,
           NEW value \in Nat
    PROVE  LET t == Asking(s, step, cmd, word, value)
           IN  /\ t \in Sync /\ SameTarget(s, t)
               /\ t.step = step /\ t.cmd = cmd /\ t.word = word /\ t.value = value
               /\ t.waiting /\ t.retries = 0
               /\ t.zone = s.zone /\ t.total = s.total /\ t.rx = s.rx
               /\ t.expected = s.expected /\ t.sub = s.sub
BY DEF Asking, Sync, SameTarget

\* An operation that stands at a target.
Standing(s) ==
    /\ s \in Sync /\ Working(s) /\ s.pos > 0 /\ s.slot = s.targets[s.pos] /\ s.failed < s.pos

\* What a handler leaves behind.
Sent == sync' \in Sync /\ Stage(sync') /\ requests' \in Seq(Request)

LEMMA SendOK ==
    ASSUME NEW s, Standing(s), NEW step \in Step, NEW cmd \in Command, NEW word \in 0 .. Words,
           NEW value \in Nat, AtStep(Asking(s, step, cmd, word, value)),
           requests \in Seq(Request), SendReq(s, step, cmd, word, value)
    PROVE  Sent /\ sync'.op = s.op /\ sync'.targets = s.targets
<1> DEFINE t == Asking(s, step, cmd, word, value)
<1>1. sync' = t /\ requests' = Put(requests, Frame(t))
  BY DEF SendReq, Asking
<1>2. /\ t \in Sync /\ SameTarget(s, t) /\ t.step = step /\ t.cmd = cmd /\ t.waiting /\ t.retries = 0
  BY AskingFields DEF Standing
<1>3. Frame(t) \in Request
  BY <1>2, FrameOK DEF Command
<1>4. requests' \in Seq(Request)
  BY <1>1, <1>3, PutOK
<1>5. AtTarget(t)
  BY <1>2, ConstantsAssumption DEF AtTarget, Standing, Working, SameTarget
<1> QED
  BY <1>1, <1>2, <1>4, <1>5 DEF Sent, Stage, SameTarget

LEMMA FinishOK ==
    ASSUME NEW s \in Sync, requests \in Seq(Request), Finish(s)
    PROVE  Sent /\ sync'.op = s.op /\ sync'.targets = s.targets
           /\ ~sync'.busy /\ sync'.success = (s.failed = 0)
<1> DEFINE ok == s.failed = 0
           op == s.op
           targets == s.targets
           t == [NoSync EXCEPT !.op = op, !.targets = targets, !.success = ok]
<1>1. sync' = t /\ requests' = requests
  BY DEF Finish
<1>2. op \in Op /\ targets \in Seq(Slot) /\ ok \in BOOLEAN
  BY SyncFields
<1>3. NoSync \in Sync /\ Resting(NoSync)
  BY NoSyncOK
<1> HIDE DEF ok, op, targets
<1>4. /\ t \in Sync /\ t.op = op /\ t.targets = targets /\ t.success = ok
      /\ t.busy = NoSync.busy /\ t.waiting = NoSync.waiting /\ t.failed = NoSync.failed
      /\ t.retries = NoSync.retries /\ t.word = NoSync.word /\ t.step = NoSync.step
  BY <1>2, <1>3 DEF Sync
<1> HIDE DEF t
<1> QED
  BY <1>1, <1>3, <1>4 DEF Sent, Stage, Resting, ok, op, targets

\* What the handlers read of the image and of the active devices.
Surroundings ==
    /\ image \in [Slot -> Config] /\ active \in [Slot -> Zones \cup {Offline}]
    /\ requests \in Seq(Request)

\* An operation at the end of a target, or before the first one.
Between(s, p) ==
    /\ s \in Sync /\ s.busy /\ s.op \in {"verify", "apply", "read_all", "periodic", "ign_block"}
    /\ p \in 1 .. Len(s.targets) + 1 /\ s.failed < p
    /\ \A i \in 1 .. Len(s.targets) : image[s.targets[i]] # Blank

\* The request for the size that begins the target p.
Opening(s, t, p) ==
    /\ t.busy /\ t.op = s.op /\ t.failed = s.failed /\ t.targets = s.targets
    /\ t.unsure = s.unsure /\ t.pos = p /\ t.slot = s.targets[p]
    /\ t.step = "size" /\ t.sub = "read" /\ t.rx = Blank

LEMMA StartTargetOK ==
    ASSUME NEW s, NEW p, Between(s, p), Surroundings, StartTarget(s, p)
    PROVE  /\ Sent /\ sync'.op = s.op /\ sync'.targets = s.targets
           /\ p <= Len(s.targets) => Opening(s, sync', p)
           /\ p > Len(s.targets) => Finish(s)
<1> DEFINE left == {q \in p .. Len(s.targets) : IsValidCfgSlot(s.targets[q])}
<1>1. /\ s \in Sync /\ s.targets \in Seq(Slot) /\ Len(s.targets) \in Nat /\ p \in Nat
      /\ s.failed \in Nat /\ s.failed < p /\ s.op \in Op /\ s.busy /\ s.op # "none"
  BY SyncFields DEF Between
<1>2. left = p .. Len(s.targets)
  BY <1>1 DEF Between, IsValidCfgSlot
<1>3. CASE p > Len(s.targets)
  <2>1. left = {}
    BY <1>1, <1>2, <1>3
  <2>2. Finish(s)
    BY <2>1 DEF StartTarget
  <2> QED
    BY <1>1, <1>3, <2>2, FinishOK DEF Surroundings
<1>4. CASE p <= Len(s.targets)
  <2> DEFINE q == CHOOSE r \in left : \A t \in left : r <= t
             slot == s.targets[q]
             zone == IF s.op = "read_all" THEN image[slot].zone ELSE Resolve(slot)
             u == [s EXCEPT !.pos = q, !.slot = slot, !.zone = zone, !.total = 0,
                            !.rx = Blank, !.expected = Blank, !.sub = "read"]
  <2>1. p \in left /\ \A t \in left : p <= t
    BY <1>1, <1>2, <1>4
  <2>2. q = p
    <3>1. q \in left /\ \A t \in left : q <= t
      BY <2>1
    <3>2. q <= p /\ p <= q /\ q \in Nat
      BY <1>1, <1>2, <2>1, <3>1
    <3> QED
      BY <1>1, <3>2
  <2>3. left # {}
    BY <2>1
  <2>4. SendReq(u, "size", "size", 0, 0)
    BY <2>3 DEF StartTarget
  <2> HIDE DEF q, left
  <2>5. slot \in Slot /\ slot = s.targets[p]
    <3>1. p \in 1 .. Len(s.targets)
      BY <1>1, <1>4 DEF Between
    <3>2. s.targets[p] \in Slot
      BY <1>1, <3>1
    <3> QED
      BY <2>2, <3>2
  <2>6. zone \in Zones \cup {0}
    BY <2>5 DEF Surroundings, Resolve, Config, Offline
  <2>7. Blank \in Config /\ 0 \in 0 .. Words /\ 0 \in Nat
    BY WordsOK DEF Blank, Config
  <2> HIDE DEF slot, zone
  <2>8. /\ u \in Sync /\ u.pos = p /\ u.slot = slot /\ u.sub = "read" /\ u.busy = s.busy
        /\ u.op = s.op /\ u.failed = s.failed /\ u.targets = s.targets /\ u.unsure = s.unsure
        /\ u.rx = Blank
    BY <1>1, <2>2, <2>5, <2>6, <2>7 DEF Sync
  <2> HIDE DEF u
  <2>9. Standing(u)
    BY <1>1, <1>4, <2>5, <2>8 DEF Standing, Working
  <2> DEFINE t == Asking(u, "size", "size", 0, 0)
  <2>10. /\ t \in Sync /\ SameTarget(u, t) /\ t.step = "size" /\ t.cmd = "size" /\ t.sub = u.sub
         /\ t.rx = u.rx
    <3>1. "size" \in Step /\ "size" \in Command
      BY DEF Step, Command
    <3> QED
      BY <2>7, <2>8, <3>1, AskingFields
  <2>11. AtStep(t)
    BY <2>8, <2>10 DEF AtStep, SameTarget, Between
  <2> HIDE DEF t
  <2>12. Sent /\ sync'.op = u.op /\ sync'.targets = u.targets
    BY <2>4, <2>7, <2>9, <2>11, SendOK DEF Step, Command, Surroundings, t
  <2>13. sync' = t
    BY <2>4 DEF SendReq, t, Asking
  <2>14. Opening(s, sync', p)
    BY <1>1, <2>5, <2>8, <2>10, <2>13 DEF Opening, SameTarget
  <2> QED
    BY <1>4, <2>8, <2>12, <2>14, <1>1
<1> QED
  BY <1>1, <1>3, <1>4

\* At the end of a target, whatever the operation.
Ending(s) ==
    /\ s \in Sync /\ Working(s) /\ s.pos > 0
    /\ Listed(image, s)

LEMMA NextTargetOK ==
    ASSUME NEW s, Ending(s), Surroundings, NextTargetOrFinish(s)
    PROVE  /\ Sent /\ sync'.op = s.op /\ sync'.targets = s.targets
           /\ s.pos < Len(s.targets) => Opening(s, sync', s.pos + 1)
           /\ s.pos >= Len(s.targets) => Finish(s)
<1>1. /\ s \in Sync /\ s.busy /\ s.op \in Op \ {"none"} /\ s.pos \in 1 .. Len(s.targets)
      /\ s.failed \in Nat /\ s.failed <= s.pos /\ Len(s.targets) \in Nat
  BY SyncFields DEF Ending, Working
<1>2. CASE s.op = "uid"
  <2>1. Finish(s)
    BY <1>2 DEF NextTargetOrFinish
  <2>2. Len(s.targets) = 1
    BY <1>2 DEF Ending, Listed
  <2> QED
    BY <1>1, <2>1, <2>2, FinishOK DEF Surroundings
<1>3. CASE s.op # "uid"
  <2>1. StartTarget(s, s.pos + 1)
    BY <1>3 DEF NextTargetOrFinish
  <2>2. Between(s, s.pos + 1)
    <3>1. s.op \in {"verify", "apply", "read_all", "periodic", "ign_block"}
      BY <1>1, <1>3 DEF Op
    <3>2. s.pos + 1 \in 1 .. Len(s.targets) + 1 /\ s.failed < s.pos + 1
      BY <1>1
    <3> QED
      BY <1>1, <1>3, <3>1, <3>2 DEF Between, Ending, Listed
  <2> QED
    BY <1>1, <2>1, <2>2, StartTargetOK
<1> QED
  BY <1>2, <1>3

\* A request that waits for its answer.
Waiting == Inv /\ sync.waiting

LEMMA WaitingAtTarget ==
    ASSUME Waiting
    PROVE  /\ Surroundings /\ sync \in Sync /\ AtTarget(sync) /\ AtStep(sync)
           /\ Standing(sync) /\ Listed(image, sync) /\ Ending(sync)
<1>1. /\ sync \in Sync /\ AtTarget(sync) /\ AtStep(sync) /\ Listed(image, sync)
  BY DEF Waiting, Inv, Stage, Resting, Begun
<1>2. Surroundings
  BY DEF Waiting, Inv, TypeOK, Surroundings
<1> QED
  BY <1>1, <1>2 DEF AtTarget, Standing, Ending

LEMMA FailOK ==
    ASSUME Waiting, Fail
    PROVE  /\ Sent /\ sync'.op = sync.op /\ sync'.targets = sync.targets
           /\ sync'.busy => sync'.failed > 0
           /\ ~sync'.busy => ~sync'.success
           /\ sync'.waiting => sync'.step = "size"
<1> DEFINE s == [sync EXCEPT !.failed = @ + 1]
<1>1. /\ sync \in Sync /\ AtTarget(sync) /\ Ending(sync) /\ Surroundings
      /\ sync.failed \in Nat /\ sync.failed < sync.pos /\ sync.pos \in Nat
      /\ sync.success \in BOOLEAN
  BY WaitingAtTarget, SyncFields DEF AtTarget
<1>2. /\ s \in Sync /\ s.failed = sync.failed + 1 /\ s.op = sync.op /\ s.targets = sync.targets
      /\ s.pos = sync.pos /\ s.busy = sync.busy
  <2>1. sync \in Sync /\ sync.failed + 1 \in Nat
    BY <1>1
  <2> QED
    BY <2>1 DEF Sync
<1>3. NextTargetOrFinish(s)
  BY DEF Fail
<1> HIDE DEF s
<1>4. Ending(s)
  BY <1>1, <1>2 DEF Ending, Working, Listed
<1>5. /\ Sent /\ sync'.op = s.op /\ sync'.targets = s.targets
      /\ s.pos < Len(s.targets) => Opening(s, sync', s.pos + 1)
      /\ s.pos >= Len(s.targets) => Finish(s)
  BY <1>1, <1>3, <1>4, NextTargetOK
<1>6. CASE s.pos < Len(s.targets)
  BY <1>1, <1>2, <1>5, <1>6 DEF Opening
<1>7. CASE s.pos >= Len(s.targets)
  <2>1. s \in Sync /\ requests \in Seq(Request) /\ Finish(s)
    BY <1>1, <1>2, <1>5, <1>7 DEF Surroundings
  <2>2. ~sync'.busy /\ sync'.success = (s.failed = 0)
    BY <2>1, FinishOK
  <2>3. s.failed # 0
    BY <1>1, <1>2
  <2>4. ~sync'.success
    BY <2>2, <2>3
  <2>5. ~sync'.waiting
    BY <1>5, <2>2 DEF Sent, Stage, Resting, Begun, AtTarget, Working
  <2> QED
    BY <1>2, <1>5, <2>2, <2>4, <2>5
<1>8. s.pos \in Nat /\ Len(s.targets) \in Nat
  BY <1>1, <1>2, SyncFields
<1> QED
  BY <1>6, <1>7, <1>8
-----------------------------------------------------------------------------
(* The handlers of the answers. *)

LEMMA AskWordOK ==
    ASSUME NEW s, Standing(s), requests \in Seq(Request), NEW word \in Nat, word < s.total,
           s.op \in {"uid", "read_all", "ign_block"}, s.sub \in {"read", "readback"},
           word > 0 => s.rx.zone \in Zones, AskWord(s, word)
    PROVE  Sent /\ sync'.op = s.op /\ sync'.targets = s.targets
<1> DEFINE t == Asking(s, "word", "get", word, 0)
<1>1. word \in 0 .. Words /\ s \in Sync /\ "word" \in Step /\ "get" \in Command /\ 0 \in Nat
  <2>1. s \in Sync /\ s.total \in 0 .. Words
    BY SyncFields DEF Standing
  <2> QED
    BY <2>1, WordsOK DEF Step, Command
<1>2. /\ SameTarget(s, t) /\ t.step = "word" /\ t.cmd = "get" /\ t.word = word
      /\ t.total = s.total /\ t.rx = s.rx /\ t.sub = s.sub
  BY <1>1, AskingFields
<1> HIDE DEF t
<1>3. AtStep(t)
  BY <1>2 DEF AtStep, SameTarget
<1>4. SendReq(s, "word", "get", word, 0)
  BY DEF AskWord
<1> QED
  BY <1>1, <1>3, <1>4, SendOK DEF t

LEMMA SetWordOK ==
    ASSUME NEW s, Standing(s), requests \in Seq(Request), NEW word \in Nat, word < s.total,
           s.op \in {"apply", "ign_block"}, NEW config \in Config, config.zone \in Zones,
           SetWord(s, word, config)
    PROVE  Sent /\ sync'.op = s.op /\ sync'.targets = s.targets
<1> DEFINE v == config[Field[word + 1]]
           t == Asking(s, "set", "set", word, v)
<1>1. /\ word \in 0 .. Words /\ word \in 0 .. Words - 1 /\ s \in Sync
      /\ "set" \in Step /\ "set" \in Command
  <2>1. s \in Sync /\ s.total \in 0 .. Words
    BY SyncFields DEF Standing
  <2> QED
    BY <2>1, WordsOK DEF Step, Command
<1>2. Fits(word, v) /\ v \in Nat
  BY <1>1, FieldOK, FitsNat
<1>3. SendReq(s, "set", "set", word, v)
  BY DEF SetWord
<1> HIDE DEF v
<1>4. /\ SameTarget(s, t) /\ t.step = "set" /\ t.cmd = "set" /\ t.word = word
      /\ t.total = s.total /\ t.value = v
  BY <1>1, <1>2, AskingFields
<1> HIDE DEF t
<1>5. AtStep(t)
  BY <1>2, <1>4 DEF AtStep, SameTarget
<1> QED
  BY <1>1, <1>2, <1>3, <1>5, SendOK DEF t

LEMMA SendCrcOK ==
    ASSUME NEW s, Standing(s), requests \in Seq(Request), NEW step,
           \/ step = "crc" /\ s.op \in {"verify", "periodic"}
           \/ step = "readback" /\ s.op \in {"apply", "ign_block"} /\ s.total > 0,
           SendReq(s, step, "crc", 0, 0)
    PROVE  Sent /\ sync'.op = s.op /\ sync'.targets = s.targets
<1> DEFINE t == Asking(s, step, "crc", 0, 0)
<1>1. 0 \in 0 .. Words /\ s \in Sync /\ step \in Step /\ "crc" \in Command /\ 0 \in Nat
  BY WordsOK DEF Standing, Step, Command
<1>2. SameTarget(s, t) /\ t.step = step /\ t.cmd = "crc" /\ t.total = s.total
  BY <1>1, AskingFields
<1> HIDE DEF t
<1>3. AtStep(t)
  BY <1>2 DEF AtStep, SameTarget
<1> QED
  BY <1>1, <1>3, SendOK DEF t

LEMMA SendSaveOK ==
    ASSUME NEW s, Standing(s), requests \in Seq(Request), s.op \in {"apply", "ign_block"},
           s.total > 0, SendReq(s, "save", "save", 0, 0)
    PROVE  Sent /\ sync'.op = s.op /\ sync'.targets = s.targets
<1> DEFINE t == Asking(s, "save", "save", 0, 0)
<1>1. 0 \in 0 .. Words /\ s \in Sync /\ "save" \in Step /\ "save" \in Command /\ 0 \in Nat
  BY WordsOK DEF Standing, Step, Command
<1>2. SameTarget(s, t) /\ t.step = "save" /\ t.cmd = "save" /\ t.total = s.total
  BY <1>1, AskingFields
<1> HIDE DEF t
<1>3. AtStep(t)
  BY <1>2 DEF AtStep, SameTarget
<1> QED
  BY <1>1, <1>3, SendOK DEF t

\* What a handler has to leave behind.
Handled ==
    /\ Sent /\ sync'.op = sync.op /\ sync'.targets = sync.targets
    /\ image' \in [Slot -> Config]
    /\ \A t \in Slot : image'[t] = Blank \/ image'[t].zone \in Zones
    /\ sync.op # "uid" => \A i \in 1 .. Len(sync.targets) : image'[sync.targets[i]] # Blank
    /\ streak' \in [Slot -> 0 .. 2] /\ latched' \in [Slot -> BOOLEAN] /\ serials' \subseteq Slot

LEMMA ImageStays ==
    ASSUME Waiting, UNCHANGED image
    PROVE  /\ image' \in [Slot -> Config]
           /\ \A t \in Slot : image'[t] = Blank \/ image'[t].zone \in Zones
           /\ sync.op # "uid" => \A i \in 1 .. Len(sync.targets) : image'[sync.targets[i]] # Blank
BY WaitingAtTarget DEF Surroundings, Listed, AtTarget, Working

LEMMA RestStays ==
    ASSUME Waiting
    PROVE  /\ streak \in [Slot -> 0 .. 2] /\ latched \in [Slot -> BOOLEAN] /\ serials \subseteq Slot
BY DEF Waiting, Inv, TypeOK

LEMMA SlotInUse ==
    ASSUME Waiting, sync.op # "uid"
    PROVE  sync.slot \in Slot /\ image[sync.slot] \in Config /\ image[sync.slot].zone \in Zones
<1>1. /\ sync \in Sync /\ AtTarget(sync) /\ Listed(image, sync) /\ image \in [Slot -> Config]
      /\ sync.slot \in Slot
  BY WaitingAtTarget, SyncFields DEF Surroundings
<1>2. sync.busy /\ sync.slot = sync.targets[sync.pos] /\ sync.pos \in 1 .. Len(sync.targets)
  BY <1>1, SyncFields DEF AtTarget, Working
<1>3. image[sync.slot] # Blank
  BY <1>1, <1>2 DEF Listed
<1> QED
  BY <1>1, <1>3 DEF Listed

LEMMA SizeReplyOK ==
    ASSUME Waiting, NEW m \in Reply, sync.step = "size", HandleCfgSizeReply(m)
    PROVE  Handled
<1> DEFINE s == [sync EXCEPT !.total = m.value]
<1>1. /\ sync \in Sync /\ Standing(sync) /\ AtStep(sync) /\ Surroundings
  BY WaitingAtTarget
<1>2. UNCHANGED <<image, streak, latched, serials>>
  BY DEF HandleCfgSizeReply
<1>3. sync.op \in {"verify", "apply", "read_all", "periodic", "ign_block"} /\ sync.sub = "read"
  BY <1>1 DEF AtStep
<1>4. CASE m.value \notin 1 .. Words \/ (sync.op = "apply" /\ m.value # Words)
  <2>1. s.op = sync.op
    BY <1>1 DEF Sync
  <2>2. Fail
    BY <1>4, <2>1 DEF HandleCfgSizeReply
  <2>3. Sent /\ sync'.op = sync.op /\ sync'.targets = sync.targets
    BY <2>2, FailOK
  <2> QED
    BY <1>2, <2>3, ImageStays, RestStays DEF Handled
<1>5. CASE ~(m.value \notin 1 .. Words \/ (sync.op = "apply" /\ m.value # Words))
  <2>1. m.value \in 1 .. Words /\ m.value \in 0 .. Words
    BY <1>5, WordsOK
  <2>2. s \in Sync /\ SameTarget(sync, s) /\ s.total = m.value /\ s.sub = sync.sub
    BY <1>1, <2>1 DEF Sync, SameTarget
  <2>3. Standing(s)
    BY <1>1, <2>2 DEF Standing, Working, SameTarget
  <2>4. s.op = sync.op /\ s.slot = sync.slot /\ s.targets = sync.targets
    BY <2>2 DEF SameTarget
  <2>5. CASE sync.op \in {"read_all", "ign_block"}
    <3>1. AskWord(s, 0)
      BY <1>5, <2>5, <2>4 DEF HandleCfgSizeReply
    <3> HIDE DEF s
    <3>2. Sent /\ sync'.op = s.op /\ sync'.targets = s.targets
      BY <1>1, <1>3, <2>1, <2>2, <2>3, <2>4, <2>5, <3>1, AskWordOK, WordsOK DEF Surroundings
    <3> QED
      BY <1>2, <2>4, <3>2, ImageStays, RestStays DEF Handled
  <2>6. CASE sync.op \in {"verify", "periodic"}
    <3> DEFINE u == [s EXCEPT !.expected = ExpectedConfig(s)]
    <3>1. SendReq(u, "crc", "crc", 0, 0)
      BY <1>5, <2>6, <2>4 DEF HandleCfgSizeReply
    <3> HIDE DEF s
    <3>2. ExpectedConfig(s) \in Config
      BY <1>3, <2>4, SlotInUse DEF ExpectedConfig
    <3>3. u \in Sync /\ SameTarget(s, u)
      BY <2>2, <3>2 DEF Sync, SameTarget
    <3> HIDE DEF u
    <3>4. Standing(u) /\ u.op = s.op /\ u.targets = s.targets
      BY <2>3, <3>3 DEF Standing, Working, SameTarget
    <3>5. Sent /\ sync'.op = u.op /\ sync'.targets = u.targets
      BY <1>1, <2>4, <2>6, <3>1, <3>4, SendCrcOK DEF Surroundings
    <3> QED
      BY <1>2, <2>4, <3>4, <3>5, ImageStays, RestStays DEF Handled
  <2>7. CASE sync.op = "apply"
    <3>1. SetWord(s, 0, image[s.slot])
      BY <1>5, <2>7, <2>4 DEF HandleCfgSizeReply
    <3> HIDE DEF s
    <3>2. image[s.slot] \in Config /\ image[s.slot].zone \in Zones
      BY <1>3, <2>4, SlotInUse
    <3>3. Sent /\ sync'.op = s.op /\ sync'.targets = s.targets
      BY <1>1, <2>1, <2>2, <2>3, <2>4, <2>7, <3>1, <3>2, SetWordOK, WordsOK DEF Surroundings
    <3> QED
      BY <1>2, <2>4, <3>3, ImageStays, RestStays DEF Handled
  <2> QED
    BY <1>3, <2>5, <2>6, <2>7
<1> QED
  BY <1>4, <1>5

\* The record of the operation with other working data.
LEMMA AtSameTarget ==
    ASSUME NEW s \in Sync, NEW t \in Sync, SameTarget(s, t)
    PROVE  /\ Standing(s) => Standing(t)
           /\ Ending(s) => Ending(t)
           /\ t.op = s.op /\ t.targets = s.targets /\ t.slot = s.slot
BY DEF SameTarget, Standing, Ending, Working, Listed

LEMMA NextOK ==
    ASSUME NEW s, Ending(s), Surroundings, NextTargetOrFinish(s)
    PROVE  Sent /\ sync'.op = s.op /\ sync'.targets = s.targets
BY NextTargetOK

\* A slot of the image gets the words that were read.
LEMMA ImageGets ==
    ASSUME Waiting, sync.op # "uid", NEW c \in Config, c.zone \in Zones,
           image' = [image EXCEPT ![sync.slot] = c]
    PROVE  /\ image' \in [Slot -> Config]
           /\ \A t \in Slot : image'[t] = Blank \/ image'[t].zone \in Zones
           /\ sync.op # "uid" => \A i \in 1 .. Len(sync.targets) : image'[sync.targets[i]] # Blank
<1>1. /\ sync \in Sync /\ AtTarget(sync) /\ Listed(image, sync) /\ image \in [Slot -> Config]
      /\ sync.slot \in Slot /\ sync.targets \in Seq(Slot)
  BY WaitingAtTarget, SyncFields DEF Surroundings
<1>2. c # Blank
  <2>1. 0 \notin Zones
    BY ConstantsAssumption
  <2> QED
    BY <2>1 DEF Blank
<1>3. \A t \in Slot : image'[t] = IF t = sync.slot THEN c ELSE image[t]
  BY <1>1
<1>4. \A i \in 1 .. Len(sync.targets) : sync.targets[i] \in Slot /\ image[sync.targets[i]] # Blank
  BY <1>1 DEF Listed, AtTarget, Working
<1>5. \A t \in Slot : image[t] = Blank \/ image[t].zone \in Zones
  BY <1>1 DEF Listed
<1>6. image' \in [Slot -> Config]
  BY <1>1
<1> QED
  BY <1>2, <1>3, <1>4, <1>5, <1>6

LEMMA PatchedOK ==
    ASSUME NEW c \in Config, NEW z
    PROVE  Patched(c, z) \in Config /\ Patched(c, z).zone = c.zone
BY DEF Patched, Expected, Config, Free, Blocked

LEMMA WordReplyOK ==
    ASSUME Waiting, NEW m \in Reply, m.cmd = "get", sync.step = "word", HandleCfgWordReply(m)
    PROVE  Handled
<1> DEFINE s == [sync EXCEPT !.rx[Field[m.word + 1]] = m.value, !.word = @ + 1]
<1>1. /\ sync \in Sync /\ Standing(sync) /\ AtStep(sync) /\ Surroundings /\ Ending(sync)
  BY WaitingAtTarget
<1>2. UNCHANGED <<streak, latched>>
  BY DEF HandleCfgWordReply
<1>3. /\ sync.op \in {"uid", "read_all", "ign_block"} /\ sync.sub \in {"read", "readback"}
      /\ sync.word < sync.total
      /\ sync.word > 0 => sync.rx.zone \in Zones
      /\ sync.word \in Nat /\ sync.total \in 0 .. Words /\ sync.rx \in Config
  BY <1>1, SyncFields, WordsOK DEF AtStep
<1>4. CASE ~Awaited(m)
  <2>1. UNCHANGED <<sync, requests, image, serials>>
    BY <1>4 DEF HandleCfgWordReply
  <2>2. sync' \in Sync /\ Stage(sync') /\ requests' \in Seq(Request)
    BY <1>1, <2>1 DEF Waiting, Inv
  <2> QED
    BY <1>2, <2>1, <2>2, ImageStays, RestStays DEF Handled, Sent
<1>5. CASE Awaited(m)
  <2>1. m.word = sync.word /\ Fits(m.word, m.value)
    BY <1>5 DEF Awaited, Reply
  <2> DEFINE rx == [sync.rx EXCEPT ![Field[m.word + 1]] = m.value]
  <2>2. rx \in Config /\ rx.zone \in Zones
    BY <1>3, <2>1, FieldOK
  <2>3. s.rx = rx /\ s.word = sync.word + 1
    BY <1>1 DEF Sync
  <2> HIDE DEF rx
  <2>4. s = [sync EXCEPT !.rx = rx, !.word = sync.word + 1]
    BY <1>1 DEF Sync, rx
  <2>5. sync.word + 1 \in 0 .. Words /\ sync.word + 1 \in Nat /\ sync.word + 1 <= sync.total
    BY <1>3, WordsOK
  <2> HIDE DEF s
  <2>6. s \in Sync /\ SameTarget(sync, s) /\ s.total = sync.total /\ s.sub = sync.sub
        /\ s.zone = sync.zone
    BY <1>1, <2>2, <2>4, <2>5 DEF Sync, SameTarget
  <2>7. /\ Standing(s) /\ Ending(s) /\ s.op = sync.op /\ s.targets = sync.targets
        /\ s.slot = sync.slot
    BY <1>1, <2>6, AtSameTarget
  <2>8. CASE s.word < s.total
    <3>1. AskWord(s, s.word) /\ UNCHANGED <<image, serials>>
      BY <1>5, <2>8 DEF HandleCfgWordReply, s
    <3>2. Sent /\ sync'.op = s.op /\ sync'.targets = s.targets
      BY <1>1, <1>3, <2>2, <2>3, <2>5, <2>6, <2>7, <2>8, <3>1, AskWordOK DEF Surroundings
    <3> QED
      BY <1>2, <2>7, <3>1, <3>2, ImageStays, RestStays DEF Handled
  <2>9. CASE ~(s.word < s.total)
    <3>1. WordsRead(s)
      BY <1>5, <2>9 DEF HandleCfgWordReply, s
    <3>2. CASE s.op = "uid"
      <4>1. NextTargetOrFinish(s) /\ serials' = serials \cup {s.slot} /\ UNCHANGED image
        BY <3>1, <3>2 DEF WordsRead
      <4>2. Sent /\ sync'.op = s.op /\ sync'.targets = s.targets
        BY <1>1, <2>7, <4>1, NextOK
      <4>3. s.slot \in Slot
        BY <2>6, SyncFields
      <4> QED
        BY <1>2, <2>7, <4>1, <4>2, <4>3, ImageStays, RestStays DEF Handled
    <3>3. CASE s.op = "read_all" \/ (s.op = "ign_block" /\ s.sub = "readback")
      <4>1. /\ NextTargetOrFinish(s) /\ image' = [image EXCEPT ![s.slot] = s.rx]
            /\ UNCHANGED serials
        BY <3>1, <3>3 DEF WordsRead
      <4>2. Sent /\ sync'.op = s.op /\ sync'.targets = s.targets
        BY <1>1, <2>7, <4>1, NextOK
      <4>3. /\ image' \in [Slot -> Config]
            /\ \A t \in Slot : image'[t] = Blank \/ image'[t].zone \in Zones
            /\ sync.op # "uid" => \A i \in 1 .. Len(sync.targets) : image'[sync.targets[i]] # Blank
        BY <2>2, <2>3, <2>7, <3>3, <4>1, ImageGets
      <4> QED
        BY <1>2, <2>7, <4>1, <4>2, <4>3, RestStays DEF Handled
    <3>4. CASE s.op = "ign_block" /\ s.sub = "read"
      <4> DEFINE config == Patched(s.rx, s.zone)
                 u == [s EXCEPT !.sub = "apply"]
      <4>1. /\ IF config = s.rx THEN NextTargetOrFinish(s) ELSE SetWord(u, 0, config)
            /\ image' = [image EXCEPT ![s.slot] = config]
            /\ UNCHANGED serials
        BY <3>1, <3>4 DEF WordsRead
      <4>2. config \in Config /\ config.zone \in Zones
        BY <2>2, <2>3, PatchedOK
      <4> HIDE DEF config
      <4>3. /\ image' \in [Slot -> Config]
            /\ \A t \in Slot : image'[t] = Blank \/ image'[t].zone \in Zones
            /\ sync.op # "uid" => \A i \in 1 .. Len(sync.targets) : image'[sync.targets[i]] # Blank
        BY <2>7, <3>4, <4>1, <4>2, ImageGets
      <4>4. u \in Sync /\ SameTarget(s, u) /\ u.total = s.total
        BY <2>6 DEF Sync, SameTarget
      <4> HIDE DEF u
      <4>5. Standing(u) /\ u.op = s.op /\ u.targets = s.targets
        BY <2>6, <2>7, <4>4, AtSameTarget
      <4>6. 0 \in Nat /\ 0 < u.total
        BY <1>3, <2>6, <4>4, WordsOK
      <4>7. Sent /\ sync'.op = s.op /\ sync'.targets = s.targets
        <5>1. CASE config = s.rx
          BY <1>1, <2>7, <4>1, <5>1, NextOK
        <5>2. CASE config # s.rx
          BY <1>1, <3>4, <4>1, <4>2, <4>5, <4>6, <5>2, SetWordOK DEF Surroundings
        <5> QED
          BY <5>1, <5>2
      <4> QED
        BY <1>2, <2>7, <4>1, <4>3, <4>7, RestStays DEF Handled
    <3> QED
      BY <1>3, <2>6, <2>7, <3>2, <3>3, <3>4
  <2>10. s.word \in Nat /\ s.total \in Nat
    BY <1>3, <2>3, <2>6, WordsOK
  <2> QED
    BY <2>8, <2>9
<1> QED
  BY <1>4, <1>5

LEMMA CrcReplyOK ==
    ASSUME Waiting, NEW m \in Reply, sync.step \in {"crc", "readback"}, HandleCfgCrcReply(m)
    PROVE  Handled
<1> DEFINE match == m.config = sync.expected
<1>1. /\ sync \in Sync /\ Standing(sync) /\ AtStep(sync) /\ Surroundings /\ Ending(sync)
  BY WaitingAtTarget
<1>2. /\ UNCHANGED <<image, serials>>
      /\ IF sync.op = "periodic" THEN OnPeriodicCrcResult(sync.slot, match)
         ELSE UNCHANGED <<streak, latched>>
  BY DEF HandleCfgCrcReply
<1>3. sync.slot \in Slot /\ match \in BOOLEAN
  BY <1>1, SyncFields
<1> HIDE DEF match
<1>4. streak' \in [Slot -> 0 .. 2] /\ latched' \in [Slot -> BOOLEAN] /\ serials' \subseteq Slot
  <2>1. CASE sync.op = "periodic"
    <3>1. /\ streak' = [streak EXCEPT ![sync.slot] = IF match THEN 0 ELSE IF @ < 2 THEN @ + 1 ELSE 2]
          /\ latched' = [latched EXCEPT ![sync.slot] = ~match /\ (@ \/ streak[sync.slot] >= 1)]
      BY <1>2, <2>1 DEF OnPeriodicCrcResult
    <3>2. streak' \in [Slot -> 0 .. 2]
      BY <1>3, <3>1, RestStays
    <3>3. latched' \in [Slot -> BOOLEAN]
      BY <1>3, <3>1, RestStays, Zenon
    <3> QED
      BY <1>2, <3>2, <3>3, RestStays
  <2>2. CASE sync.op # "periodic"
    BY <1>2, <2>2, RestStays
  <2> QED
    BY <2>1, <2>2
<1>5. sync.op \in {"verify", "periodic", "apply", "ign_block"}
  BY <1>1 DEF AtStep
<1>6. Sent /\ sync'.op = sync.op /\ sync'.targets = sync.targets
  <2>1. CASE NextTargetOrFinish(sync)
    BY <1>1, <2>1, NextOK
  <2>2. CASE Fail
    BY <2>2, FailOK
  <2>3. CASE sync.op = "ign_block" /\ AskWord([sync EXCEPT !.sub = "readback"], 0)
    <3> DEFINE u == [sync EXCEPT !.sub = "readback"]
    <3>1. u \in Sync /\ SameTarget(sync, u) /\ u.total = sync.total /\ u.sub = "readback"
      BY <1>1 DEF Sync, SameTarget
    <3> HIDE DEF u
    <3>2. Standing(u) /\ u.op = sync.op /\ u.targets = sync.targets
      BY <1>1, <3>1, AtSameTarget
    <3>3. AskWord(u, 0)
      BY <2>3 DEF u
    <3>4. u.total > 0
      BY <1>1, <2>3, <3>1 DEF AtStep
    <3> QED
      BY <1>1, <2>3, <3>1, <3>2, <3>3, <3>4, AskWordOK DEF Surroundings
  <2> QED
    BY <1>5, <2>1, <2>2, <2>3 DEF HandleCfgCrcReply
<1> QED
  BY <1>2, <1>4, <1>6, ImageStays DEF Handled

LEMMA SetReplyOK ==
    ASSUME Waiting, NEW m \in Reply, sync.step = "set", HandleSetCfgWordReply(m)
    PROVE  Handled
<1> DEFINE s == [sync EXCEPT !.word = @ + 1]
           config == image[sync.slot]
<1>1. /\ sync \in Sync /\ Standing(sync) /\ AtStep(sync) /\ Surroundings
  BY WaitingAtTarget
<1>2. UNCHANGED <<image, streak, latched, serials>>
  BY DEF HandleSetCfgWordReply
<1>3. /\ sync.op \in {"apply", "ign_block"} /\ sync.word < sync.total
      /\ sync.word \in Nat /\ sync.total \in 0 .. Words /\ sync.total \in Nat
  BY <1>1, SyncFields, WordsOK DEF AtStep
<1>4. config \in Config /\ config.zone \in Zones
  BY <1>3, SlotInUse
<1>5. sync.word + 1 \in 0 .. Words /\ sync.word + 1 \in Nat
  BY <1>3, WordsOK
<1>6. s \in Sync /\ SameTarget(sync, s) /\ s.total = sync.total /\ s.word = sync.word + 1
  BY <1>1, <1>5 DEF Sync, SameTarget
<1>7. /\ \/ UNCHANGED <<sync, requests>>
         \/ Fail
         \/ s.word < s.total /\ SetWord(s, s.word, config)
         \/ SendReq(s, "save", "save", 0, 0)
  BY DEF HandleSetCfgWordReply
<1> HIDE DEF s, config
<1>8. Standing(s) /\ s.op = sync.op /\ s.targets = sync.targets
  BY <1>1, <1>6, AtSameTarget
<1>9. Sent /\ sync'.op = sync.op /\ sync'.targets = sync.targets
  <2>1. CASE UNCHANGED <<sync, requests>>
    BY <2>1 DEF Waiting, Inv, Sent
  <2>2. CASE Fail
    BY <2>2, FailOK
  <2>3. CASE s.word < s.total /\ SetWord(s, s.word, config)
    BY <1>1, <1>3, <1>4, <1>5, <1>6, <1>8, <2>3, SetWordOK DEF Surroundings
  <2>4. CASE SendReq(s, "save", "save", 0, 0)
    BY <1>1, <1>3, <1>6, <1>8, <2>4, SendSaveOK DEF Surroundings
  <2> QED
    BY <1>7, <2>1, <2>2, <2>3, <2>4
<1> QED
  BY <1>2, <1>9, ImageStays, RestStays DEF Handled

LEMMA SaveReplyOK ==
    ASSUME Waiting, sync.step = "save", HandleSaveReply
    PROVE  Handled
<1> DEFINE u == [sync EXCEPT !.zone = image[sync.slot].zone, !.expected = image[sync.slot]]
<1>1. /\ sync \in Sync /\ Standing(sync) /\ AtStep(sync) /\ Surroundings
  BY WaitingAtTarget
<1>2. UNCHANGED <<image, streak, latched, serials>> /\ SendReq(u, "readback", "crc", 0, 0)
  BY DEF HandleSaveReply
<1>3. sync.op \in {"apply", "ign_block"} /\ sync.total > 0
  BY <1>1 DEF AtStep
<1>4. image[sync.slot] \in Config /\ image[sync.slot].zone \in Zones
  BY <1>3, SlotInUse
<1>5. u \in Sync /\ SameTarget(sync, u) /\ u.total = sync.total
  BY <1>1, <1>4 DEF Sync, SameTarget
<1> HIDE DEF u
<1>6. Standing(u) /\ u.op = sync.op /\ u.targets = sync.targets
  BY <1>1, <1>5, AtSameTarget
<1>7. Sent /\ sync'.op = u.op /\ sync'.targets = u.targets
  BY <1>1, <1>2, <1>3, <1>5, <1>6, SendCrcOK DEF Surroundings
<1> QED
  BY <1>2, <1>6, <1>7, ImageStays, RestStays DEF Handled
-----------------------------------------------------------------------------
(* The steps of the panel. *)

\* The types of what is neither the operation nor the image.
Others ==
    /\ blocked \subseteq Zones /\ active \in [Slot -> Zones \cup {Offline}]
    /\ pending \in BOOLEAN /\ boot \in {"unseen", "seen", "started", "done"}
    /\ streak \in [Slot -> 0 .. 2] /\ latched \in [Slot -> BOOLEAN] /\ serials \subseteq Slot
    /\ replies \in Seq(Reply) /\ mcu \in [Slot -> Mcu]

LEMMA InvOthers ==
    ASSUME Inv
    PROVE  /\ Others /\ sync \in Sync /\ Stage(sync) /\ Listed(image, sync)
           /\ image \in [Slot -> Config] /\ requests \in Seq(Request)
BY DEF Inv, TypeOK, Others, Mcu

LEMMA Assemble ==
    ASSUME Sent, Listed(image', sync'), image' \in [Slot -> Config], Others'
    PROVE  Inv'
<1>1. sync' \in Sync /\ Stage(sync') /\ requests' \in Seq(Request)
  BY DEF Sent
<1>2. /\ sync'.targets \in Seq(Slot) /\ sync'.failed \in Nat /\ sync'.word \in 0 .. Words
      /\ sync'.pos \in Nat /\ sync'.retries \in Nat /\ Len(sync'.targets) \in Nat
  <2>1. \A s \in Sync : /\ s.targets \in Seq(Slot) /\ s.failed \in Nat /\ s.word \in 0 .. Words
                        /\ s.pos \in Nat /\ s.retries \in Nat
    BY DEF Sync
  <2> QED
    BY <1>1, <2>1
<1>3. sync'.word <= Words
  BY <1>2, WordsOK
<1>4. /\ sync'.busy => (sync'.step = "idle" <=> ~sync'.waiting)
      /\ sync'.failed <= Len(sync'.targets)
      /\ sync'.retries <= IF sync'.step = "save" THEN SaveRetries ELSE RequestRetries
  <2>1. CASE Resting(sync')
    BY <1>2, <2>1, ConstantsAssumption DEF Resting
  <2>2. CASE Begun(sync')
    BY <1>2, <2>2, ConstantsAssumption DEF Begun, Working
  <2>3. CASE AtTarget(sync') /\ AtStep(sync')
    BY <1>2, <2>3 DEF AtTarget, AtStep, Working
  <2> QED
    BY <1>1, <2>1, <2>2, <2>3 DEF Stage
<1>5. requests' \in Seq(Message)
  BY <1>1 DEF Request
<1>6. TypeOK'
  BY <1>2, <1>3, <1>4, <1>5 DEF TypeOK, Others, Mcu, MaxRetries
<1> QED
  BY <1>1, <1>6 DEF Inv, Others

LEMMA HeardOK ==
    ASSUME NEW s \in Slot, NEW z \in Zones, active \in [Slot -> Zones \cup {Offline}], Heard(s, z)
    PROVE  active' \in [Slot -> Zones \cup {Offline}]
BY DEF Heard

LEMMA ListenerInv ==
    ASSUME Inv, OnListenerMessage
    PROVE  Inv'
<1> DEFINE m == Head(replies)
<1>1. /\ m \in Reply /\ replies' \in Seq(Reply)
  BY TakeOK, InvOthers DEF OnListenerMessage, Others
<1>2. m.slot \in Slot /\ m.zone \in Zones
  BY <1>1 DEF Reply
<1>3. active' \in [Slot -> Zones \cup {Offline}]
  BY <1>2, HeardOK, InvOthers DEF OnListenerMessage, Others
<1>4. UNCHANGED <<blocked, pending, boot, mcu>>
  BY DEF OnListenerMessage
<1> DEFINE idle == ~sync.waiting \/ m.slot # sync.slot \/ m.zone # sync.zone \/ m.cmd # sync.cmd
<1>5. CASE idle
  <2>1. UNCHANGED <<sync, requests, image, streak, latched, serials>>
    BY <1>5 DEF OnListenerMessage
  <2>2. Sent /\ Listed(image', sync') /\ image' \in [Slot -> Config]
    BY <2>1, InvOthers DEF Sent
  <2>3. Others'
    BY <1>1, <1>3, <1>4, <2>1, InvOthers DEF Others
  <2> QED
    BY <2>2, <2>3, Assemble
<1>6. CASE ~idle
  <2>1. Waiting /\ m.cmd = sync.cmd
    BY <1>6, InvOthers, SyncFields DEF Waiting
  <2>2. AtStep(sync) /\ AtTarget(sync)
    BY <2>1, WaitingAtTarget
  <2>3. (CASE sync.step = "size" -> HandleCfgSizeReply(m)
           [] sync.step = "word" -> HandleCfgWordReply(m)
           [] sync.step \in {"crc", "readback"} -> HandleCfgCrcReply(m)
           [] sync.step = "set" -> HandleSetCfgWordReply(m)
           [] sync.step = "save" -> HandleSaveReply)
    BY <1>6 DEF OnListenerMessage
  <2> HIDE DEF m, idle
  <2>4. Handled
    <3>1. CASE sync.step = "size"
      BY <1>1, <2>1, <2>3, <3>1, SizeReplyOK
    <3>2. CASE sync.step = "word"
      <4>1. m.cmd = "get"
        BY <2>1, <2>2, <3>2 DEF AtStep
      <4> QED
        BY <1>1, <2>1, <2>3, <3>2, <4>1, WordReplyOK
    <3>3. CASE sync.step \in {"crc", "readback"}
      BY <1>1, <2>1, <2>3, <3>3, CrcReplyOK
    <3>4. CASE sync.step = "set"
      BY <1>1, <2>1, <2>3, <3>4, SetReplyOK
    <3>5. CASE sync.step = "save"
      BY <2>1, <2>3, <3>5, SaveReplyOK
    <3> QED
      BY <2>2, <3>1, <3>2, <3>3, <3>4, <3>5 DEF AtStep
  <2>5. Listed(image', sync')
    BY <2>4, InvOthers DEF Handled, Listed
  <2>6. Others'
    BY <1>1, <1>3, <1>4, <2>4, InvOthers DEF Others, Handled
  <2> QED
    BY <2>4, <2>5, <2>6, Assemble DEF Handled
<1> QED
  BY <1>5, <1>6

\* Below it A is a set of naturals that begins at 0 and has no gap.
LEMMA SetInduction ==
    ASSUME NEW A, 0 \in A, \A n \in Nat : n \in A => n + 1 \in A
    PROVE  \A n \in Nat : n \in A
<1> DEFINE S == {n \in Nat : n \notin A}
<1> SUFFICES ASSUME S # {} PROVE FALSE
  OBVIOUS
<1>1. PICK n \in S : \A m \in S : ~(<<m, n>> \in OpToRel(<, Nat))
  <2>1. S \subseteq Nat
    OBVIOUS
  <2> HIDE DEF S
  <2> QED
    BY <2>1, WFMin, NatLessThanWellFounded, Zenon
<1>2. \A m \in S : ~(m < n)
  <2>1. \A m \in S : m \in Nat
    OBVIOUS
  <2> HIDE DEF S
  <2> QED
    BY <1>1, <2>1, Zenon DEF OpToRel
<1>3. n - 1 \in Nat /\ n - 1 < n /\ n - 1 + 1 = n /\ n \notin A
  <2>1. n \in Nat /\ n \notin A
    BY <1>1
  <2>2. n # 0
    BY <2>1
  <2> HIDE DEF S
  <2> QED
    BY <2>1, <2>2
<1>4. n - 1 \in S
  BY <1>1, <1>3
<1> QED
  BY <1>2, <1>3, <1>4

Rising(q) == \A i, j \in DOMAIN q : i < j => q[i] < q[j]

LEMMA InOrderOK ==
    ASSUME NEW S, S \subseteq Slot
    PROVE  /\ InOrder(S) \in Seq(S)
           /\ \A i, j \in 1 .. Len(InOrder(S)) : InOrder(S)[i] = InOrder(S)[j] => i = j
<1> DEFINE T(n) == S \cap (1 .. n)
           A == {n \in Nat : \E q \in [1 .. Cardinality(T(n)) -> T(n)] : Rising(q)}
<1>1. \A n \in Nat : IsFiniteSet(T(n)) /\ Cardinality(T(n)) \in Nat
  <2> TAKE n \in Nat
  <2>1. IsFiniteSet(1 .. n)
    BY FS_Interval
  <2>2. IsFiniteSet(T(n))
    BY <2>1, FS_Intersection
  <2> QED
    BY <2>2, FS_CardinalityType
<1>2. 0 \in A
  <2>1. T(0) = {}
    OBVIOUS
  <2>2. Cardinality(T(0)) = 0
    BY <2>1, FS_EmptySet
  <2>3. 1 .. Cardinality(T(0)) = {}
    BY <2>2
  <2> DEFINE q == [i \in 1 .. Cardinality(T(0)) |-> 0]
  <2>4. q \in [1 .. Cardinality(T(0)) -> T(0)] /\ Rising(q)
    BY <2>3 DEF Rising
  <2> QED
    BY <2>4
<1>3. ASSUME NEW n \in Nat, n \in A
      PROVE  n + 1 \in A
  <2>1. PICK q \in [1 .. Cardinality(T(n)) -> T(n)] : Rising(q)
    BY <1>3
  <2> DEFINE c == Cardinality(T(n))
  <2>2. c \in Nat /\ IsFiniteSet(T(n))
    BY <1>1
  <2>3. CASE n + 1 \notin S
    <3>1. T(n + 1) = T(n)
      BY <2>3
    <3>2. n + 1 \in Nat /\ \E r \in [1 .. Cardinality(T(n + 1)) -> T(n + 1)] : Rising(r)
      <4> HIDE DEF T
      <4> QED
        BY <2>1, <3>1
    <3> QED
      BY <3>2
  <2>4. CASE n + 1 \in S
    <3>1. T(n + 1) = T(n) \cup {n + 1} /\ n + 1 \notin T(n)
      BY <2>4
    <3>2. Cardinality(T(n + 1)) = c + 1
      BY <2>2, <3>1, FS_AddElement
    <3> DEFINE r == [i \in 1 .. c + 1 |-> IF i = c + 1 THEN n + 1 ELSE q[i]]
    <3>7. \A k \in T(n) : k \in Nat /\ k < n + 1
      OBVIOUS
    <3> HIDE DEF T, c
    <3>3. \A i \in 1 .. c : q[i] \in T(n) /\ q[i] \in Nat /\ q[i] < n + 1
      BY <2>1, <3>7 DEF c
    <3>4. r \in [1 .. c + 1 -> T(n + 1)]
      BY <2>2, <3>1, <3>3
    <3>5. \A i, j \in 1 .. c : i < j => q[i] < q[j]
      BY <2>1 DEF Rising, c
    <3>6. Rising(r)
      <4> SUFFICES ASSUME NEW i \in 1 .. c + 1, NEW j \in 1 .. c + 1, i < j
                   PROVE  r[i] < r[j]
        BY DEF Rising
      <4>1. i \in 1 .. c /\ r[i] = q[i]
        BY <2>2
      <4>2. CASE j = c + 1
        BY <3>3, <4>1, <4>2
      <4>3. CASE j # c + 1
        <5>1. j \in 1 .. c /\ r[j] = q[j]
          BY <2>2, <4>3
        <5> QED
          BY <3>5, <4>1, <5>1
      <4> QED
        BY <4>2, <4>3
    <3> HIDE DEF r
    <3>8. \E t \in [1 .. Cardinality(T(n + 1)) -> T(n + 1)] : Rising(t)
      BY <3>2, <3>4, <3>6
    <3>9. n + 1 \in Nat
      OBVIOUS
    <3> QED
      BY <3>8, <3>9
  <2> QED
    BY <2>3, <2>4
<1>4. NSlots \in Nat /\ NSlots \in A
  <2> HIDE DEF A
  <2> QED
    BY <1>2, <1>3, SetInduction, ConstantsAssumption
<1>5. T(NSlots) = S
  BY DEF Slot
<1>6. \E q \in [1 .. Cardinality(S) -> S] : Rising(q)
  BY <1>4, <1>5
<1>7. InOrder(S) \in [1 .. Cardinality(S) -> S] /\ Rising(InOrder(S))
  BY <1>6 DEF InOrder, Rising
<1>8. Cardinality(S) \in Nat
  BY <1>1, <1>4, <1>5
<1>9. InOrder(S) \in Seq(S) /\ DOMAIN InOrder(S) = 1 .. Len(InOrder(S))
  BY <1>7, <1>8
<1>10. ASSUME NEW i \in 1 .. Len(InOrder(S)), NEW j \in 1 .. Len(InOrder(S)),
              InOrder(S)[i] = InOrder(S)[j]
       PROVE  i = j
  <2>1. /\ i < j => InOrder(S)[i] < InOrder(S)[j]
        /\ j < i => InOrder(S)[j] < InOrder(S)[i]
    BY <1>7, <1>9 DEF Rising
  <2>2. InOrder(S)[i] \in Nat
    <3>1. InOrder(S)[i] \in S
      BY <1>9
    <3>2. Slot \subseteq Nat
      BY DEF Slot
    <3> QED
      BY <3>1, <3>2
  <2> QED
    BY <1>10, <2>1, <2>2
<1> QED
  BY <1>9, <1>10

LEMMA TargetsOK ==
    ASSUME NEW S, S \subseteq Slot
    PROVE  InOrder(S) \in Seq(Slot) /\ \A i \in 1 .. Len(InOrder(S)) : InOrder(S)[i] \in S
BY InOrderOK

LEMMA StartedOK ==
    ASSUME NEW op \in Op \ {"none"}, NEW targets \in Seq(Slot)
    PROVE  LET t == Started(op, targets)
           IN  /\ t \in Sync /\ Stage(t) /\ t.op = op /\ t.targets = targets
               /\ t.busy = (targets # <<>>) /\ t.pos = 0 /\ t.failed = 0 /\ t.step = "idle"
               /\ t.success = (targets = <<>>) /\ ~t.waiting
               /\ t.unsure = {s \in Slot : targets # <<>> /\ HalfWritten(s)}
<1> DEFINE t == Started(op, targets)
           U == {s \in Slot : targets # <<>> /\ HalfWritten(s)}
           b == (targets # <<>>)
           e == (targets = <<>>)
<1>1. t = [NoSync EXCEPT !.busy = b, !.op = op, !.targets = targets, !.success = e, !.unsure = U]
  BY DEF Started
<1>2. U \subseteq Slot /\ b \in BOOLEAN /\ e \in BOOLEAN /\ (b <=> ~e) /\ op \in Op
  OBVIOUS
<1>3. NoSync \in Sync /\ NoSync.pos = 0 /\ NoSync.sub = "read" /\ Resting(NoSync)
  BY NoSyncOK DEF NoSync
<1> HIDE DEF t, U, b, e
<1>4. /\ t \in Sync /\ t.op = op /\ t.targets = targets /\ t.busy = b /\ t.success = e
      /\ t.unsure = U /\ t.pos = NoSync.pos /\ t.failed = NoSync.failed /\ t.step = NoSync.step
      /\ t.waiting = NoSync.waiting /\ t.retries = NoSync.retries /\ t.word = NoSync.word
      /\ t.sub = NoSync.sub
  <2> DEFINE begun == [NoSync EXCEPT !.busy = b, !.op = op, !.targets = targets]
  <2>1. t \in Sync
    <3>1. begun \in Sync
      <4>1. [NoSync EXCEPT !.busy = b, !.op = op] \in Sync
        <5>1. NoSync \in Sync /\ b \in BOOLEAN /\ op \in Op
          BY <1>2, <1>3
        <5> QED
          BY <5>1 DEF Sync
      <4> QED
        BY <4>1 DEF Sync
    <3>2. t = [begun EXCEPT !.success = e, !.unsure = U]
      BY <1>1
    <3> HIDE DEF begun
    <3> QED
      BY <1>2, <3>1, <3>2 DEF Sync
  <2>2. /\ t.op = op /\ t.targets = targets /\ t.busy = b /\ t.success = e /\ t.unsure = U
    BY <1>1, <1>3 DEF Sync
  <2>3. /\ t.pos = NoSync.pos /\ t.failed = NoSync.failed /\ t.step = NoSync.step
        /\ t.waiting = NoSync.waiting /\ t.retries = NoSync.retries /\ t.word = NoSync.word
        /\ t.sub = NoSync.sub
    BY <1>1
  <2> QED
    BY <2>1, <2>2, <2>3
<1>5. Stage(t)
  <2>1. CASE b
    <3>1. Len(targets) \in Nat /\ 0 <= Len(targets)
      OBVIOUS
    <3> QED
      BY <1>3, <1>4, <2>1, <3>1 DEF Stage, Begun, Working, Resting, b
  <2>2. CASE ~b
    BY <1>3, <1>4, <2>2 DEF Stage, Resting
  <2> QED
    BY <2>1, <2>2
<1> QED
  BY <1>3, <1>4, <1>5 DEF t, U, b, e, Resting

LEMMA OthersStay ==
    ASSUME Others, UNCHANGED <<blocked, active, pending, boot, streak, latched, serials, replies, mcu>>
    PROVE  Others'
BY DEF Others

\* An operation is begun, or another one is under way.
LEMMA BeginInv ==
    ASSUME Inv, NEW op \in Op \ {"none", "uid"}, NEW targets \in Seq(Slot),
           sync' = IF sync.busy THEN sync ELSE Started(op, targets),
           ~sync.busy => \A i \in 1 .. Len(targets) : image'[targets[i]] # Blank,
           sync.busy => UNCHANGED image,
           image' \in [Slot -> Config], \A t \in Slot : image'[t] = Blank \/ image'[t].zone \in Zones,
           UNCHANGED requests, Others'
    PROVE  Inv'
<1>1. CASE sync.busy
  <2>1. sync' = sync /\ requests' = requests /\ image' = image
    BY <1>1
  <2>2. Sent /\ Listed(image', sync')
    BY <2>1, InvOthers DEF Sent
  <2> QED
    BY <2>2, Assemble
<1>2. CASE ~sync.busy
  <2>1. sync' \in Sync /\ Stage(sync') /\ sync'.op = op /\ sync'.targets = targets
    BY <1>2, StartedOK
  <2>2. Sent
    BY <2>1, InvOthers DEF Sent
  <2>3. Listed(image', sync')
    BY <1>2, <2>1 DEF Listed
  <2> QED
    BY <2>2, <2>3, Assemble
<1> QED
  BY <1>1, <1>2

LEMMA ImageOK ==
    ASSUME Inv
    PROVE  /\ image \in [Slot -> Config]
           /\ \A t \in Slot : image[t] = Blank \/ image[t].zone \in Zones
BY InvOthers DEF Listed

LEMMA VerifyApplyInv ==
    ASSUME Inv, ConfigSync_StartVerify \/ ConfigSync_StartApply
    PROVE  Inv'
<1>1. PICK op \in {"verify", "apply"} : StartCommon(op, ValidSlots) /\ UNCHANGED image
  BY DEF ConfigSync_StartVerify, ConfigSync_StartApply
<1>2. /\ sync' = IF sync.busy THEN sync ELSE Started(op, ValidSlots)
      /\ UNCHANGED <<blocked, active, pending, boot, streak, latched, serials, requests, replies, mcu>>
  BY <1>1 DEF StartCommon, wire
<1>3. ValidSlots \in Seq(Slot) /\ \A i \in 1 .. Len(ValidSlots) : image[ValidSlots[i]] # Blank
  <2> DEFINE S == {s \in Slot : IsValidCfgSlot(s)}
  <2>1. S \subseteq Slot /\ \A s \in S : image[s] # Blank
    BY DEF IsValidCfgSlot
  <2>2. ValidSlots = InOrder(S)
    BY DEF ValidSlots
  <2> HIDE DEF S
  <2> QED
    BY <2>1, <2>2, TargetsOK
<1>4. op \in Op \ {"none", "uid"}
  BY DEF Op
<1>5. Others'
  BY <1>2, OthersStay, InvOthers
<1> QED
  BY <1>1, <1>2, <1>3, <1>4, <1>5, ImageOK, BeginInv

LEMMA ReadAllInv ==
    ASSUME Inv, ConfigSync_StartReadAllAndSave
    PROVE  Inv'
<1> DEFINE S == {s \in Slot : active[s] # Offline}
           img == [s \in Slot |-> IF active[s] # Offline
                                  THEN [Blank EXCEPT !.zone = active[s]] ELSE Blank]
<1>1. /\ sync' = IF sync.busy THEN sync ELSE Started("read_all", InOrder(S))
      /\ UNCHANGED <<blocked, active, pending, boot, streak, latched, serials, requests, replies, mcu>>
      /\ image' = IF sync.busy THEN image ELSE img
  BY DEF ConfigSync_StartReadAllAndSave, StartCommon, wire
<1>2. S \subseteq Slot
  OBVIOUS
<1>3. Others'
  BY <1>1, OthersStay, InvOthers
<1>4. \A s \in Slot : active[s] # Offline => active[s] \in Zones
  BY InvOthers DEF Others
<1>5. Blank \in Config /\ 0 \notin Zones
  BY ConstantsAssumption DEF Blank, Config
<1>6. \A z \in Zones : LET c == [Blank EXCEPT !.zone = z]
                       IN  c \in Config /\ c.zone = z /\ c # Blank
  BY <1>5 DEF Blank, Config
<1>7. /\ img \in [Slot -> Config] /\ \A t \in Slot : img[t] = Blank \/ img[t].zone \in Zones
      /\ \A s \in S : img[s] # Blank
  BY <1>4, <1>5, <1>6
<1> HIDE DEF S, img
<1>8. InOrder(S) \in Seq(Slot) /\ \A i \in 1 .. Len(InOrder(S)) : InOrder(S)[i] \in S
  BY <1>2, TargetsOK
<1>9. "read_all" \in Op \ {"none", "uid"}
  BY DEF Op
<1>10. /\ ~sync.busy => \A i \in 1 .. Len(InOrder(S)) : image'[InOrder(S)[i]] # Blank
       /\ sync.busy => UNCHANGED image
       /\ image' \in [Slot -> Config] /\ \A t \in Slot : image'[t] = Blank \/ image'[t].zone \in Zones
  BY <1>1, <1>7, <1>8, ImageOK
<1> QED
  BY <1>1, <1>3, <1>8, <1>9, <1>10, BeginInv

LEMMA PeriodicInv ==
    ASSUME Inv, NEW s \in Slot, SchedulePeriodicCrc(s)
    PROVE  Inv'
<1>1. /\ sync' = IF sync.busy THEN sync ELSE Started("periodic", <<s>>)
      /\ UNCHANGED <<image, blocked, active, pending, boot, streak, latched, serials,
                     requests, replies, mcu>>
      /\ image[s] # Blank
  BY DEF SchedulePeriodicCrc, StartCommon, wire, IsValidCfgSlot
<1>2. <<s>> \in Seq(Slot) /\ \A i \in 1 .. Len(<<s>>) : image'[<<s>>[i]] # Blank
  BY <1>1
<1>3. "periodic" \in Op \ {"none", "uid"}
  BY DEF Op
<1>4. Others'
  BY <1>1, OthersStay, InvOthers
<1> QED
  BY <1>1, <1>2, <1>3, <1>4, ImageOK, BeginInv

LEMMA RemoteUidInv ==
    ASSUME Inv, NEW s \in Slot, RequestRemoteUid(s)
    PROVE  Inv'
<1> DEFINE q == <<s>>
           t == Started("uid", q)
<1>1. /\ sync' = [t EXCEPT !.zone = active[s]] /\ active[s] \in Zones \cup {0}
      /\ UNCHANGED <<image, blocked, active, pending, boot, streak, latched, serials,
                     requests, replies, mcu>>
  BY InvOthers DEF RequestRemoteUid, Others, wire, Offline
<1>2. "uid" \in Op \ {"none"} /\ q \in Seq(Slot) /\ Len(q) = 1
  BY DEF Op
<1> HIDE DEF q
<1>3. t \in Sync /\ Stage(t) /\ t.op = "uid" /\ t.targets = q /\ t.step = "idle" /\ ~t.waiting
  BY <1>2, StartedOK
<1> HIDE DEF t
<1>4. /\ sync' \in Sync /\ sync'.op = "uid" /\ sync'.targets = q /\ sync'.step = t.step
      /\ sync'.waiting = t.waiting /\ sync'.busy = t.busy /\ sync'.pos = t.pos
      /\ sync'.failed = t.failed /\ sync'.retries = t.retries /\ sync'.word = t.word
      /\ sync'.sub = t.sub
  BY <1>1, <1>3 DEF Sync
<1>5. Stage(sync')
  BY <1>3, <1>4 DEF Stage, Resting, Begun, Working, AtTarget
<1>6. Sent /\ Listed(image', sync')
  BY <1>1, <1>2, <1>4, <1>5, InvOthers, ImageOK DEF Sent, Listed
<1>7. Others'
  BY <1>1, OthersStay, InvOthers
<1> QED
  BY <1>1, <1>6, <1>7, ImageOK, Assemble

LEMMA ProcessInv ==
    ASSUME Inv, ConfigSync_Process1ms
    PROVE  Inv'
<1>1. /\ sync \in Sync /\ Stage(sync) /\ Listed(image, sync) /\ Surroundings /\ sync.busy
      /\ UNCHANGED <<image, blocked, active, pending, boot, streak, latched, serials, replies, mcu>>
  BY InvOthers DEF ConfigSync_Process1ms, Surroundings, Others
<1>2. Others' /\ image' = image
  BY <1>1, OthersStay, InvOthers
<1>3. Sent /\ sync'.op = sync.op /\ sync'.targets = sync.targets
  <2>1. CASE sync.step = "idle" /\ sync.op = "uid" /\ StartUid(sync)
    <3> DEFINE u == [sync EXCEPT !.pos = 1, !.slot = sync.targets[1], !.total = Words]
    <3>1. Begun(sync) /\ Len(sync.targets) = 1 /\ sync.targets[1] \in Slot
      BY <1>1, <2>1, SyncFields DEF Stage, Resting, AtStep, Listed
    <3>2. /\ u \in Sync /\ u.pos = 1 /\ u.slot = sync.targets[1] /\ u.total = Words
          /\ u.busy = sync.busy /\ u.op = sync.op /\ u.failed = sync.failed
          /\ u.targets = sync.targets /\ u.sub = sync.sub
      <4>1. 1 \in Nat /\ Words \in 0 .. Words
        BY WordsOK
      <4> QED
        BY <1>1, <3>1, <4>1 DEF Sync
    <3>3. AskWord(u, 0)
      BY <2>1 DEF StartUid
    <3> HIDE DEF u
    <3>4. Standing(u)
      BY <1>1, <3>1, <3>2, SyncFields DEF Standing, Begun, Working
    <3> QED
      BY <1>1, <2>1, <3>1, <3>2, <3>3, <3>4, AskWordOK, WordsOK DEF Surroundings, Begun
  <2>2. CASE sync.step = "idle" /\ sync.op # "uid" /\ StartTarget(sync, 1)
    <3>1. Begun(sync) /\ sync.op \in Op /\ sync.failed \in Nat /\ sync.targets \in Seq(Slot)
      BY <1>1, <2>2, SyncFields DEF Stage, Resting, AtStep
    <3>2. Between(sync, 1)
      BY <1>1, <2>2, <3>1 DEF Between, Begun, Working, Listed, Op
    <3> QED
      BY <1>1, <2>2, <3>2, StartTargetOK
  <2>3. CASE /\ sync.waiting /\ sync.retries < MaxRetries
             /\ sync' = Resent /\ requests' = Put(requests, Frame(sync))
    <3>1. Waiting /\ AtTarget(sync) /\ AtStep(sync)
      BY <2>3, WaitingAtTarget DEF Waiting
    <3>2. sync.retries \in Nat /\ sync.retries + 1 \in Nat
      BY <1>1, SyncFields
    <3>3. sync' = [sync EXCEPT !.retries = sync.retries + 1]
      BY <2>3 DEF Resent
    <3>4. /\ sync' \in Sync /\ SameTarget(sync, sync') /\ sync'.retries = sync.retries + 1
          /\ sync'.step = sync.step /\ sync'.cmd = sync.cmd /\ sync'.sub = sync.sub
          /\ sync'.word = sync.word /\ sync'.total = sync.total /\ sync'.rx = sync.rx
          /\ sync'.value = sync.value /\ sync'.waiting = sync.waiting
      BY <1>1, <3>2, <3>3 DEF Sync, SameTarget
    <3>5. AtStep(sync')
      BY <3>1, <3>4 DEF AtStep, SameTarget
    <3>6. AtTarget(sync')
      <4>1. sync'.retries <= IF sync'.step = "save" THEN SaveRetries ELSE RequestRetries
        BY <2>3, <3>2, <3>4, ConstantsAssumption DEF MaxRetries
      <4> QED
        BY <3>1, <3>4, <4>1 DEF AtTarget, Working, SameTarget
    <3>7. Frame(sync) \in Request
      BY <1>1, <3>1, FrameOK DEF AtStep
    <3>8. requests' \in Seq(Request)
      BY <1>1, <2>3, <3>7, PutOK DEF Surroundings
    <3> QED
      BY <3>4, <3>5, <3>6, <3>8 DEF Sent, Stage, SameTarget
  <2>4. CASE sync.waiting /\ Fail
    BY <2>4, FailOK DEF Waiting
  <2> QED
    BY <2>1, <2>2, <2>3, <2>4 DEF ConfigSync_Process1ms
<1>4. Listed(image', sync')
  BY <1>1, <1>2, <1>3 DEF Listed
<1> QED
  BY <1>2, <1>3, <1>4, Assemble, ImageOK
-----------------------------------------------------------------------------
(* The blocking of the igniters, the bus and the MCUs.                      *)

LEMMA IgnTargets ==
    LET targets == InOrder(EligibleForIgnBlock)
    IN  /\ targets \in Seq(Slot)
        /\ \A i \in 1 .. Len(targets) : image[targets[i]] # Blank
        /\ \A i \in 1 .. Len(targets) : targets[i] \in EligibleForIgnBlock
<1>1. EligibleForIgnBlock \subseteq Slot /\ \A s \in EligibleForIgnBlock : image[s] # Blank
  BY DEF EligibleForIgnBlock, IsValidCfgSlot
<1> QED
  BY <1>1, TargetsOK

LEMMA BlockZoneInv ==
    ASSUME Inv, NEW z \in Zones, BlockZone(z)
    PROVE  Inv'
<1>1. /\ sync' = IF sync.busy THEN sync ELSE Started("ign_block", InOrder(EligibleForIgnBlock))
      /\ blocked' = IF z \in blocked THEN blocked \ {z} ELSE blocked \cup {z}
      /\ pending' = (TRUE /\ sync.busy)
      /\ UNCHANGED <<image, active, boot, streak, latched, serials, requests, replies, mcu>>
  BY DEF BlockZone, StillPending, IgnBlockStarted, wire
<1>2. sync.busy \in BOOLEAN
  BY InvOthers, SyncFields
<1>3. Others'
  BY <1>1, <1>2, InvOthers DEF Others
<1>4. "ign_block" \in Op \ {"none", "uid"}
  BY DEF Op
<1> QED
  BY <1>1, <1>3, <1>4, IgnTargets, ImageOK, BeginInv

LEMMA IgnBlockSyncInv ==
    ASSUME Inv, NEW expired \in BOOLEAN, ConfigIgnBlockSync_Process1ms(expired)
    PROVE  Inv'
<1> DEFINE served == pending /\ ~sync.busy
           busy == IF served THEN IgnBlockStarted.busy ELSE sync.busy
           seen == IF boot = "unseen" /\ ActiveMcuHasIgniter THEN "seen" ELSE boot
           starts == seen = "seen" /\ expired /\ ~busy
<1>1. /\ pending' = (pending /\ sync.busy)
      /\ sync' = IF served \/ starts THEN IgnBlockStarted ELSE sync
      /\ UNCHANGED <<image, blocked, active, streak, latched, serials, requests, replies, mcu>>
  BY DEF ConfigIgnBlockSync_Process1ms, StillPending, wire
<1>2. boot' \in {"unseen", "seen", "started", "done"}
  <2>1. seen \in {"unseen", "seen", "started", "done"}
    BY InvOthers DEF Others
  <2> HIDE DEF seen
  <2>2. boot' = CASE starts -> IF IgnBlockStarted.busy THEN "started" ELSE "done"
                  [] seen = "started" /\ ~busy -> "done"
                  [] ~starts /\ ~(seen = "started" /\ ~busy) -> seen
    BY DEF ConfigIgnBlockSync_Process1ms, seen
  <2> HIDE DEF starts, busy
  <2>3. CASE starts
    <3>1. ~(seen = "started" /\ ~busy)
      BY <2>3 DEF starts
    <3> QED
      BY <2>2, <2>3, <3>1
  <2>4. CASE ~starts
    BY <2>1, <2>2, <2>4
  <2> QED
    BY <2>3, <2>4
<1>3. sync.busy \in BOOLEAN /\ pending \in BOOLEAN
  BY InvOthers, SyncFields DEF Others
<1>4. Others'
  BY <1>1, <1>2, <1>3, InvOthers DEF Others
<1>5. CASE served \/ starts
  <2>1. ~sync.busy
    BY <1>5
  <2>2. sync' = Started("ign_block", InOrder(EligibleForIgnBlock))
    BY <1>1, <1>5 DEF IgnBlockStarted
  <2>3. "ign_block" \in Op \ {"none", "uid"}
    BY DEF Op
  <2> QED
    BY <1>1, <1>4, <2>1, <2>2, <2>3, IgnTargets, ImageOK, BeginInv
<1>6. CASE ~(served \/ starts)
  <2>1. UNCHANGED <<sync, requests, image>>
    BY <1>1, <1>6
  <2>2. Sent /\ Listed(image', sync')
    BY <2>1, InvOthers DEF Sent
  <2> QED
    BY <1>4, <2>1, <2>2, ImageOK, Assemble
<1> QED
  BY <1>5, <1>6

\* Neither the operation nor the image changes.
LEMMA AsideInv ==
    ASSUME Inv, UNCHANGED <<sync, image, blocked, pending, boot, streak, latched, serials>>,
           requests' \in Seq(Request), replies' \in Seq(Reply), mcu' \in [Slot -> Mcu],
           active' \in [Slot -> Zones \cup {Offline}]
    PROVE  Inv'
<1>1. Others'
  BY InvOthers DEF Others
<1>2. Sent /\ Listed(image', sync')
  BY InvOthers DEF Sent
<1> QED
  BY <1>1, <1>2, ImageOK, Assemble

LEMMA McuFields ==
    ASSUME NEW u \in Mcu
    PROVE  /\ u.zone \in Zones /\ u.work \in Config /\ u.saved \in Config
           /\ u.work.zone \in Zones /\ u.saved.zone \in Zones
           /\ u = [zone |-> u.zone, work |-> u.work, saved |-> u.saved]
BY DEF Mcu

\* What a request does to the MCU.
LEMMA WorkedCases ==
    ASSUME NEW u \in Mcu, NEW m \in Request
    PROVE  /\ m.cmd = "set" =>
                 Worked(u, m) = [zone |-> u.zone, saved |-> u.saved,
                                 work |-> [u.work EXCEPT ![Field[m.word + 1]] = m.value]]
           /\ m.cmd = "save" =>
                 Worked(u, m) = [zone |-> u.work.zone, saved |-> u.work, work |-> u.work]
           /\ m.cmd \in {"get", "crc", "size"} => Worked(u, m) = u
           /\ m.cmd \in {"set", "save", "get", "crc", "size"}
<1>1. m.cmd \in Command
  BY DEF Request, Message, Command
<1>2. CASE m.cmd = "set"
  <2> DEFINE c == [u.work EXCEPT ![Field[m.word + 1]] = m.value]
  <2>1. Worked(u, m) = [u EXCEPT !.work[Field[m.word + 1]] = m.value]
    BY <1>2 DEF Worked
  <2>2. Worked(u, m) = [u EXCEPT !.work = c]
    BY <2>1, McuFields
  <2> HIDE DEF c
  <2>3. Worked(u, m) = [zone |-> u.zone, saved |-> u.saved, work |-> c]
    <3>1. u = [zone |-> u.zone, work |-> u.work, saved |-> u.saved]
      BY McuFields
    <3> QED
      BY <2>2, <3>1
  <2> QED
    BY <1>2, <2>3 DEF c
<1>3. CASE m.cmd = "save"
  <2>1. Worked(u, m) = [u EXCEPT !.saved = u.work, !.zone = u.work.zone]
    BY <1>3 DEF Worked
  <2> DEFINE w == u.work
             z == u.work.zone
             v == [u EXCEPT !.saved = w]
  <2>2. Worked(u, m) = [v EXCEPT !.zone = z]
    BY <2>1
  <2>3. v = [zone |-> u.zone, work |-> w, saved |-> w]
    BY McuFields
  <2> HIDE DEF v, w, z
  <2>4. Worked(u, m) = [zone |-> z, saved |-> w, work |-> w]
    BY <2>2, <2>3
  <2> QED
    BY <1>3, <2>4 DEF w, z
<1>4. CASE m.cmd \in {"get", "crc", "size"}
  BY <1>4 DEF Worked
<1> QED
  BY <1>1, <1>2, <1>3, <1>4 DEF Command

LEMMA WorkedOK ==
    ASSUME NEW u \in Mcu, NEW m \in Request
    PROVE  Worked(u, m) \in Mcu
<1>1. /\ u.work \in Config /\ u.saved \in Config /\ u.zone \in Zones
      /\ u.work.zone \in Zones /\ u.saved.zone \in Zones
  BY McuFields
<1>2. CASE m.cmd = "set"
  <2> DEFINE c == [u.work EXCEPT ![Field[m.word + 1]] = m.value]
  <2>1. Fits(m.word, m.value)
    BY <1>2 DEF Request
  <2>2. c \in Config /\ c.zone \in Zones
    BY <1>1, <2>1, FieldOK
  <2>3. Worked(u, m) = [zone |-> u.zone, saved |-> u.saved, work |-> c]
    BY <1>2, WorkedCases
  <2> HIDE DEF c
  <2> QED
    BY <1>1, <2>2, <2>3 DEF Mcu
<1>3. CASE m.cmd = "save"
  BY <1>1, <1>3, WorkedCases DEF Mcu
<1>4. CASE m.cmd \in {"get", "crc", "size"}
  BY <1>4, WorkedCases
<1> QED
  BY <1>2, <1>3, <1>4, WorkedCases

LEMMA AnswerOK ==
    ASSUME mcu \in [Slot -> Mcu], NEW s \in Slot, NEW m \in Request
    PROVE  Answer(s, m) \in Reply
<1> DEFINE v == CASE m.cmd = "size" -> Size[s]
                  [] m.cmd = "get" -> mcu[s].work[Field[m.word + 1]]
                  [] m.cmd = "set" -> m.value
                  [] m.cmd \in {"save", "crc"} -> 0
           a == [slot |-> s, zone |-> mcu[s].zone, cmd |-> m.cmd, word |-> m.word,
                 config |-> mcu[s].saved, value |-> v]
<1>1. Answer(s, m) = a
  BY DEF Answer
<1>2. /\ m.cmd \in Command /\ m.word \in Nat /\ m.value \in Nat
      /\ m.cmd = "get" => m.word \in 0 .. Words - 1
  BY DEF Request, Message, Command
<1>3. /\ mcu[s].zone \in Zones /\ mcu[s].saved \in Config /\ mcu[s].work \in Config
      /\ mcu[s].work.zone \in Zones
  BY McuFields
<1>4. m.cmd = "get" => v = mcu[s].work[Field[m.word + 1]] /\ Fits(m.word, v)
  BY <1>2, <1>3, FieldOK
<1>5. v \in Nat
  <2>1. Size[s] \in Nat /\ 0 \in Nat
    BY ConstantsAssumption
  <2>2. m.cmd = "get" => v \in Nat
    BY <1>4, FitsNat
  <2> QED
    BY <1>2, <2>1, <2>2 DEF Command
<1> HIDE DEF v
<1>6. a.cmd = m.cmd /\ a.word = m.word /\ a.value = v
  OBVIOUS
<1>7. a \in [slot : Slot, zone : Zones, cmd : Command, word : Nat, config : Config, value : Nat]
  BY <1>2, <1>3, <1>5
<1> HIDE DEF a
<1> QED
  BY <1>1, <1>4, <1>6, <1>7 DEF Reply

LEMMA AnswersInv ==
    ASSUME Inv, McuAnswers
    PROVE  Inv'
<1> DEFINE m == Head(requests)
<1>1. requests # <<>> /\ requests' = Tail(requests) /\ UNCHANGED <<panel, spent>>
  BY DEF McuAnswers
<1>2. m \in Request /\ requests' \in Seq(Request) /\ m.slot \in Slot
  <2>1. m \in Request /\ requests' \in Seq(Request)
    BY <1>1, TakeOK, InvOthers
  <2> QED
    BY <2>1 DEF Request, Message
<1>3. mcu \in [Slot -> Mcu] /\ replies \in Seq(Reply)
  BY InvOthers DEF Others
<1>4. mcu' \in [Slot -> Mcu] /\ replies' \in Seq(Reply)
  <2>1. CASE UNCHANGED <<replies, mcu>>
    BY <1>3, <2>1
  <2>2. CASE /\ mcu' = [mcu EXCEPT ![m.slot] = Worked(@, m)]
             /\ replies' = Put(replies, Answer(m.slot, m))
    <3>1. Worked(mcu[m.slot], m) \in Mcu
      BY <1>2, <1>3, WorkedOK
    <3>2. Answer(m.slot, m) \in Reply
      BY <1>2, <1>3, AnswerOK
    <3> QED
      BY <1>2, <1>3, <2>2, <3>1, <3>2, PutOK
  <2> QED
    BY <2>1, <2>2 DEF McuAnswers
<1>5. UNCHANGED <<sync, image, blocked, active, pending, boot, streak, latched, serials>>
  BY <1>1 DEF panel
<1> QED
  BY <1>2, <1>4, <1>5, AsideInv, InvOthers DEF Others

LEMMA LoseInv ==
    ASSUME Inv, Lose
    PROVE  Inv'
<1>1. UNCHANGED <<sync, image, blocked, active, pending, boot, streak, latched, serials, mcu>>
  BY DEF Lose, panel
<1>2. requests' \in Seq(Request) /\ replies' \in Seq(Reply)
  BY TakeOK, InvOthers DEF Lose, Others
<1> QED
  BY <1>1, <1>2, AsideInv, InvOthers DEF Others

LEMMA RestartedFields ==
    ASSUME NEW u \in Mcu
    PROVE  [[u EXCEPT !.work = u.saved] EXCEPT !.zone = u.saved.zone]
              = [zone |-> u.saved.zone, work |-> u.saved, saved |-> u.saved]
<1> DEFINE v == [u EXCEPT !.work = u.saved]
           z == u.saved.zone
<1>1. v = [zone |-> u.zone, work |-> u.saved, saved |-> u.saved]
  BY McuFields
<1> HIDE DEF v, z
<1>2. [v EXCEPT !.zone = z] = [zone |-> z, work |-> u.saved, saved |-> u.saved]
  BY <1>1
<1> QED
  BY <1>2 DEF v, z

LEMMA RebootInv ==
    ASSUME Inv, NEW s \in Slot, Reboot(s)
    PROVE  Inv'
<1>1. /\ UNCHANGED <<sync, image, blocked, active, pending, boot, streak, latched, serials,
                     requests, replies>>
      /\ mcu' = [mcu EXCEPT ![s].work = mcu[s].saved, ![s].zone = mcu[s].saved.zone]
  BY DEF Reboot, panel, wire
<1>2. mcu \in [Slot -> Mcu]
  BY InvOthers DEF Others
<1> DEFINE u == [zone |-> mcu[s].saved.zone, work |-> mcu[s].saved, saved |-> mcu[s].saved]
<1>3. u \in Mcu
  BY <1>2, McuFields DEF Mcu
<1>4. mcu' = [mcu EXCEPT ![s] = u]
  <2>1. mcu[s] = [zone |-> mcu[s].zone, work |-> mcu[s].work, saved |-> mcu[s].saved]
    BY <1>2, McuFields
  <2> DEFINE a == [mcu EXCEPT ![s].work = mcu[s].saved]
             v == [mcu[s] EXCEPT !.work = mcu[s].saved]
             w == [v EXCEPT !.zone = mcu[s].saved.zone]
  <2>2. w = u
    <3>1. mcu[s] \in Mcu
      BY <1>2
    <3> QED
      BY <3>1, RestartedFields
  <2>3. a = [mcu EXCEPT ![s] = v] /\ a[s] = v
    BY <1>2
  <2>4. mcu' = [a EXCEPT ![s].zone = mcu[s].saved.zone]
    BY <1>1
  <2>5. mcu' = [a EXCEPT ![s] = w]
    BY <2>3, <2>4
  <2> HIDE DEF a, v, w
  <2> QED
    BY <1>2, <2>2, <2>3, <2>5
<1> HIDE DEF u
<1>5. mcu' \in [Slot -> Mcu]
  BY <1>2, <1>3, <1>4
<1> QED
  BY <1>1, <1>5, AsideInv, InvOthers DEF Others

LEMMA StatusInv ==
    ASSUME Inv, NEW s \in Slot, StatusFrame(s) \/ RefreshActiveDevices(s)
    PROVE  Inv'
<1>1. /\ UNCHANGED <<sync, image, blocked, pending, boot, streak, latched, serials,
                     requests, replies, mcu>>
  BY DEF StatusFrame, RefreshActiveDevices, wire
<1>2. mcu[s].zone \in Zones /\ active \in [Slot -> Zones \cup {Offline}]
  BY InvOthers, McuFields DEF Others
<1>3. active' \in [Slot -> Zones \cup {Offline}]
  <2>1. CASE StatusFrame(s)
    BY <1>2, <2>1, HeardOK DEF StatusFrame
  <2>2. CASE RefreshActiveDevices(s)
    BY <1>2, <2>2 DEF RefreshActiveDevices
  <2> QED
    BY <2>1, <2>2
<1> QED
  BY <1>1, <1>3, AsideInv, InvOthers DEF Others

LEMMA EditInv ==
    ASSUME Inv, NEW s \in Slot, EditImage(s)
    PROVE  Inv'
<1>1. /\ image[s] # Blank
      /\ UNCHANGED <<blocked, active, pending, boot, streak, latched, serials,
                     requests, replies, mcu>>
      /\ sync' = IF sync.busy THEN [sync EXCEPT !.unsure = @ \cup {s}] ELSE sync
  BY DEF EditImage, IsValidCfgSlot, wire
<1>2. /\ image \in [Slot -> Config] /\ \A t \in Slot : image[t] = Blank \/ image[t].zone \in Zones
      /\ image[s] \in Config /\ image[s].zone \in Zones /\ 0 \notin Zones
  BY <1>1, ImageOK, ConstantsAssumption
<1>3. PICK c \in Config : c.zone \in Zones /\ image' = [image EXCEPT ![s] = c]
  <2>1. CASE \E z \in Zones : image' = [image EXCEPT ![s].zone = z]
    <3>1. PICK z \in Zones : image' = [image EXCEPT ![s].zone = z]
      BY <2>1
    <3>2. image' = [image EXCEPT ![s] = [image[s] EXCEPT !.zone = z]]
      BY <3>1
    <3>3. [image[s] EXCEPT !.zone = z] \in Config /\ [image[s] EXCEPT !.zone = z].zone = z
      BY <1>2 DEF Config
    <3> QED
      BY <3>2, <3>3
  <2>2. CASE \E b \in {NoIgniter, Free, Blocked} : image' = [image EXCEPT ![s].block = b]
    <3>1. PICK b \in {NoIgniter, Free, Blocked} : image' = [image EXCEPT ![s].block = b]
      BY <2>2
    <3>2. image' = [image EXCEPT ![s] = [image[s] EXCEPT !.block = b]]
      BY <3>1
    <3>3. /\ [image[s] EXCEPT !.block = b] \in Config
          /\ [image[s] EXCEPT !.block = b].zone = image[s].zone
      BY <1>2 DEF Config
    <3> QED
      BY <1>2, <3>2, <3>3
  <2> QED
    BY <2>1, <2>2 DEF EditImage
<1>4. c # Blank
  BY <1>2, <1>3 DEF Blank
<1>5. \A t \in Slot : image'[t] = IF t = s THEN c ELSE image[t]
  BY <1>2, <1>3
<1>6. image' \in [Slot -> Config] /\ \A t \in Slot : image'[t] = Blank \/ image'[t].zone \in Zones
  BY <1>2, <1>3, <1>5
<1>7. \A t \in Slot : image[t] # Blank => image'[t] # Blank
  BY <1>4, <1>5
<1> HIDE DEF Blank
<1>8. /\ sync' \in Sync /\ Stage(sync')
      /\ sync'.busy = sync.busy /\ sync'.op = sync.op /\ sync'.targets = sync.targets
  <2>1. CASE sync.busy
    <3>1. sync \in Sync /\ Stage(sync) /\ sync.unsure \cup {s} \subseteq Slot
      BY InvOthers, SyncFields
    <3>2. sync' = [sync EXCEPT !.unsure = sync.unsure \cup {s}]
      BY <1>1, <2>1
    <3>3. /\ sync' \in Sync /\ sync'.busy = sync.busy /\ sync'.op = sync.op
          /\ sync'.step = sync.step /\ sync'.failed = sync.failed /\ sync'.targets = sync.targets
          /\ sync'.pos = sync.pos /\ sync'.slot = sync.slot /\ sync'.total = sync.total
          /\ sync'.word = sync.word /\ sync'.rx = sync.rx /\ sync'.waiting = sync.waiting
          /\ sync'.cmd = sync.cmd /\ sync'.value = sync.value /\ sync'.retries = sync.retries
          /\ sync'.sub = sync.sub
      BY <3>1, <3>2 DEF Sync
    <3>4. Stage(sync')
      BY <3>1, <3>3 DEF Stage, Resting, Begun, AtTarget, Working, AtStep
    <3> QED
      BY <3>3, <3>4
  <2>2. CASE ~sync.busy
    BY <1>1, <2>2, InvOthers
  <2> QED
    BY <2>1, <2>2
<1>9. sync \in Sync /\ sync.targets \in Seq(Slot) /\ Listed(image, sync)
  BY InvOthers, SyncFields
<1>10. Listed(image', sync')
  BY <1>6, <1>7, <1>8, <1>9 DEF Listed
<1>11. Sent
  BY <1>1, <1>8, InvOthers DEF Sent
<1>12. Others'
  BY <1>1, OthersStay, InvOthers
<1> QED
  BY <1>6, <1>10, <1>11, <1>12, Assemble
-----------------------------------------------------------------------------
LEMMA InitInv == Init => Inv
<1> SUFFICES ASSUME Init PROVE Inv
  OBVIOUS
<1>1. NoSync \in Sync /\ Resting(NoSync) /\ NoSync.op = "none" /\ NoSync.targets = <<>>
      /\ NoSync.busy = FALSE
  BY NoSyncOK DEF NoSync
<1>2. mcu \in [Slot -> Mcu]
  <2>1. \A s \in Slot : /\ mcu[s] \in [zone : Zones, work : Config, saved : Config]
                        /\ mcu[s].zone = mcu[s].saved.zone /\ mcu[s].work = mcu[s].saved
    BY DEF Init
  <2>2. \A s \in Slot : mcu[s] \in Mcu
    BY <2>1 DEF Mcu
  <2> QED
    BY <2>2 DEF Init
<1>3. Blank \in Config
  BY DEF Blank, Config
<1>4. image = [s \in Slot |-> IF s \in New THEN Blank ELSE mcu[s].saved]
  BY DEF Init
<1>5. \A s \in Slot : mcu[s].saved \in Config /\ mcu[s].saved.zone \in Zones
  BY <1>2, McuFields
<1>6. image \in [Slot -> Config] /\ \A t \in Slot : image[t] = Blank \/ image[t].zone \in Zones
  BY <1>3, <1>4, <1>5
<1>7. sync = NoSync /\ requests = <<>> /\ replies = <<>>
  BY DEF Init
<1>8. Others
  <2>1. 0 \in 0 .. 2 /\ FALSE \in BOOLEAN /\ {} \subseteq Slot
    OBVIOUS
  <2>2. /\ blocked \subseteq Zones /\ active = [s \in Slot |-> Offline] /\ pending = FALSE
        /\ boot = "unseen" /\ streak = [s \in Slot |-> 0] /\ latched = [s \in Slot |-> FALSE]
        /\ serials = {} /\ replies = <<>>
    BY DEF Init
  <2>3. active \in [Slot -> Zones \cup {Offline}] /\ streak \in [Slot -> 0 .. 2]
    BY <2>1, <2>2
  <2>4. latched \in [Slot -> BOOLEAN]
    BY <2>1, <2>2, Zenon
  <2>5. <<>> \in Seq(Request) /\ <<>> \in Seq(Reply)
    OBVIOUS
  <2>6. requests \in Seq(Request) /\ replies \in Seq(Reply)
    BY <1>7, <2>5
  <2>7. pending \in BOOLEAN /\ serials \subseteq Slot
    BY <2>2
  <2>8. boot \in {"unseen", "seen", "started", "done"}
    BY <2>2
  <2> QED
    BY <1>2, <2>2, <2>3, <2>4, <2>6, <2>7, <2>8, Zenon DEF Others
<1>9. Listed(image, sync) /\ Stage(sync) /\ sync \in Sync
  BY <1>1, <1>6, <1>7 DEF Listed, Stage
<1>10. requests \in Seq(Request) /\ requests \in Seq(Message) /\ replies \in Seq(Reply)
  BY <1>7
<1>11. TypeOK
  <2>1. /\ sync.targets \in Seq(Slot) /\ sync.failed = 0 /\ sync.retries = 0 /\ sync.word = 0
        /\ Len(sync.targets) = 0 /\ ~sync.busy
    <3>1. <<>> \in Seq(Slot) /\ Len(<<>>) = 0
      OBVIOUS
    <3> HIDE DEF NoSync
    <3> QED
      BY <1>1, <1>7, <3>1 DEF Resting
  <2>2. sync.retries <= MaxRetries /\ sync.word <= Words /\ sync.failed <= Len(sync.targets)
    BY <2>1, WordsOK, ConstantsAssumption DEF MaxRetries
  <2> QED
    BY <1>6, <1>8, <1>10, <2>1, <2>2 DEF TypeOK, Others, Mcu
<1> QED
  BY <1>8, <1>9, <1>10, <1>11 DEF Inv, Others

LEMMA NextInv == Inv /\ [Next]_vars => Inv'
<1> SUFFICES ASSUME Inv, [Next]_vars PROVE Inv'
  OBVIOUS
<1>1. CASE Next
  <2>1. CASE Panel
    BY <2>1, VerifyApplyInv, ReadAllInv, PeriodicInv, RemoteUidInv, StatusInv, ProcessInv,
       ListenerInv, IgnBlockSyncInv DEF Panel
  <2>2. CASE Outside
    BY <2>2, AnswersInv, LoseInv, RebootInv, StatusInv, EditInv, BlockZoneInv DEF Outside
  <2> QED
    BY <1>1, <2>1, <2>2 DEF Next
<1>2. CASE UNCHANGED vars
  BY <1>2 DEF vars, panel, wire, Inv, TypeOK, MaxRetries
<1> QED
  BY <1>1, <1>2

\* The types of the synchronisation, whatever is lost, late, restarted or edited;
\* a request is never repeated more often than its kind allows
\* (ConfigSync_Process1ms, ConfigSync_OnListenerMessage).
THEOREM TypeCorrectness == Spec => []TypeOK
<1>1. Inv => TypeOK
  BY DEF Inv
<1> QED
  BY <1>1, InitInv, NextInv, PTL DEF Spec
-----------------------------------------------------------------------------
(* What the panel knows of the MCUs, though answers may be late: a request   *)
(* may be repeated while it or its answer is still under way.                *)

\* An operation begins when no frame of an earlier one is under way any more.
SettledStart == ~sync.busy /\ sync'.busy => wire = <<<<>>, <<>>>>

SettledStarts == [][SettledStart]_vars

Distinct(q) == \A i, j \in 1 .. Len(q) : q[i] = q[j] => i = j

\* An MCU listens where it has saved; one with a single word has no igniter.
Housed ==
    \A t \in Slot :
        /\ mcu[t].zone = mcu[t].saved.zone
        /\ Size[t] = 1 => mcu[t].work.block = NoIgniter /\ mcu[t].saved.block = NoIgniter

\* What is true of a frame whenever it comes.
Plain ==
    /\ \A i \in 1 .. Len(requests) :
          requests[i].cmd = "set" => requests[i].word < Size[requests[i].slot]
    /\ \A i \in 1 .. Len(replies) :
          replies[i].cmd = "size" => replies[i].value = Size[replies[i].slot]

AsSaved(t) == mcu[t].work = mcu[t].saved

\* A frame of the request that waits, or of its answer.
Current(f) == f.slot = sync.slot /\ f.cmd = sync.cmd /\ f.word = sync.word

\* An answer to it tells of the MCU as it still is.
Answers(m) ==
    /\ m.zone = sync.zone
    /\ m.cmd = "crc" => m.config = mcu[m.slot].saved
    /\ m.cmd = "save" => AsSaved(m.slot)
    /\ m.cmd = "get" => m.zone = mcu[m.slot].zone

\* Any other frame is not taken for it, and such a request does no harm.
Stale(f) == f.slot = sync.slot /\ f.cmd = sync.cmd => sync.step \in {"word", "set"}

Harmless(f) ==
    /\ f.cmd = "set" => f.slot = sync.slot /\ sync.step \in {"set", "save"}
    /\ f.cmd = "save" => f.slot = sync.slot /\ sync.step = "readback"

Asked(f) == IF Current(f) THEN f = Frame(sync) ELSE Stale(f) /\ Harmless(f)
Given(m) == IF Current(m) THEN Answers(m) ELSE Stale(m)

\* The frames under way: first those of earlier requests, then those of the
\* request that waits, the answers before the requests.
Trail ==
    /\ ~sync.waiting => requests = <<>> /\ replies = <<>>
    /\ \A i \in 1 .. Len(requests) : Asked(requests[i])
    /\ \A i \in 1 .. Len(replies) : Given(replies[i])
    /\ \A i, j \in 1 .. Len(requests) : i < j /\ Current(requests[i]) => Current(requests[j])
    /\ \A i, j \in 1 .. Len(replies) : i < j /\ Current(replies[i]) => Current(replies[j])
    /\ \A i \in 1 .. Len(replies), j \in 1 .. Len(requests) :
          Current(replies[i]) => Current(requests[j])

Followed == sync.busy /\ sync.failed = 0 => Trail

Sized ==
    sync.waiting /\ sync.op # "uid" /\ sync.step # "size" => sync.total = Size[sync.slot]

Compared ==
    sync.waiting /\ sync.step \in {"crc", "readback"} /\ sync.slot \notin sync.unsure
        => sync.expected = image[sync.slot]

\* An igniter has the blocking of its zone, or the blocking is still to come.
Told(c) == c.block = Expected(c.zone) \/ pending

\* What an operation without a failure has reached at a target behind it, and
\* what it finds at a target it has not come to.
Reached(t) ==
    /\ sync.op = "apply" => mcu[t].saved = image[t]
    /\ sync.op \in {"read_all", "ign_block"} => image[t] = mcu[t].work /\ AsSaved(t)
    /\ sync.op = "ign_block" => Told(mcu[t].saved)

Untouched(t) ==
    /\ sync.op \in {"read_all", "ign_block"} => AsSaved(t)
    /\ sync.op = "ign_block" => mcu[t].saved.block # NoIgniter

\* The words read so far are those of the MCU, and so is the one that comes.
ReadSoFar(t) ==
    /\ sync.word > 0 => sync.rx.zone = mcu[t].work.zone
    /\ sync.total = 1 => sync.rx.block = NoIgniter
    /\ \A i \in 1 .. Len(replies) :
          Current(replies[i]) => replies[i].value = mcu[t].work[Field[sync.word + 1]]

\* The target at work, step by step; an igniter has more than one word.
InWork(t) ==
    /\ sync.step = "size" => Untouched(t) /\ sync.rx = Blank
    /\ sync.step = "word" /\ sync.op # "uid" =>
          /\ AsSaved(t) /\ ReadSoFar(t)
          /\ sync.sub = "read" => Untouched(t)
          /\ sync.sub = "readback" => mcu[t].saved = image[t] /\ Told(image[t])
    /\ sync.step = "readback" => AsSaved(t)
    /\ sync.step \in {"set", "save", "readback"} /\ sync.op = "ign_block"
          => Told(image[t]) /\ sync.total # 1

Tracked ==
    sync.busy /\ sync.failed = 0 =>
        \A i \in 1 .. Len(sync.targets) :
            sync.targets[i] \notin sync.unsure =>
                /\ i < sync.pos => Reached(sync.targets[i])
                /\ i > sync.pos => Untouched(sync.targets[i])
                /\ i = sync.pos => InWork(sync.targets[i])

\* The MCUs of an operation differ, and the comparison is of one.
Targeted ==
    /\ Distinct(sync.targets)
    /\ sync.op = "periodic" => Len(sync.targets) = 1

Timely == Housed /\ Plain /\ Followed /\ Sized /\ Compared /\ Targeted /\ Tracked

\* The request sent is the one that waits, if a request is sent at all.
Posted ==
    \/ requests' = requests
    \/ sync'.waiting /\ requests' = Put(requests, Frame(sync'))

LEMMA SendPosted ==
    ASSUME NEW s, "waiting" \in DOMAIN s, NEW step, NEW cmd, NEW word, NEW value,
           SendReq(s, step, cmd, word, value)
    PROVE  Posted
<1> DEFINE t == Asking(s, step, cmd, word, value)
<1>1. sync' = t /\ requests' = Put(requests, Frame(t))
  BY DEF SendReq, Asking
<1>2. t.waiting
  BY DEF Asking
<1> QED
  BY <1>1, <1>2 DEF Posted

LEMMA NextSent ==
    ASSUME NEW s, "waiting" \in DOMAIN s, NextTargetOrFinish(s) \/ StartTarget(s, 1)
    PROVE  Posted
<1>1. CASE Finish(s)
  BY <1>1 DEF Finish, Posted
<1>2. ASSUME NEW p, StartTarget(s, p), ~Finish(s)
      PROVE  Posted
  <2> DEFINE left == {q \in p .. Len(s.targets) : IsValidCfgSlot(s.targets[q])}
             q == CHOOSE r \in left : \A t \in left : r <= t
             slot == s.targets[q]
             zone == IF s.op = "read_all" THEN image[slot].zone ELSE Resolve(slot)
             u == [s EXCEPT !.pos = q, !.slot = slot, !.zone = zone, !.total = 0,
                            !.rx = Blank, !.expected = Blank, !.sub = "read"]
  <2>1. SendReq(u, "size", "size", 0, 0)
    BY <1>2 DEF StartTarget
  <2> HIDE DEF q, slot, zone
  <2>2. "waiting" \in DOMAIN u
    BY Zenon
  <2> HIDE DEF u
  <2> QED
    BY <2>1, <2>2, SendPosted
<1>3. Finish(s) \/ StartTarget(s, s.pos + 1) \/ StartTarget(s, 1)
  BY DEF NextTargetOrFinish
<1> QED
  BY <1>1, <1>2, <1>3

LEMMA NextPosted ==
    ASSUME NEW s \in Sync, NextTargetOrFinish(s) \/ StartTarget(s, 1)
    PROVE  Posted
<1>1. "waiting" \in DOMAIN s
  BY DEF Sync
<1> QED
  BY <1>1, NextSent

LEMMA FailPosted ==
    ASSUME sync \in Sync, Fail
    PROVE  Posted
<1> DEFINE s == [sync EXCEPT !.failed = @ + 1]
<1>1. s \in Sync
  <2>1. sync \in Sync /\ sync.failed + 1 \in Nat
    BY SyncFields
  <2> QED
    BY <2>1 DEF Sync
<1>2. NextTargetOrFinish(s)
  BY DEF Fail
<1> HIDE DEF s
<1> QED
  BY <1>1, <1>2, NextPosted

LEMMA TailAt ==
    ASSUME NEW S, NEW q \in Seq(S), q # <<>>
    PROVE  /\ Len(Tail(q)) \in Nat /\ Len(q) = Len(Tail(q)) + 1 /\ Tail(q) \in Seq(S)
           /\ 1 \in 1 .. Len(q) /\ q[1] = Head(q)
           /\ \A i \in 1 .. Len(Tail(q)) : Tail(q)[i] = q[i + 1] /\ i + 1 \in 1 .. Len(q)
OBVIOUS

LEMMA PutAt ==
    ASSUME NEW S, NEW q \in Seq(S), NEW f \in S
    PROVE  \/ Put(q, f) = q
           \/ /\ Len(Put(q, f)) = Len(q) + 1 /\ Len(q) \in Nat /\ Put(q, f)[Len(q) + 1] = f
              /\ \A i \in 1 .. Len(q) : Put(q, f)[i] = q[i]
BY DEF Put

\* What is left of the wire when a frame leaves it.
Less(q, r) == r = q \/ (q # <<>> /\ r = Tail(q))

\* Frames leave the wire, the operation is where it was.
LEMMA TrailLess ==
    ASSUME Trail, UNCHANGED Frame(sync), sync'.step = sync.step, sync'.waiting = sync.waiting,
           requests \in Seq(Request), replies \in Seq(Reply),
           Less(requests, requests'), Less(replies, replies'),
           \A m \in Reply : Current(m) /\ Answers(m) => Answers(m)'
    PROVE  Trail'
<1>1. /\ sync'.slot = sync.slot /\ sync'.cmd = sync.cmd /\ sync'.word = sync.word
      /\ sync'.zone = sync.zone /\ Frame(sync)' = Frame(sync)
  BY DEF Frame
<1>2. /\ \A f : Current(f)' = Current(f) /\ Stale(f)' = Stale(f) /\ Harmless(f)' = Harmless(f)
  BY <1>1 DEF Current, Stale, Harmless
<1>3. /\ \A f : Asked(f) => Asked(f)'
      /\ \A m \in Reply : Given(m) => Given(m)'
  BY <1>1, <1>2 DEF Asked, Given
<1>4. PICK a \in {0, 1} : /\ Len(requests') \in Nat /\ Len(requests) = Len(requests') + a
                          /\ \A i \in 1 .. Len(requests') :
                                requests'[i] = requests[i + a] /\ i + a \in 1 .. Len(requests)
  <2>1. CASE requests' = requests
    <3>1. /\ Len(requests') \in Nat /\ Len(requests) = Len(requests') + 0
          /\ \A i \in 1 .. Len(requests') :
                requests'[i] = requests[i + 0] /\ i + 0 \in 1 .. Len(requests)
      BY <2>1
    <3> QED
      BY <3>1
  <2>2. CASE requests # <<>> /\ requests' = Tail(requests)
    <3>1. /\ Len(requests') \in Nat /\ Len(requests) = Len(requests') + 1
          /\ \A i \in 1 .. Len(requests') :
                requests'[i] = requests[i + 1] /\ i + 1 \in 1 .. Len(requests)
      BY <2>2, TailAt
    <3> QED
      BY <3>1
  <2> QED
    BY <2>1, <2>2 DEF Less
<1>5. PICK b \in {0, 1} : /\ Len(replies') \in Nat /\ Len(replies) = Len(replies') + b
                          /\ \A i \in 1 .. Len(replies') :
                                replies'[i] = replies[i + b] /\ i + b \in 1 .. Len(replies)
  <2>1. CASE replies' = replies
    <3>1. /\ Len(replies') \in Nat /\ Len(replies) = Len(replies') + 0
          /\ \A i \in 1 .. Len(replies') :
                replies'[i] = replies[i + 0] /\ i + 0 \in 1 .. Len(replies)
      BY <2>1
    <3> QED
      BY <3>1
  <2>2. CASE replies # <<>> /\ replies' = Tail(replies)
    <3>1. /\ Len(replies') \in Nat /\ Len(replies) = Len(replies') + 1
          /\ \A i \in 1 .. Len(replies') :
                replies'[i] = replies[i + 1] /\ i + 1 \in 1 .. Len(replies)
      BY <2>2, TailAt
    <3> QED
      BY <3>1
  <2> QED
    BY <2>1, <2>2 DEF Less
<1>6. ~sync'.waiting => requests' = <<>> /\ replies' = <<>>
  BY DEF Trail, Less
<1>7. /\ \A i \in 1 .. Len(requests') : Asked(requests[i])'
      /\ \A i \in 1 .. Len(replies') : Given(replies[i])'
  <2>1. ASSUME NEW i \in 1 .. Len(requests') PROVE Asked(requests[i])'
    <3>1. Asked(requests[i + a])
      BY <1>4 DEF Trail
    <3> QED
      BY <1>3, <1>4, <3>1
  <2>2. ASSUME NEW i \in 1 .. Len(replies') PROVE Given(replies[i])'
    <3>1. Given(replies[i + b]) /\ replies[i + b] \in Reply
      BY <1>5 DEF Trail
    <3> QED
      BY <1>3, <1>5, <3>1
  <2> QED
    BY <2>1, <2>2
<1>8. \A i, j \in 1 .. Len(requests') : i < j /\ Current(requests[i])' => Current(requests[j])'
  <2> SUFFICES ASSUME NEW i \in 1 .. Len(requests'), NEW j \in 1 .. Len(requests'), i < j,
                      Current(requests[i])'
               PROVE  Current(requests[j])'
    OBVIOUS
  <2>1. /\ i + a \in 1 .. Len(requests) /\ j + a \in 1 .. Len(requests) /\ i + a < j + a
        /\ requests'[i] = requests[i + a] /\ requests'[j] = requests[j + a]
    BY <1>4
  <2>2. Current(requests[i + a])
    BY <1>2, <2>1
  <2>3. Current(requests[j + a])
    BY <2>1, <2>2 DEF Trail
  <2> QED
    BY <1>2, <2>1, <2>3
<1>9. \A i, j \in 1 .. Len(replies') : i < j /\ Current(replies[i])' => Current(replies[j])'
  <2> SUFFICES ASSUME NEW i \in 1 .. Len(replies'), NEW j \in 1 .. Len(replies'), i < j,
                      Current(replies[i])'
               PROVE  Current(replies[j])'
    OBVIOUS
  <2>1. /\ i + b \in 1 .. Len(replies) /\ j + b \in 1 .. Len(replies) /\ i + b < j + b
        /\ replies'[i] = replies[i + b] /\ replies'[j] = replies[j + b]
    BY <1>5
  <2>2. Current(replies[i + b])
    BY <1>2, <2>1
  <2>3. Current(replies[j + b])
    BY <2>1, <2>2 DEF Trail
  <2> QED
    BY <1>2, <2>1, <2>3
<1>10. \A i \in 1 .. Len(replies'), j \in 1 .. Len(requests') :
          Current(replies[i])' => Current(requests[j])'
  <2> SUFFICES ASSUME NEW i \in 1 .. Len(replies'), NEW j \in 1 .. Len(requests'),
                      Current(replies[i])'
               PROVE  Current(requests[j])'
    OBVIOUS
  <2>1. Current(replies[i + b])
    BY <1>2, <1>5
  <2>2. Current(requests[j + a])
    BY <1>4, <1>5, <2>1 DEF Trail
  <2> QED
    BY <1>2, <1>4, <2>2
<1> QED
  BY <1>6, <1>7, <1>8, <1>9, <1>10 DEF Trail

\* The request that waits is sent once more.
LEMMA TrailAgain ==
    ASSUME Trail, UNCHANGED <<Frame(sync), mcu, replies>>, sync'.step = sync.step, sync'.waiting,
           requests \in Seq(Request), replies \in Seq(Reply), Frame(sync) \in Request,
           requests' = Put(requests, Frame(sync))
    PROVE  Trail'
<1> DEFINE f == Frame(sync)
           n == Len(requests) + 1
<1>1. /\ sync'.slot = sync.slot /\ sync'.cmd = sync.cmd /\ sync'.word = sync.word
      /\ sync'.zone = sync.zone /\ Frame(sync)' = Frame(sync)
  BY DEF Frame
<1>2. /\ \A g : Current(g)' = Current(g) /\ Stale(g)' = Stale(g) /\ Harmless(g)' = Harmless(g)
      /\ \A g : Answers(g)' = Answers(g)
  BY <1>1 DEF Current, Stale, Harmless, Answers, AsSaved
<1>3. \A g : Asked(g)' = Asked(g) /\ Given(g)' = Given(g)
  BY <1>1, <1>2 DEF Asked, Given
<1>4. Current(f) /\ Asked(f)
  BY DEF Current, Asked, Frame
<1> HIDE DEF f
<1>5. CASE requests' = requests
  BY <1>2, <1>3, <1>5 DEF Trail
<1>6. CASE requests' # requests
  <2>1. /\ Len(requests') = n /\ n \in Nat /\ requests'[n] = f
        /\ \A i \in 1 .. Len(requests) : requests'[i] = requests[i]
    BY <1>6, PutAt DEF f
  <2>2. \A i \in 1 .. n : i \in 1 .. Len(requests) \/ i = n
    BY <2>1
  <2>3. \A i \in 1 .. Len(requests') : Asked(requests[i])'
    BY <1>3, <1>4, <2>1, <2>2 DEF Trail
  <2>4. \A i \in 1 .. Len(replies') : Given(replies[i])'
    BY <1>3 DEF Trail
  <2>5. \A i, j \in 1 .. Len(requests') : i < j /\ Current(requests[i])' => Current(requests[j])'
    <3> SUFFICES ASSUME NEW i \in 1 .. Len(requests'), NEW j \in 1 .. Len(requests'), i < j,
                        Current(requests[i])'
                 PROVE  Current(requests[j])'
      OBVIOUS
    <3>1. CASE j = n
      BY <1>2, <1>4, <2>1, <3>1
    <3>2. CASE j \in 1 .. Len(requests)
      <4>1. i \in 1 .. Len(requests)
        BY <2>1, <3>2
      <4>2. Current(requests[i])
        BY <1>2, <2>1, <4>1
      <4>3. Current(requests[j])
        BY <3>2, <4>1, <4>2 DEF Trail
      <4> QED
        BY <1>2, <2>1, <3>2, <4>3
    <3> QED
      BY <2>1, <2>2, <3>1, <3>2
  <2>6. \A i, j \in 1 .. Len(replies') : i < j /\ Current(replies[i])' => Current(replies[j])'
    BY <1>2 DEF Trail
  <2>7. \A i \in 1 .. Len(replies'), j \in 1 .. Len(requests') :
           Current(replies[i])' => Current(requests[j])'
    <3> SUFFICES ASSUME NEW i \in 1 .. Len(replies'), NEW j \in 1 .. Len(requests'),
                        Current(replies[i])'
                 PROVE  Current(requests[j])'
      OBVIOUS
    <3>1. CASE j = n
      BY <1>2, <1>4, <2>1, <3>1
    <3>2. CASE j \in 1 .. Len(requests)
      <4>1. Current(replies[i])
        BY <1>2
      <4>2. Current(requests[j])
        BY <3>2, <4>1 DEF Trail
      <4> QED
        BY <1>2, <2>1, <3>2, <4>2
    <3> QED
      BY <2>1, <2>2, <3>1, <3>2
  <2> QED
    BY <2>3, <2>4, <2>5, <2>6, <2>7 DEF Trail
<1> QED
  BY <1>5, <1>6

\* Another request: no frame under way is one of it or does it harm.
Turned ==
    /\ sync'.waiting
    /\ \/ sync'.slot # sync.slot
       \/ sync'.cmd # sync.cmd
       \/ sync'.word # sync.word /\ sync'.step \in {"word", "set"}
    /\ sync.cmd = "set" => sync'.slot = sync.slot /\ sync'.step \in {"set", "save"}
    /\ sync.cmd = "save" => sync'.slot = sync.slot /\ sync'.step = "readback"

LEMMA TrailTurned ==
    ASSUME Trail, replies # <<>>, Current(Head(replies)), replies' = Tail(replies),
           requests \in Seq(Request), replies \in Seq(Reply), Frame(sync') \in Request,
           Posted, Turned
    PROVE  Trail' /\ \A i \in 1 .. Len(replies') : ~Current(replies[i])'
<1>1. \A f : Current(f) => ~Current(f)' /\ Stale(f)' /\ Harmless(f)'
  BY DEF Turned, Current, Stale, Harmless
<1>2. /\ Len(replies') \in Nat
      /\ \A i \in 1 .. Len(replies') : replies'[i] = replies[i + 1] /\ i + 1 \in 1 .. Len(replies)
      /\ 1 \in 1 .. Len(replies) /\ replies[1] = Head(replies)
  BY TailAt
<1>3. \A i \in 1 .. Len(requests) : Current(requests[i])
  BY <1>2 DEF Trail
<1>4. \A i \in 1 .. Len(replies') : Current(replies'[i])
  <2> SUFFICES ASSUME NEW i \in 1 .. Len(replies') PROVE Current(replies'[i])
    OBVIOUS
  <2>1. 1 < i + 1 /\ i + 1 \in 1 .. Len(replies) /\ 1 \in 1 .. Len(replies)
    BY <1>2
  <2>2. Current(replies[i + 1])
    BY <1>2, <2>1 DEF Trail
  <2> QED
    BY <1>2, <2>2
<1>5. \A i \in 1 .. Len(replies') : ~Current(replies[i])' /\ Given(replies[i])'
  BY <1>1, <1>4 DEF Given
<1>6. Len(requests) \in Nat /\ \A f : Current(f) => ~Current(f)' /\ Asked(f)'
  BY <1>1 DEF Asked
<1> DEFINE n == Len(requests) + 1
<1>7. \/ requests' = requests
      \/ /\ Len(requests') = n /\ n \in Nat /\ requests'[n] = Frame(sync')
         /\ \A i \in 1 .. Len(requests) : requests'[i] = requests[i]
  BY PutAt DEF Posted
<1>8. Current(Frame(sync))' /\ Asked(Frame(sync))'
  BY DEF Current, Asked, Frame
<1>9. \A i \in 1 .. Len(requests') :
         /\ Asked(requests[i])'
         /\ Current(requests[i])' => Len(requests') = n /\ i = n
  <2>1. CASE requests' = requests
    BY <1>3, <1>6, <2>1
  <2>2. CASE /\ Len(requests') = n /\ n \in Nat /\ requests'[n] = Frame(sync')
             /\ \A i \in 1 .. Len(requests) : requests'[i] = requests[i]
    <3>1. \A i \in 1 .. n : i \in 1 .. Len(requests) \/ i = n
      BY <1>6
    <3> HIDE DEF n
    <3> QED
      BY <1>3, <1>6, <1>8, <2>2, <3>1
  <2> QED
    BY <1>7, <2>1, <2>2
<1>10. ASSUME NEW i \in 1 .. Len(requests'), NEW j \in 1 .. Len(requests'), i < j
       PROVE  ~Current(requests[i])'
  <2>1. i # Len(requests')
    BY <1>6, <1>7, <1>10
  <2> QED
    BY <1>9, <2>1
<1> QED
  BY <1>5, <1>9, <1>10 DEF Trail, Turned

LEMMA PlainPosted ==
    ASSUME Inv, Plain, sync' \in Sync, Stage(sync'), Sized', Posted,
           Less(replies, replies')
    PROVE  Plain'
<1>1. requests \in Seq(Request) /\ replies \in Seq(Reply)
  BY InvOthers DEF Others
<1> DEFINE f == Frame(sync')
<1>2. ASSUME sync'.waiting PROVE f \in Request /\ (f.cmd = "set" => f.word < Size[f.slot])
  <2>1. AtTarget(sync') /\ AtStep(sync')
    BY <1>2 DEF Stage, Resting, Begun
  <2>2. f \in Request
    <3>1. sync'.cmd # "none"
      BY <2>1 DEF AtStep
    <3> QED
      BY <2>1, <3>1, FrameOK
  <2>3. f.cmd = sync'.cmd /\ f.word = sync'.word /\ f.slot = sync'.slot
    BY DEF Frame
  <2>4. ASSUME f.cmd = "set" PROVE sync'.word < Size[sync'.slot]
    <3>1. sync'.step = "set" /\ sync'.word < sync'.total /\ sync'.op # "uid"
      BY <2>1, <2>3, <2>4 DEF AtStep
    <3>2. sync'.total = Size[sync'.slot]
      BY <1>2, <3>1 DEF Sized
    <3> QED
      BY <3>1, <3>2
  <2> HIDE DEF f
  <2> QED
    BY <2>2, <2>3, <2>4
<1>3. \A i \in 1 .. Len(requests') :
         requests'[i].cmd = "set" => requests'[i].word < Size[requests'[i].slot]
  <2>1. CASE requests' = requests
    BY <2>1 DEF Plain
  <2>2. CASE sync'.waiting /\ requests' # requests
    <3> DEFINE n == Len(requests) + 1
    <3>1. /\ Len(requests') = n /\ n \in Nat /\ requests'[n] = f
          /\ \A i \in 1 .. Len(requests) : requests'[i] = requests[i]
      BY <1>1, <1>2, <2>2, PutAt DEF Posted
    <3>2. \A i \in 1 .. n : i \in 1 .. Len(requests) \/ i = n
      BY <3>1
    <3> HIDE DEF n, f
    <3> QED
      BY <1>2, <2>2, <3>1, <3>2 DEF Plain
  <2> QED
    BY <2>1, <2>2 DEF Posted
<1>4. \A i \in 1 .. Len(replies') :
         replies'[i].cmd = "size" => replies'[i].value = Size[replies'[i].slot]
  <2>1. CASE replies' = replies
    BY <2>1 DEF Plain
  <2>2. CASE replies # <<>> /\ replies' = Tail(replies)
    <3>1. \A i \in 1 .. Len(replies') : replies'[i] = replies[i + 1] /\ i + 1 \in 1 .. Len(replies)
      BY <1>1, <2>2, TailAt
    <3> QED
      BY <3>1 DEF Plain
  <2> QED
    BY <2>1, <2>2 DEF Less
<1> QED
  BY <1>3, <1>4 DEF Plain

\* Nothing has failed, and nobody has disturbed the target at work.
Clean == sync.failed = 0 /\ sync.slot \notin sync.unsure

LEMMA AtWork ==
    ASSUME Waiting, Timely
    PROVE  /\ sync \in Sync /\ AtStep(sync) /\ Standing(sync) /\ Ending(sync) /\ sync.busy
           /\ sync.slot \in Slot /\ sync.pos \in 1 .. Len(sync.targets)
           /\ sync.slot = sync.targets[sync.pos]
           /\ Clean => InWork(sync.slot)
           /\ \A i \in 1 .. Len(sync.targets) : i # sync.pos => sync.targets[i] # sync.slot
<1>1. /\ sync \in Sync /\ AtTarget(sync) /\ AtStep(sync) /\ Standing(sync) /\ Ending(sync)
      /\ sync.slot \in Slot /\ sync.pos \in Nat
  BY WaitingAtTarget, SyncFields
<1>2. sync.busy /\ sync.pos \in 1 .. Len(sync.targets) /\ sync.slot = sync.targets[sync.pos]
  BY <1>1, SyncFields DEF AtTarget, Working
<1>3. Tracked /\ Distinct(sync.targets)
  BY DEF Timely, Targeted
<1>4. Clean => InWork(sync.slot)
  BY <1>2, <1>3 DEF Tracked, Clean
<1> QED
  BY <1>1, <1>2, <1>3, <1>4 DEF Distinct

\* The panel has an answer that it takes.
Answered(m) ==
    /\ Waiting /\ Timely /\ m \in Reply
    /\ m.slot = sync.slot /\ m.zone = sync.zone /\ m.cmd = sync.cmd
    /\ sync.step \in {"word", "set"} => m.word = sync.word
    /\ replies # <<>> /\ m = Head(replies) /\ replies' = Tail(replies)
    /\ UNCHANGED <<blocked, pending, mcu>>

\* While nothing has failed it is the answer to the request that waits.
LEMMA AnsweredOK ==
    ASSUME NEW m, Answered(m)
    PROVE  /\ m.cmd = "size" => m.value = Size[sync.slot]
           /\ sync.failed = 0 => /\ Trail /\ Current(m) /\ Answers(m)
                                 /\ 1 \in 1 .. Len(replies) /\ replies[1] = m
<1>1. replies \in Seq(Reply) /\ sync.busy
  BY AtWork, InvOthers DEF Answered, Waiting, Others
<1>2. 1 \in 1 .. Len(replies) /\ replies[1] = m
  BY <1>1, TailAt DEF Answered
<1>3. m.cmd = "size" => m.value = Size[sync.slot]
  BY <1>2 DEF Answered, Timely, Plain
<1>4. ASSUME sync.failed = 0 PROVE Trail /\ Current(m) /\ Answers(m)
  <2>1. Trail
    BY <1>1, <1>4 DEF Answered, Timely, Followed
  <2>2. Given(m)
    BY <1>2, <2>1 DEF Trail
  <2>3. Current(m)
    BY <2>2 DEF Given, Stale, Current, Answered
  <2> QED
    BY <2>1, <2>2, <2>3 DEF Given
<1> QED
  BY <1>2, <1>3, <1>4

\* What comes of an answer: a failure, the next target or another request.
Failing == (sync'.busy => sync'.failed > 0) /\ (~sync'.busy => ~sync'.success)

Advancing == \E s : Ending(s) /\ SameTarget(sync, s) /\ NextTargetOrFinish(s)

Outcome ==
    /\ Posted /\ Sized' /\ Compared'
    /\ sync'.op = sync.op /\ sync'.targets = sync.targets
    /\ \A t \in Slot \ {sync.slot} : image'[t] = image[t]
    /\ sync.op = "apply" => UNCHANGED image
    /\ \/ Failing
       \/ /\ Advancing /\ sync.cmd \in {"get", "crc"}
          /\ \A t \in Slot : t = sync.slot /\ Clean => Reached(t)'
       \/ /\ SameTarget(sync, sync') /\ Turned
          /\ \A t \in Slot : t = sync.slot /\ Clean => InWork(t)'

\* An operation that reports its success has reached its targets.
Truthful ==
    sync.busy /\ ~sync'.busy /\ sync'.success =>
        /\ sync'.op = sync.op /\ \A t \in Sure(sync) : Reached(t)'
        /\ UNCHANGED <<blocked, pending, mcu>> /\ (sync.op = "apply" => UNCHANGED image)

LEMMA Aside ==
    ASSUME UNCHANGED <<blocked, pending, mcu>>, sync'.op = sync.op, NEW t, image'[t] = image[t]
    PROVE  (Reached(t) => Reached(t)') /\ (Untouched(t) => Untouched(t)')
BY DEF Reached, Untouched, AsSaved, Told, Expected

LEMMA AfterAnswer ==
    ASSUME NEW m, Answered(m), Outcome, Inv'
    PROVE  Timely' /\ Truthful
<1>1. /\ sync \in Sync /\ sync.busy /\ sync.slot \in Slot /\ sync.pos \in 1 .. Len(sync.targets)
      /\ sync.slot = sync.targets[sync.pos]
      /\ \A i \in 1 .. Len(sync.targets) : i # sync.pos => sync.targets[i] # sync.slot
  BY AtWork DEF Answered
<1>2. /\ sync.targets \in Seq(Slot) /\ Len(sync.targets) \in Nat /\ sync.pos \in Nat
      /\ \A i \in 1 .. Len(sync.targets) : sync.targets[i] \in Slot
      /\ sync.failed \in Nat
  BY <1>1, SyncFields
<1>3. Housed' /\ Plain' /\ Sized' /\ Compared' /\ Targeted'
  <2>1. Housed'
    BY DEF Answered, Timely, Housed
  <2>2. Plain'
    <3>1. sync' \in Sync /\ Stage(sync')
      BY DEF Inv
    <3> QED
      BY <3>1, PlainPosted DEF Answered, Outcome, Waiting, Timely, Less
  <2>3. Targeted'
    BY DEF Outcome, Answered, Timely, Targeted
  <2> QED
    BY <2>1, <2>2, <2>3 DEF Outcome
<1>4. /\ sync'.op = sync.op /\ sync'.targets = sync.targets
      /\ UNCHANGED <<blocked, pending, mcu>> /\ (sync.op = "apply" => UNCHANGED image)
  BY DEF Outcome, Answered
<1>5. ASSUME NEW i \in 1 .. Len(sync.targets), i # sync.pos
      PROVE  /\ Reached(sync.targets[i]) => Reached(sync.targets[i])'
             /\ Untouched(sync.targets[i]) => Untouched(sync.targets[i])'
  <2> DEFINE t == sync.targets[i]
  <2>1. t \in Slot \ {sync.slot}
    BY <1>1, <1>2, <1>5
  <2>2. image'[t] = image[t]
    BY <2>1 DEF Outcome
  <2>3. t = (sync'.targets)[i]
    BY <1>4
  <2>4. /\ \A u : u = t => (Reached(u) => Reached(u)') /\ (Untouched(u) => Untouched(u)')
    BY <1>4, <2>2, Aside
  <2> HIDE DEF t
  <2> QED
    BY <2>3, <2>4 DEF t
<1>6. Tracked /\ Sure(sync) = {sync.targets[i] : i \in 1 .. Len(sync.targets)} \ sync.unsure
  BY <1>2 DEF Answered, Timely, Sure
<1>10. ASSUME sync.failed = 0, Turned PROVE Trail'
  <2>1. Trail /\ Current(Head(replies)) /\ replies # <<>> /\ replies' = Tail(replies)
    BY <1>10, AnsweredOK DEF Answered
  <2>2. /\ requests \in Seq(Request) /\ replies \in Seq(Reply)
    BY InvOthers DEF Answered, Waiting, Others
  <2>3. Frame(sync') \in Request
    <3>1. sync' \in Sync /\ AtStep(sync')
      BY <1>10 DEF Inv, Turned, Stage, Resting, Begun
    <3>2. sync'.cmd # "none"
      BY <3>1 DEF AtStep
    <3> QED
      BY <3>1, <3>2, FrameOK
  <2> QED
    BY <1>10, <2>1, <2>2, <2>3, TrailTurned DEF Outcome
<1>7. CASE Failing
  <2>1. Tracked' /\ Followed'
    BY <1>7 DEF Failing, Tracked, Followed
  <2> QED
    BY <1>3, <1>7, <2>1 DEF Timely, Truthful, Failing
<1>8. CASE /\ Advancing /\ sync.cmd \in {"get", "crc"}
           /\ \A t \in Slot : t = sync.slot /\ Clean => Reached(t)'
  <2>1. PICK s : Ending(s) /\ SameTarget(sync, s) /\ NextTargetOrFinish(s)
    BY <1>8 DEF Advancing
  <2>2. Surroundings
    BY WaitingAtTarget DEF Answered
  <2>3. /\ s.op = sync.op /\ s.targets = sync.targets /\ s.pos = sync.pos
        /\ s.failed = sync.failed /\ s.unsure = sync.unsure /\ s \in Sync
    BY <2>1 DEF SameTarget, Ending
  <2>4. /\ sync.pos < Len(sync.targets) => Opening(s, sync', sync.pos + 1)
        /\ sync.pos >= Len(sync.targets) => Finish(s)
    BY <2>1, <2>2, <2>3, NextTargetOK
  <2>5. ASSUME sync.failed = 0, NEW i \in 1 .. Len(sync.targets), i <= sync.pos,
               sync.targets[i] \notin sync.unsure
        PROVE  Reached(sync.targets[i])'
    <3>1. CASE i = sync.pos
      <4>1. sync.targets[i] = sync.slot /\ Clean
        BY <1>1, <2>5, <3>1 DEF Clean
      <4>2. \A t \in Slot : t = sync.slot => Reached(t)'
        BY <1>8, <4>1
      <4>3. (sync.targets[i])' = sync.slot
        BY <1>4, <4>1
      <4> QED
        BY <1>1, <4>2, <4>3
    <3>2. CASE i # sync.pos
      <4>1. i < sync.pos
        BY <1>2, <2>5, <3>2
      <4>2. Reached(sync.targets[i])
        BY <1>1, <1>6, <2>5, <4>1 DEF Tracked
      <4> QED
        BY <1>5, <3>2, <4>2
    <3> QED
      BY <3>1, <3>2
  <2>6. CASE sync.pos < Len(sync.targets)
    <3>1. /\ sync'.busy /\ sync'.failed = sync.failed /\ sync'.unsure = sync.unsure
          /\ sync'.pos = sync.pos + 1 /\ sync'.step = "size" /\ sync'.rx = Blank
      BY <2>3, <2>4, <2>6 DEF Opening
    <3>2. Tracked'
      <4> SUFFICES ASSUME sync.failed = 0, NEW i \in 1 .. Len(sync.targets),
                          sync.targets[i] \notin sync.unsure
                   PROVE  /\ i < sync.pos + 1 => Reached(sync.targets[i])'
                          /\ i > sync.pos + 1 => Untouched(sync.targets[i])'
                          /\ i = sync.pos + 1 => InWork(sync.targets[i])'
        BY <1>4, <3>1 DEF Tracked
      <4>1. ASSUME i < sync.pos + 1 PROVE Reached(sync.targets[i])'
        BY <1>2, <2>5, <4>1
      <4>2. ASSUME i >= sync.pos + 1 PROVE Untouched(sync.targets[i])'
        <5>1. i > sync.pos /\ i # sync.pos
          BY <1>2, <4>2
        <5>2. Untouched(sync.targets[i])
          BY <1>1, <1>6, <5>1 DEF Tracked
        <5> QED
          BY <1>5, <5>1, <5>2
      <4>3. ASSUME i = sync.pos + 1 PROVE InWork(sync.targets[i])'
        <5>1. Untouched(sync.targets[i])'
          BY <1>2, <4>2, <4>3
        <5> QED
          BY <3>1, <5>1 DEF InWork
      <4> QED
        BY <1>2, <4>1, <4>2, <4>3
    <3>3. Turned
      <4>1. sync'.slot = sync.targets[sync.pos + 1] /\ sync'.waiting
        BY <2>3, <2>4, <2>6, <3>1 DEF Opening, Inv, Stage, Resting, Begun, AtTarget
      <4>2. sync.pos + 1 \in 1 .. Len(sync.targets) /\ sync.pos + 1 # sync.pos
        BY <1>2, <2>6
      <4>3. sync'.slot # sync.slot
        BY <1>1, <4>1, <4>2
      <4> QED
        BY <1>8, <4>1, <4>3 DEF Turned
    <3>4. Followed'
      BY <1>10, <3>1, <3>3 DEF Followed
    <3> QED
      BY <1>3, <3>1, <3>2, <3>4 DEF Timely, Truthful
  <2>7. CASE sync.pos >= Len(sync.targets)
    <3>1. ~sync'.busy /\ sync'.success = (sync.failed = 0)
      BY <2>2, <2>3, <2>4, <2>7, FinishOK DEF Surroundings
    <3>2. Tracked' /\ Followed'
      BY <3>1 DEF Tracked, Followed
    <3>3. ASSUME sync'.success, NEW t \in Sure(sync)
          PROVE  Reached(t)'
      <4>1. PICK i \in 1 .. Len(sync.targets) : t = sync.targets[i] /\ t \notin sync.unsure
        BY <1>6
      <4>2. i <= sync.pos
        BY <1>2, <2>7
      <4>5. sync.failed = 0
        BY <3>1, <3>3, Zenon
      <4>3. Reached(sync.targets[i])'
        BY <2>5, <4>1, <4>2, <4>5
      <4>4. (sync.targets[i])' = t
        BY <1>4, <4>1
      <4> QED
        BY <4>3, <4>4
    <3> QED
      BY <1>3, <1>4, <3>1, <3>2, <3>3 DEF Timely, Truthful
  <2> QED
    BY <1>2, <2>6, <2>7
<1>9. CASE /\ SameTarget(sync, sync') /\ Turned
           /\ \A t \in Slot : t = sync.slot /\ Clean => InWork(t)'
  <2>1. /\ sync'.busy = sync.busy /\ sync'.failed = sync.failed /\ sync'.pos = sync.pos
        /\ sync'.unsure = sync.unsure
    BY <1>9 DEF SameTarget
  <2>2. Tracked'
    <3> SUFFICES ASSUME sync.failed = 0, NEW i \in 1 .. Len(sync.targets),
                        sync.targets[i] \notin sync.unsure
                 PROVE  /\ i < sync.pos => Reached(sync.targets[i])'
                        /\ i > sync.pos => Untouched(sync.targets[i])'
                        /\ i = sync.pos => InWork(sync.targets[i])'
      BY <1>4, <2>1 DEF Tracked
    <3>1. /\ i < sync.pos => Reached(sync.targets[i])
          /\ i > sync.pos => Untouched(sync.targets[i])
      BY <1>1, <1>6 DEF Tracked
    <3>2. ASSUME i = sync.pos PROVE InWork(sync.targets[i])'
      <4>1. sync.targets[i] = sync.slot /\ Clean
        BY <1>1, <3>2 DEF Clean
      <4>2. \A t \in Slot : t = sync.slot => InWork(t)'
        BY <1>9, <4>1
      <4>3. (sync.targets[i])' = sync.slot
        BY <1>4, <4>1
      <4> QED
        BY <1>1, <4>2, <4>3
    <3> QED
      BY <1>2, <1>5, <3>1, <3>2
  <2>3. Followed'
    BY <1>9, <1>10, <2>1 DEF Followed
  <2> QED
    BY <1>1, <1>3, <2>1, <2>2, <2>3 DEF Timely, Truthful
<1> QED
  BY <1>7, <1>8, <1>9 DEF Outcome

\* Another request at the same target.
LEMMA AskAgain ==
    ASSUME NEW u \in Sync, SameTarget(sync, u), NEW step \in Step, NEW cmd \in Command,
           NEW word \in 0 .. Words, NEW value \in Nat, SendReq(u, step, cmd, word, value)
    PROVE  /\ Posted /\ SameTarget(sync, sync')
           /\ sync'.waiting /\ sync'.step = step /\ sync'.cmd = cmd /\ sync'.word = word
           /\ sync'.total = u.total /\ sync'.rx = u.rx
           /\ sync'.expected = u.expected /\ sync'.sub = u.sub
           /\ sync'.op = sync.op /\ sync'.targets = sync.targets /\ sync'.slot = sync.slot
           /\ sync'.unsure = sync.unsure
<1>1. sync' = Asking(u, step, cmd, word, value)
  BY DEF SendReq, Asking
<1>2. Posted
  <2>1. "waiting" \in DOMAIN u
    BY DEF Sync
  <2> QED
    BY <2>1, SendPosted
<1>3. /\ SameTarget(u, sync') /\ sync'.waiting /\ sync'.step = step /\ sync'.cmd = cmd
      /\ sync'.word = word /\ sync'.total = u.total /\ sync'.rx = u.rx
      /\ sync'.expected = u.expected /\ sync'.sub = u.sub
  BY <1>1, AskingFields
<1> QED
  BY <1>2, <1>3 DEF SameTarget

LEMMA FailOutcome ==
    ASSUME NEW m, Answered(m), Fail, UNCHANGED image
    PROVE  Outcome
<1>1. Waiting /\ sync \in Sync
  BY WaitingAtTarget DEF Answered
<1>2. /\ sync'.op = sync.op /\ sync'.targets = sync.targets /\ Failing
      /\ (sync'.waiting => sync'.step = "size")
  BY <1>1, FailOK DEF Failing
<1>3. Posted
  BY <1>1, FailPosted
<1> QED
  BY <1>2, <1>3 DEF Outcome, Sized, Compared

\* The next target, behind one that was reached.
LEMMA AdvanceOutcome ==
    ASSUME NEW m, Answered(m), NEW s \in Sync, SameTarget(sync, s), NextTargetOrFinish(s),
           \A t \in Slot \ {sync.slot} : image'[t] = image[t],
           sync.op = "apply" => UNCHANGED image, sync.cmd \in {"get", "crc"},
           sync'.op = sync.op => \A t \in Slot : t = sync.slot /\ Clean => Reached(t)'
    PROVE  Outcome
<1>1. Waiting /\ sync \in Sync /\ Ending(sync) /\ Surroundings
  BY WaitingAtTarget DEF Answered
<1>2. Ending(s) /\ s.op = sync.op /\ s.targets = sync.targets
  BY <1>1, AtSameTarget
<1>3. /\ Sent /\ sync'.op = s.op /\ sync'.targets = s.targets
      /\ s.pos < Len(s.targets) => Opening(s, sync', s.pos + 1)
      /\ s.pos >= Len(s.targets) => Finish(s)
  BY <1>1, <1>2, NextTargetOK
<1>4. sync'.waiting => sync'.step = "size"
  <2>1. CASE s.pos < Len(s.targets)
    BY <1>3, <2>1 DEF Opening
  <2>2. CASE s.pos >= Len(s.targets)
    <3>1. ~sync'.busy
      BY <1>1, <1>3, <2>2, FinishOK DEF Surroundings
    <3> QED
      BY <1>3, <3>1 DEF Sent, Stage, Resting, Begun, AtTarget, Working
  <2>3. s.pos \in Nat /\ Len(s.targets) \in Nat
    BY SyncFields
  <2> QED
    BY <2>1, <2>2, <2>3
<1>5. Posted
  BY NextPosted
<1>6. Advancing
  BY <1>2 DEF Advancing
<1> QED
  BY <1>2, <1>3, <1>4, <1>5, <1>6 DEF Outcome, Sized, Compared

\* Of another request no answer is under way.
LEMMA NoneYet ==
    ASSUME NEW m, Answered(m), Clean, Turned
    PROVE  \A i \in 1 .. Len(replies') : ~Current(replies[i])'
<1>1. Trail /\ Current(m)
  BY AnsweredOK DEF Clean
<1>2. replies \in Seq(Reply)
  BY InvOthers DEF Answered, Waiting, Others
<1>3. \A f : Current(f) => ~Current(f)'
  BY DEF Turned, Current
<1>4. \A i \in 1 .. Len(replies') : Current(replies'[i])
  <2> SUFFICES ASSUME NEW i \in 1 .. Len(replies') PROVE Current(replies'[i])
    OBVIOUS
  <2>1. /\ replies'[i] = replies[i + 1] /\ 1 < i + 1 /\ i + 1 \in 1 .. Len(replies)
        /\ 1 \in 1 .. Len(replies) /\ replies[1] = m
    BY <1>2, TailAt DEF Answered
  <2>2. Current(replies[i + 1])
    BY <1>1, <2>1 DEF Trail
  <2> QED
    BY <2>1, <2>2
<1> QED
  BY <1>3, <1>4

LEMMA SizeOutcome ==
    ASSUME NEW m, Answered(m), sync.step = "size", HandleCfgSizeReply(m)
    PROVE  Outcome
<1> DEFINE s == [sync EXCEPT !.total = m.value]
<1>1. /\ Waiting /\ sync \in Sync /\ AtStep(sync) /\ sync.slot \in Slot
      /\ Clean => InWork(sync.slot)
  BY AtWork DEF Answered
<1>2. UNCHANGED <<image, mcu, blocked, pending>>
  BY DEF HandleCfgSizeReply, Answered
<1>3. /\ sync.op \in {"verify", "apply", "read_all", "periodic", "ign_block"} /\ sync.sub = "read"
      /\ sync.cmd = "size"
  BY <1>1 DEF AtStep
<1>4. m.value = Size[sync.slot]
  BY <1>3, AnsweredOK DEF Answered
<1>5. Clean => Untouched(sync.slot) /\ sync.rx = Blank
  BY <1>1 DEF InWork
<1>6. CASE m.value \notin 1 .. Words \/ (sync.op = "apply" /\ m.value # Words)
  <2>1. s.op = sync.op
    BY <1>1 DEF Sync
  <2>2. Fail
    BY <1>6, <2>1 DEF HandleCfgSizeReply
  <2> QED
    BY <1>2, <2>2, FailOutcome
<1>7. CASE ~(m.value \notin 1 .. Words \/ (sync.op = "apply" /\ m.value # Words))
  <2>1. m.value \in 0 .. Words /\ 0 \in 0 .. Words /\ 0 \in Nat
    BY <1>7, WordsOK
  <2>2. s \in Sync /\ SameTarget(sync, s) /\ s.total = m.value /\ s.sub = sync.sub /\ s.rx = sync.rx
        /\ s.op = sync.op /\ s.slot = sync.slot
    BY <1>1, <2>1 DEF Sync, SameTarget
  <2>3. CASE sync.op \in {"read_all", "ign_block"}
    <3>1. SendReq(s, "word", "get", 0, 0)
      BY <1>7, <2>2, <2>3 DEF HandleCfgSizeReply, AskWord
    <3> HIDE DEF s
    <3>2. /\ Posted /\ SameTarget(sync, sync') /\ sync'.step = "word" /\ sync'.word = 0
          /\ sync'.waiting /\ sync'.cmd = "get"
          /\ sync'.total = m.value /\ sync'.rx = sync.rx /\ sync'.sub = "read"
          /\ sync'.op = sync.op /\ sync'.targets = sync.targets /\ sync'.slot = sync.slot
      BY <1>3, <2>1, <2>2, <3>1, AskAgain DEF Step, Command
    <3>5. Turned
      BY <1>3, <3>2 DEF Turned
    <3>3. ASSUME Clean PROVE InWork(sync.slot)'
      <4>1. AsSaved(sync.slot)' /\ Untouched(sync.slot)'
        BY <1>2, <1>5, <2>3, <3>2, <3>3 DEF Untouched, AsSaved
      <4>2. ReadSoFar(sync.slot)'
        BY <1>2, <1>5, <3>2, <3>3, <3>5, NoneYet DEF ReadSoFar, Blank
      <4> QED
        BY <3>2, <4>1, <4>2 DEF InWork
    <3>4. \A t \in Slot : t = sync.slot /\ Clean => InWork(t)'
      BY <3>2, <3>3
    <3> QED
      BY <1>2, <1>4, <3>2, <3>4, <3>5 DEF Outcome, Sized, Compared
  <2>4. CASE sync.op \in {"verify", "periodic"}
    <3> DEFINE u == [s EXCEPT !.expected = image[sync.slot]]
    <3>1. SendReq(u, "crc", "crc", 0, 0)
      BY <1>7, <2>2, <2>4 DEF HandleCfgSizeReply, ExpectedConfig
    <3> HIDE DEF s
    <3>2. image[sync.slot] \in Config
      BY <1>1, <1>3, SlotInUse
    <3>3. u \in Sync /\ SameTarget(s, u) /\ u.expected = image[sync.slot] /\ u.total = s.total
      BY <2>2, <3>2 DEF Sync, SameTarget
    <3> HIDE DEF u
    <3>4. SameTarget(sync, u)
      BY <2>2, <3>3 DEF SameTarget
    <3>5. /\ Posted /\ SameTarget(sync, sync') /\ sync'.step = "crc" /\ sync'.total = m.value
          /\ sync'.waiting /\ sync'.cmd = "crc"
          /\ sync'.expected = image[sync.slot]
          /\ sync'.op = sync.op /\ sync'.targets = sync.targets /\ sync'.slot = sync.slot
      BY <2>1, <2>2, <3>1, <3>3, <3>4, AskAgain DEF Step, Command
    <3>7. Turned
      BY <1>3, <3>5 DEF Turned
    <3>6. \A t \in Slot : InWork(t)'
      BY <2>4, <3>5 DEF InWork
    <3> QED
      BY <1>2, <1>4, <3>5, <3>6, <3>7 DEF Outcome, Sized, Compared
  <2>5. CASE sync.op = "apply"
    <3> DEFINE v == image[sync.slot][Field[0 + 1]]
    <3>1. SendReq(s, "set", "set", 0, v)
      <4>1. SetWord(s, 0, image[s.slot])
        BY <1>7, <2>2, <2>5 DEF HandleCfgSizeReply
      <4> HIDE DEF s
      <4> QED
        BY <2>2, <4>1 DEF SetWord
    <3> HIDE DEF s
    <3>2. v \in Nat
      <4>1. image[sync.slot] \in Config /\ image[sync.slot].zone \in Zones
        BY <1>1, <1>3, SlotInUse
      <4>2. 0 \in 0 .. Words - 1
        BY WordsOK
      <4>3. Fits(0, v)
        BY <4>1, <4>2, FieldOK
      <4> QED
        BY <4>3, FitsNat
    <3> HIDE DEF v
    <3>3. /\ Posted /\ SameTarget(sync, sync') /\ sync'.step = "set" /\ sync'.total = m.value
          /\ sync'.waiting /\ sync'.cmd = "set"
          /\ sync'.op = sync.op /\ sync'.targets = sync.targets /\ sync'.slot = sync.slot
      BY <2>1, <2>2, <3>1, <3>2, AskAgain DEF Step, Command
    <3>5. Turned
      BY <1>3, <3>3 DEF Turned
    <3>4. \A t \in Slot : InWork(t)'
      BY <2>5, <3>3 DEF InWork
    <3> QED
      BY <1>2, <1>4, <3>3, <3>4, <3>5 DEF Outcome, Sized, Compared
  <2> QED
    BY <1>3, <2>3, <2>4, <2>5
<1> QED
  BY <1>6, <1>7

LEMMA SetOutcome ==
    ASSUME NEW m, Answered(m), sync.step = "set", HandleSetCfgWordReply(m)
    PROVE  Outcome
<1> DEFINE s == [sync EXCEPT !.word = @ + 1]
           v == image[sync.slot][Field[s.word + 1]]
<1>1. /\ Waiting /\ sync \in Sync /\ AtStep(sync) /\ sync.slot \in Slot /\ Sized
      /\ Clean => InWork(sync.slot)
  BY AtWork DEF Answered, Timely
<1>2. UNCHANGED <<image, mcu, blocked, pending>>
  BY DEF HandleSetCfgWordReply, Answered
<1>3. /\ sync.cmd = "set" /\ sync.op \in {"apply", "ign_block"} /\ sync.word < sync.total
      /\ sync.word \in Nat /\ sync.total \in 0 .. Words /\ sync.total \in Nat /\ sync.waiting
  BY <1>1, SyncFields, WordsOK DEF AtStep, Waiting
<1>4. sync.total = Size[sync.slot]
  BY <1>1, <1>3 DEF Sized
<1>5. Clean /\ sync.op = "ign_block" => Told(image[sync.slot]) /\ sync.total # 1
  BY <1>1 DEF InWork
<1>6. sync.word + 1 \in 0 .. Words /\ sync.word + 1 \in Nat /\ 0 \in 0 .. Words /\ 0 \in Nat
  BY <1>3, WordsOK
<1>7. /\ s \in Sync /\ SameTarget(sync, s) /\ s.total = sync.total /\ s.word = sync.word + 1
      /\ s.sub = sync.sub
  BY <1>1, <1>6 DEF Sync, SameTarget
<1>8. /\ \/ Fail
         \/ s.word < s.total /\ SendReq(s, "set", "set", s.word, v)
         \/ SendReq(s, "save", "save", 0, 0)
  <2>1. m.word = sync.word
    BY DEF Answered
  <2> QED
    BY <2>1 DEF HandleSetCfgWordReply, Awaited, SetWord
<1>9. ASSUME SameTarget(sync, sync'), sync'.step \in {"set", "save"}, sync'.total = sync.total,
             sync'.op = sync.op, sync'.targets = sync.targets, sync'.slot = sync.slot, Posted,
             sync'.waiting, sync'.cmd = sync'.step,
             sync'.step = "set" => sync'.word # sync.word
      PROVE  Outcome
  <2>1. \A t \in Slot : t = sync.slot /\ Clean => InWork(t)'
    BY <1>2, <1>5, <1>9 DEF InWork, Told, Expected
  <2>2. Turned
    BY <1>3, <1>9 DEF Turned
  <2> QED
    BY <1>2, <1>4, <1>9, <2>1, <2>2 DEF Outcome, Sized, Compared
<1>10. CASE Fail
  BY <1>2, <1>10, FailOutcome
<1>11. CASE s.word < s.total /\ SendReq(s, "set", "set", s.word, v)
  <2>1. v \in Nat /\ s.word \in 0 .. Words
    <3>1. image[sync.slot] \in Config /\ image[sync.slot].zone \in Zones
      BY <1>1, <1>3, SlotInUse
    <3>2. s.word \in 0 .. Words - 1 /\ s.word \in 0 .. Words
      <4> HIDE DEF s
      <4> QED
        BY <1>3, <1>6, <1>7, <1>11, WordsOK
    <3> HIDE DEF s
    <3>3. Fits(s.word, v)
      BY <3>1, <3>2, FieldOK
    <3> QED
      BY <3>2, <3>3, FitsNat
  <2> HIDE DEF s, v
  <2>2. /\ Posted /\ SameTarget(sync, sync') /\ sync'.step = "set" /\ sync'.total = s.total
        /\ sync'.waiting /\ sync'.cmd = "set" /\ sync'.word = s.word
        /\ sync'.op = sync.op /\ sync'.targets = sync.targets /\ sync'.slot = sync.slot
    BY <1>7, <1>11, <2>1, AskAgain DEF Step, Command
  <2>3. sync'.word # sync.word
    BY <1>3, <1>7, <2>2
  <2> QED
    BY <1>7, <1>9, <2>2, <2>3
<1>12. CASE SendReq(s, "save", "save", 0, 0)
  <2> HIDE DEF s, v
  <2>1. /\ Posted /\ SameTarget(sync, sync') /\ sync'.step = "save" /\ sync'.total = s.total
        /\ sync'.waiting /\ sync'.cmd = "save"
        /\ sync'.op = sync.op /\ sync'.targets = sync.targets /\ sync'.slot = sync.slot
    BY <1>6, <1>7, <1>12, AskAgain DEF Step, Command
  <2> QED
    BY <1>7, <1>9, <2>1
<1> QED
  BY <1>8, <1>10, <1>11, <1>12

LEMMA SaveOutcome ==
    ASSUME NEW m, Answered(m), sync.step = "save", HandleSaveReply
    PROVE  Outcome
<1> DEFINE u == [sync EXCEPT !.zone = image[sync.slot].zone, !.expected = image[sync.slot]]
<1>1. /\ Waiting /\ sync \in Sync /\ AtStep(sync) /\ sync.slot \in Slot /\ Sized
      /\ Clean => InWork(sync.slot)
  BY AtWork DEF Answered, Timely
<1>2. UNCHANGED <<image, mcu, blocked, pending>>
  BY DEF HandleSaveReply, Answered
<1>3. sync.op \in {"apply", "ign_block"} /\ sync.waiting /\ sync.cmd = "save"
  BY <1>1 DEF AtStep, Waiting
<1>4. sync.total = Size[sync.slot]
  BY <1>1, <1>3 DEF Sized
<1>5. Clean /\ sync.op = "ign_block" => Told(image[sync.slot]) /\ sync.total # 1
  BY <1>1 DEF InWork
<1>6. Clean => AsSaved(sync.slot)
  BY <1>3, AnsweredOK DEF Answered, Answers, Clean
<1>7. image[sync.slot] \in Config /\ image[sync.slot].zone \in Zones
  BY <1>1, <1>3, SlotInUse
<1>8. u \in Sync /\ SameTarget(sync, u) /\ u.total = sync.total /\ u.expected = image[sync.slot]
  BY <1>1, <1>7 DEF Sync, SameTarget
<1>9. SendReq(u, "readback", "crc", 0, 0)
  BY DEF HandleSaveReply
<1> HIDE DEF u
<1>10. /\ Posted /\ SameTarget(sync, sync') /\ sync'.step = "readback" /\ sync'.total = sync.total
       /\ sync'.waiting /\ sync'.cmd = "crc"
       /\ sync'.expected = image[sync.slot]
       /\ sync'.op = sync.op /\ sync'.targets = sync.targets /\ sync'.slot = sync.slot
  BY <1>8, <1>9, AskAgain, WordsOK DEF Step, Command
<1>11. \A t \in Slot : t = sync.slot /\ Clean => InWork(t)'
  BY <1>2, <1>5, <1>6, <1>10 DEF InWork, Told, Expected, AsSaved
<1>12. Turned
  BY <1>3, <1>10 DEF Turned
<1> QED
  BY <1>2, <1>4, <1>10, <1>11, <1>12 DEF Outcome, Sized, Compared

\* A difference is latched of the MCU that was compared.
LEMMA LatchedIsDifferent ==
    ASSUME NEW m, Answered(m), sync.step \in {"crc", "readback"}, HandleCfgCrcReply(m),
           NEW t \in Sure(sync), ~latched[t], latched'[t]
    PROVE  image[t] # mcu[t].saved
<1>1. /\ Waiting /\ sync \in Sync /\ AtStep(sync) /\ sync.slot \in Slot /\ Compared
  BY AtWork DEF Answered, Timely
<1>2. sync.op = "periodic" /\ OnPeriodicCrcResult(sync.slot, m.config = sync.expected)
  BY DEF HandleCfgCrcReply
<1>3. t = sync.slot /\ m.config # sync.expected
  <2>1. latched \in [Slot -> BOOLEAN] /\ t \notin sync.unsure
    BY <1>1, RestStays DEF Sure
  <2>2. latched' = [latched EXCEPT ![sync.slot] =
                        ~(m.config = sync.expected) /\ (@ \/ streak[sync.slot] >= 1)]
    BY <1>2 DEF OnPeriodicCrcResult
  <2>3. DOMAIN latched = Slot
    BY <2>1
  <2>4. t \in Slot
    <3>1. sync.targets \in Seq(Slot)
      BY <1>1, SyncFields
    <3> QED
      BY <3>1 DEF Sure
  <2> QED
    BY <2>2, <2>3, <2>4, Zenon
<1>4. sync.expected = image[sync.slot]
  BY <1>1, <1>3 DEF Compared, Waiting, Sure
<1>5. m.config = mcu[sync.slot].saved
  <2>1. AtTarget(sync) /\ sync.targets \in Seq(Slot) /\ sync.pos \in Nat /\ sync.failed \in Nat
    BY <1>1, WaitingAtTarget, SyncFields
  <2>2. sync.pos <= 1 /\ sync.failed < sync.pos
    BY <1>2, <2>1 DEF Answered, Timely, Targeted, AtTarget, Working
  <2>3. sync.failed = 0
    BY <2>1, <2>2
  <2> QED
    BY <1>1, <2>3, AnsweredOK DEF Answered, Answers, AtStep
<1> QED
  BY <1>3, <1>4, <1>5

LEMMA CrcOutcome ==
    ASSUME NEW m, Answered(m), sync.step \in {"crc", "readback"}, HandleCfgCrcReply(m)
    PROVE  Outcome
<1> DEFINE match == m.config = sync.expected
<1>1. /\ Waiting /\ sync \in Sync /\ AtStep(sync) /\ sync.slot \in Slot /\ Sized /\ Compared
      /\ Clean => InWork(sync.slot)
  BY AtWork DEF Answered, Timely
<1>2. UNCHANGED <<image, mcu, blocked, pending>>
  BY DEF HandleCfgCrcReply, Answered
<1>3. sync.waiting /\ sync.cmd = "crc" /\ sync.op \in {"verify", "periodic", "apply", "ign_block"}
      /\ (sync.op \in {"apply", "ign_block"} => sync.step = "readback")
  BY <1>1 DEF AtStep, Waiting
<1>4. sync.op # "uid" /\ sync.total = Size[sync.slot]
  BY <1>1, <1>3 DEF Sized
<1>5. match /\ Clean => mcu[sync.slot].saved = image[sync.slot]
  BY <1>1, <1>3, AnsweredOK DEF Answered, Answers, Compared, Clean
<1>6. SameTarget(sync, sync)
  BY DEF SameTarget
<1>7. CASE NextTargetOrFinish(sync) /\ (sync.op \in {"periodic", "verify"} \/ (sync.op = "apply" /\ match))
  <2>1. sync'.op = sync.op => \A t \in Slot : t = sync.slot /\ Clean => Reached(t)'
    BY <1>2, <1>5, <1>7 DEF Reached
  <2> QED
    BY <1>1, <1>2, <1>3, <1>6, <1>7, <2>1, AdvanceOutcome
<1>8. CASE Fail
  BY <1>2, <1>8, FailOutcome
<1>9. CASE sync.op = "ign_block" /\ match /\ AskWord([sync EXCEPT !.sub = "readback"], 0)
  <2> DEFINE u == [sync EXCEPT !.sub = "readback"]
  <2>1. /\ u \in Sync /\ SameTarget(sync, u) /\ u.total = sync.total /\ u.sub = "readback"
        /\ u.rx = sync.rx
    BY <1>1 DEF Sync, SameTarget
  <2>2. SendReq(u, "word", "get", 0, 0)
    BY <1>9 DEF AskWord
  <2> HIDE DEF u
  <2>3. /\ Posted /\ SameTarget(sync, sync') /\ sync'.step = "word" /\ sync'.word = 0
        /\ sync'.waiting /\ sync'.cmd = "get"
        /\ sync'.total = sync.total /\ sync'.sub = "readback"
        /\ sync'.op = sync.op /\ sync'.targets = sync.targets /\ sync'.slot = sync.slot
    BY <2>1, <2>2, AskAgain, WordsOK DEF Step, Command
  <2>6. Turned
    BY <1>3, <2>3 DEF Turned
  <2>4. ASSUME Clean PROVE InWork(sync.slot)'
    <3>1. AsSaved(sync.slot) /\ Told(image[sync.slot]) /\ sync.total # 1
      BY <1>1, <1>3, <1>9, <2>4 DEF InWork
    <3>2. AsSaved(sync.slot)' /\ Told(image[sync.slot])'
      BY <1>2, <2>3, <3>1 DEF AsSaved, Told, Expected
    <3>3. ReadSoFar(sync.slot)'
      BY <1>2, <2>3, <2>4, <2>6, <3>1, NoneYet DEF ReadSoFar
    <3>4. (mcu[sync.slot].saved = image[sync.slot])'
      BY <1>2, <1>5, <1>9, <2>3, <2>4
    <3> QED
      BY <2>3, <3>2, <3>3, <3>4 DEF InWork
  <2>5. \A t \in Slot : t = sync.slot /\ Clean => InWork(t)'
    BY <2>3, <2>4
  <2> QED
    BY <1>2, <1>4, <2>3, <2>5, <2>6 DEF Outcome, Sized, Compared
<1> QED
  BY <1>3, <1>7, <1>8, <1>9 DEF HandleCfgCrcReply

\* The configuration that was read is the one the MCU works with and has saved.
LEMMA ReadIsWork ==
    ASSUME NEW m, Answered(m), sync.step = "word", sync.op # "uid", Clean,
           sync.word + 1 >= sync.total
    PROVE  /\ [sync.rx EXCEPT ![Field[m.word + 1]] = m.value] = mcu[sync.slot].work
           /\ AsSaved(sync.slot)
<1> DEFINE c == mcu[sync.slot].work
           rx == sync.rx
           v == m.value
<1>1. /\ Waiting /\ sync \in Sync /\ AtStep(sync) /\ sync.slot \in Slot /\ Sized /\ Housed
      /\ InWork(sync.slot)
  BY AtWork DEF Answered, Timely
<1>2. AsSaved(sync.slot) /\ ReadSoFar(sync.slot)
  BY <1>1 DEF InWork
<1>3. m.word = sync.word /\ sync.waiting /\ sync.failed = 0
  BY <1>1 DEF Answered, Waiting, Clean
<1>4. m.value = c[Field[sync.word + 1]]
  <2>1. 1 \in 1 .. Len(replies) /\ replies[1] = m /\ Current(m)
    BY <1>3, AnsweredOK
  <2> QED
    BY <1>2, <2>1 DEF ReadSoFar
<1>5. sync.word < sync.total /\ sync.word \in Nat /\ sync.total \in 0 .. 2 /\ sync.rx \in Config
  BY <1>1, SyncFields, WordsOK DEF AtStep
<1>6. c \in Config
  <2>1. mcu \in [Slot -> Mcu]
    BY <1>1, InvOthers DEF Waiting, Others
  <2> QED
    BY <1>1, <2>1, McuFields
<1>7. /\ rx = [zone |-> rx.zone, block |-> rx.block] /\ c = [zone |-> c.zone, block |-> c.block]
  BY <1>5, <1>6 DEF Config
<1>8. Field[1] = "zone" /\ Field[2] = "block" /\ c[Field[1]] = c.zone /\ c[Field[2]] = c.block
  BY <1>6, FieldOK DEF Field
<1>9. CASE sync.word = 0 /\ sync.total = 1
  <2>1. c.block = NoIgniter /\ rx.block = NoIgniter
    BY <1>1, <1>2, <1>3, <1>9 DEF Sized, Housed, ReadSoFar
  <2>2. [rx EXCEPT ![Field[m.word + 1]] = v] = [rx EXCEPT !.zone = v]
    BY <1>3, <1>8, <1>9
  <2>3. v = c.zone
    BY <1>4, <1>8, <1>9
  <2> HIDE DEF c, rx, v
  <2>4. [rx EXCEPT !.zone = v] = [zone |-> v, block |-> rx.block]
    BY <1>7
  <2>5. [rx EXCEPT ![Field[m.word + 1]] = v] = c
    BY <1>7, <2>1, <2>2, <2>3, <2>4
  <2> QED
    BY <1>2, <2>5 DEF c, rx, v
<1>10. CASE sync.word = 1 /\ sync.total = 2
  <2>1. rx.zone = c.zone
    BY <1>2, <1>10 DEF ReadSoFar
  <2>2. [rx EXCEPT ![Field[m.word + 1]] = v] = [rx EXCEPT !.block = v]
    BY <1>3, <1>8, <1>10
  <2>3. v = c.block
    BY <1>4, <1>8, <1>10
  <2> HIDE DEF c, rx, v
  <2>4. [rx EXCEPT !.block = v] = [zone |-> rx.zone, block |-> v]
    BY <1>7
  <2>5. [rx EXCEPT ![Field[m.word + 1]] = v] = c
    BY <1>7, <2>1, <2>2, <2>3, <2>4
  <2> QED
    BY <1>2, <2>5 DEF c, rx, v
<1> QED
  BY <1>5, <1>9, <1>10

LEMMA WordOutcome ==
    ASSUME NEW m, Answered(m), sync.step = "word", HandleCfgWordReply(m)
    PROVE  Outcome
<1> DEFINE s == [sync EXCEPT !.rx[Field[m.word + 1]] = m.value, !.word = @ + 1]
           rx == [sync.rx EXCEPT ![Field[m.word + 1]] = m.value]
           w == mcu[sync.slot].work
<1>1. /\ Waiting /\ sync \in Sync /\ AtStep(sync) /\ sync.slot \in Slot /\ Sized /\ Housed
      /\ Clean => InWork(sync.slot)
  BY AtWork DEF Answered, Timely
<1>2. UNCHANGED <<mcu, blocked, pending>> /\ image \in [Slot -> Config]
  BY <1>1, WaitingAtTarget DEF Answered, Surroundings
<1>3. /\ sync.op \in {"uid", "read_all", "ign_block"} /\ sync.sub \in {"read", "readback"}
      /\ sync.word < sync.total /\ (sync.word > 0 => sync.rx.zone \in Zones)
      /\ sync.word \in Nat /\ sync.total \in 0 .. Words /\ sync.rx \in Config
      /\ sync.cmd = "get" /\ sync.waiting
  BY <1>1, SyncFields, WordsOK DEF AtStep, Waiting
<1>4. sync.op # "uid" => sync.total = Size[sync.slot]
  BY <1>1, <1>3 DEF Sized
<1>5. /\ m \in Reply /\ m.word = sync.word /\ m.cmd = "get" /\ m.zone = sync.zone
      /\ Clean => m.zone = mcu[sync.slot].zone
  BY <1>3, AnsweredOK DEF Answered, Answers, Clean
<1>6. Fits(m.word, m.value)
  BY <1>5 DEF Reply
<1>7. rx \in Config /\ rx.zone \in Zones
  BY <1>3, <1>5, <1>6, FieldOK
<1>8. s = [sync EXCEPT !.rx = rx, !.word = sync.word + 1]
  BY <1>1 DEF Sync
<1> HIDE DEF rx
<1>9. sync.word + 1 \in 0 .. Words /\ sync.word + 1 \in Nat /\ 0 \in Nat /\ 0 \in 0 .. Words
  BY <1>3, WordsOK
<1> HIDE DEF s
<1>10. /\ s \in Sync /\ SameTarget(sync, s) /\ s.total = sync.total /\ s.sub = sync.sub
       /\ s.zone = sync.zone /\ s.rx = rx /\ s.word = sync.word + 1
  BY <1>1, <1>7, <1>8, <1>9 DEF Sync, SameTarget
<1>11. s.op = sync.op /\ s.slot = sync.slot
  BY <1>10 DEF SameTarget
<1>12. CASE s.word < s.total
  <2>1. SendReq(s, "word", "get", s.word, 0) /\ UNCHANGED image
    BY <1>5, <1>12 DEF HandleCfgWordReply, Awaited, AskWord, s
  <2>2. /\ Posted /\ SameTarget(sync, sync') /\ sync'.step = "word" /\ sync'.word = sync.word + 1
        /\ sync'.waiting /\ sync'.cmd = "get"
        /\ sync'.total = sync.total /\ sync'.rx = rx /\ sync'.sub = sync.sub
        /\ sync'.op = sync.op /\ sync'.targets = sync.targets /\ sync'.slot = sync.slot
    BY <1>9, <1>10, <2>1, AskAgain DEF Step, Command
  <2>6. Turned
    <3>1. sync'.word # sync.word
      BY <1>3, <2>2
    <3> QED
      BY <1>3, <2>2, <3>1 DEF Turned
  <2>3. ASSUME Clean, sync.op # "uid" PROVE InWork(sync.slot)'
    <3>1. /\ AsSaved(sync.slot) /\ ReadSoFar(sync.slot)
          /\ sync.sub = "read" => Untouched(sync.slot)
          /\ sync.sub = "readback" => mcu[sync.slot].saved = image[sync.slot]
                                      /\ Told(image[sync.slot])
      BY <1>1, <2>3 DEF InWork
    <3>2. sync.word = 0 /\ sync.total = 2
      BY <1>3, <1>10, <1>12, WordsOK
    <3>3. rx.zone = w.zone
      <4>1. 1 \in 1 .. Len(replies) /\ replies[1] = m /\ Current(m)
        BY <2>3, AnsweredOK DEF Clean
      <4>2. m.value = w[Field[sync.word + 1]]
        BY <3>1, <4>1 DEF ReadSoFar
      <4>3. w \in Config
        BY <1>1, InvOthers, McuFields DEF Waiting, Others
      <4>4. m.value = w.zone
        BY <3>2, <4>2, <4>3, FieldOK
      <4>5. rx = [sync.rx EXCEPT !.zone = m.value]
        BY <1>5, <3>2 DEF rx, Field
      <4> HIDE DEF w
      <4> QED
        BY <1>3, <4>4, <4>5 DEF Config
    <3>4. ReadSoFar(sync.slot)'
      BY <1>2, <2>2, <2>3, <2>6, <3>2, <3>3, NoneYet DEF ReadSoFar
    <3>5. AsSaved(sync.slot)' /\ (Untouched(sync.slot) => Untouched(sync.slot)')
      BY <1>2, <2>2, <3>1 DEF AsSaved, Untouched
    <3>6. sync.sub = "readback" => (mcu[sync.slot].saved = image[sync.slot]
                                    /\ Told(image[sync.slot]))'
      BY <1>2, <2>1, <2>2, <3>1 DEF Told, Expected
    <3> QED
      BY <2>2, <3>1, <3>4, <3>5, <3>6 DEF InWork
  <2>4. ASSUME sync.op = "uid" PROVE InWork(sync.slot)'
    BY <2>2, <2>4 DEF InWork
  <2>5. \A t \in Slot : t = sync.slot /\ Clean => InWork(t)'
    BY <2>2, <2>3, <2>4
  <2> QED
    BY <1>2, <1>4, <2>1, <2>2, <2>5, <2>6 DEF Outcome, Sized, Compared
<1>13. CASE ~(s.word < s.total)
  <2>1. WordsRead(s)
    BY <1>5, <1>13 DEF HandleCfgWordReply, Awaited, s
  <2>2. sync.op # "uid" /\ Clean => rx = w /\ AsSaved(sync.slot)
    <3>1. sync.word + 1 >= sync.total
      BY <1>3, <1>10, <1>13, WordsOK
    <3> QED
      BY <3>1, ReadIsWork DEF rx
  <2>3. CASE sync.op = "uid"
    <3>1. NextTargetOrFinish(s) /\ UNCHANGED image
      BY <1>11, <2>1, <2>3 DEF WordsRead
    <3>2. sync'.op = sync.op => \A t \in Slot : t = sync.slot /\ Clean => Reached(t)'
      BY <2>3 DEF Reached
    <3> QED
      BY <1>3, <1>10, <3>1, <3>2, AdvanceOutcome
  <2>4. CASE sync.op = "read_all" \/ (sync.op = "ign_block" /\ sync.sub = "readback")
    <3>1. NextTargetOrFinish(s) /\ image' = [image EXCEPT ![sync.slot] = rx]
      BY <1>10, <1>11, <2>1, <2>4 DEF WordsRead
    <3>2. image'[sync.slot] = rx /\ \A t \in Slot \ {sync.slot} : image'[t] = image[t]
      BY <1>1, <1>2, <3>1
    <3>3. ASSUME sync'.op = sync.op, Clean
          PROVE  \A t \in Slot : t = sync.slot => Reached(t)'
      <4>1. image'[sync.slot] = w /\ AsSaved(sync.slot)
        BY <2>2, <2>4, <3>2, <3>3
      <4>2. sync.op = "ign_block" => Told(mcu[sync.slot].saved)
        <5>1. CASE sync.op = "ign_block"
          <6>1. mcu[sync.slot].saved = image[sync.slot] /\ Told(image[sync.slot])
            BY <1>1, <2>4, <3>3, <5>1 DEF InWork
          <6> QED
            BY <6>1
        <5> QED
          BY <5>1
      <4> QED
        BY <1>2, <2>4, <3>3, <4>1, <4>2 DEF Reached, AsSaved, Told, Expected
    <3> QED
      BY <1>3, <1>10, <2>4, <3>1, <3>2, <3>3, AdvanceOutcome
  <2>5. CASE sync.op = "ign_block" /\ sync.sub = "read"
    <3> DEFINE config == Patched(rx, sync.zone)
               u == [s EXCEPT !.sub = "apply"]
    <3>1. /\ IF config = rx THEN NextTargetOrFinish(s) ELSE SetWord(u, 0, config)
          /\ image' = [image EXCEPT ![sync.slot] = config]
      BY <1>10, <1>11, <2>1, <2>5 DEF WordsRead
    <3>2. image'[sync.slot] = config /\ \A t \in Slot \ {sync.slot} : image'[t] = image[t]
      BY <1>1, <1>2, <3>1
    <3>3. config \in Config /\ config.zone = rx.zone /\ config.zone \in Zones
      BY <1>7, PatchedOK
    <3>4. Clean => /\ rx = mcu[sync.slot].saved /\ rx.block # NoIgniter /\ rx.zone = sync.zone
                   /\ config.block = Expected(rx.zone)
      <4> SUFFICES ASSUME Clean
                   PROVE  /\ rx = mcu[sync.slot].saved /\ rx.block # NoIgniter
                          /\ rx.zone = sync.zone /\ config.block = Expected(rx.zone)
        OBVIOUS
      <4>1. rx = mcu[sync.slot].saved
        BY <2>2, <2>5 DEF AsSaved
      <4>2. rx.block # NoIgniter
        BY <1>1, <2>5, <4>1 DEF InWork, Untouched
      <4>3. rx.zone = sync.zone
        BY <1>1, <1>5, <4>1 DEF Housed
      <4>4. config = [rx EXCEPT !.block = Expected(sync.zone)]
        BY <4>2 DEF Patched
      <4>5. config.block = Expected(sync.zone)
        BY <1>7, <4>4 DEF Config
      <4> QED
        BY <4>1, <4>2, <4>3, <4>5
    <3> HIDE DEF config
    <3>5. CASE config = rx
      <4>1. ASSUME sync'.op = sync.op, Clean
            PROVE  \A t \in Slot : t = sync.slot => Reached(t)'
        <5>1. /\ image'[sync.slot] = w /\ AsSaved(sync.slot)
              /\ mcu[sync.slot].saved.block = Expected(mcu[sync.slot].saved.zone)
          BY <2>2, <2>5, <3>2, <3>4, <3>5, <4>1
        <5> QED
          BY <1>2, <2>5, <4>1, <5>1 DEF Reached, AsSaved, Told, Expected
      <4> QED
        BY <1>3, <1>10, <2>5, <3>1, <3>2, <3>5, <4>1, AdvanceOutcome
    <3>6. CASE config # rx
      <4> DEFINE v == config[Field[0 + 1]]
      <4>1. SendReq(u, "set", "set", 0, v)
        BY <3>1, <3>6 DEF SetWord
      <4>2. u \in Sync /\ SameTarget(s, u) /\ u.total = s.total
        BY <1>10 DEF Sync, SameTarget
      <4> HIDE DEF u
      <4>3. SameTarget(sync, u)
        BY <1>10, <4>2 DEF SameTarget
      <4>4. v \in Nat
        <5>1. 0 \in 0 .. Words - 1
          BY WordsOK
        <5>2. Fits(0, v)
          BY <3>3, <5>1, FieldOK
        <5> QED
          BY <5>2, FitsNat
      <4> HIDE DEF v
      <4>5. /\ Posted /\ SameTarget(sync, sync') /\ sync'.step = "set" /\ sync'.total = sync.total
            /\ sync'.waiting /\ sync'.cmd = "set"
            /\ sync'.op = sync.op /\ sync'.targets = sync.targets /\ sync'.slot = sync.slot
        BY <1>9, <1>10, <4>1, <4>2, <4>3, <4>4, AskAgain DEF Step, Command
      <4>6. ASSUME Clean PROVE InWork(sync.slot)'
        <5>1. Told(image[sync.slot])'
          BY <1>2, <3>2, <3>3, <3>4, <4>5, <4>6 DEF Told, Expected
        <5>2. sync.total # 1
          BY <1>1, <1>4, <2>5, <3>4, <4>6 DEF Housed
        <5> QED
          BY <4>5, <5>1, <5>2 DEF InWork
      <4>7. \A t \in Slot : t = sync.slot /\ Clean => InWork(t)'
        BY <4>5, <4>6
      <4>8. Turned
        BY <1>3, <4>5 DEF Turned
      <4> QED
        BY <1>4, <2>5, <3>2, <4>5, <4>7, <4>8 DEF Outcome, Sized, Compared
    <3> QED
      BY <3>5, <3>6
  <2> QED
    BY <1>3, <2>3, <2>4, <2>5
<1> QED
  BY <1>12, <1>13
-----------------------------------------------------------------------------
(* The steps of the panel. *)

\* A difference is only latched where there is one.
LatchedRightly == \A t \in Sure(sync) : ~latched[t] /\ latched'[t] => image[t] # mcu[t].saved

LEMMA NothingLatched ==
    ASSUME UNCHANGED latched
    PROVE  LatchedRightly
BY DEF LatchedRightly

LEMMA SameSync ==
    ASSUME UNCHANGED sync
    PROVE  Truthful
BY DEF Truthful

LEMMA LessAt ==
    ASSUME NEW S, NEW q \in Seq(S), NEW r, Less(q, r)
    PROVE  \A i \in 1 .. Len(r) : \E j \in 1 .. Len(q) : r[i] = q[j]
<1>1. CASE r = q
  BY <1>1
<1>2. CASE q # <<>> /\ r = Tail(q)
  BY <1>2, TailAt
<1> QED
  BY <1>1, <1>2 DEF Less

LEMMA PlainLess ==
    ASSUME Inv, Plain, Less(requests, requests'), Less(replies, replies')
    PROVE  Plain'
<1>1. requests \in Seq(Request) /\ replies \in Seq(Reply)
  BY InvOthers DEF Others
<1>2. /\ \A i \in 1 .. Len(requests') : \E j \in 1 .. Len(requests) : requests'[i] = requests[j]
      /\ \A i \in 1 .. Len(replies') : \E j \in 1 .. Len(replies) : replies'[i] = replies[j]
  BY <1>1, LessAt
<1>3. ASSUME NEW i \in 1 .. Len(requests')
      PROVE  requests'[i].cmd = "set" => requests'[i].word < Size[requests'[i].slot]
  <2>1. PICK j \in 1 .. Len(requests) : requests'[i] = requests[j]
    BY <1>2
  <2> QED
    BY <2>1 DEF Plain
<1>4. ASSUME NEW i \in 1 .. Len(replies')
      PROVE  replies'[i].cmd = "size" => replies'[i].value = Size[replies'[i].slot]
  <2>1. PICK j \in 1 .. Len(replies) : replies'[i] = replies[j]
    BY <1>2
  <2> QED
    BY <2>1 DEF Plain
<1> QED
  BY <1>3, <1>4 DEF Plain

LEMMA ReadLess ==
    ASSUME Inv, UNCHANGED sync, Less(replies, replies'), NEW t, mcu'[t].work = mcu[t].work
    PROVE  ReadSoFar(t) => ReadSoFar(t)'
<1>1. replies \in Seq(Reply)
  BY InvOthers DEF Others
<1>2. \A i \in 1 .. Len(replies') : \E j \in 1 .. Len(replies) : replies'[i] = replies[j]
  BY <1>1, LessAt
<1> QED
  BY <1>2 DEF ReadSoFar, Current

LEMMA FollowedLess ==
    ASSUME Inv, Followed, UNCHANGED sync, Less(requests, requests'), Less(replies, replies'),
           \A m \in Reply : Current(m) /\ Answers(m) => Answers(m)'
    PROVE  Followed'
<1>1. requests \in Seq(Request) /\ replies \in Seq(Reply)
  BY InvOthers DEF Others
<1>2. UNCHANGED Frame(sync)
  BY DEF Frame
<1> SUFFICES ASSUME Trail PROVE Trail'
  BY DEF Followed
<1> QED
  BY <1>1, <1>2, TrailLess DEF Less

\* A frame is lost, reaches nobody or is not taken.
LEMMA QuietTimely ==
    ASSUME Inv, Timely, UNCHANGED <<sync, image, blocked, pending, mcu>>,
           Less(requests, requests'), Less(replies, replies')
    PROVE  Timely'
<1>1. Housed' /\ Sized' /\ Compared' /\ Targeted'
  BY DEF Timely, Housed, Sized, Compared, Targeted
<1>2. Plain' /\ Followed'
  <2>1. \A m \in Reply : Answers(m) => Answers(m)'
    BY DEF Answers, AsSaved
  <2> QED
    BY <2>1, PlainLess, FollowedLess DEF Timely
<1>3. ASSUME NEW t
      PROVE  /\ Reached(t) => Reached(t)'
             /\ Untouched(t) => Untouched(t)'
             /\ InWork(t) => InWork(t)'
  <2>1. ReadSoFar(t) => ReadSoFar(t)'
    BY ReadLess
  <2>2. Reached(t) => Reached(t)'
    BY DEF Reached, AsSaved, Told, Expected
  <2>3. Untouched(t) => Untouched(t)'
    BY DEF Untouched, AsSaved
  <2>4. Told(image[t]) => Told(image[t])'
    BY DEF Told, Expected
  <2>5. InWork(t) => InWork(t)'
    BY <2>1, <2>3, <2>4 DEF InWork, AsSaved
  <2> QED
    BY <2>2, <2>3, <2>5
<1>4. Tracked'
  BY <1>3 DEF Timely, Tracked
<1> QED
  BY <1>1, <1>2, <1>4 DEF Timely

LEMMA ListenerTimely ==
    ASSUME Inv, Timely, OnListenerMessage
    PROVE  Timely' /\ Truthful /\ LatchedRightly
<1> DEFINE m == Head(replies)
           idle == ~sync.waiting \/ m.slot # sync.slot \/ m.zone # sync.zone \/ m.cmd # sync.cmd
<1>1. replies # <<>> /\ replies' = Tail(replies) /\ UNCHANGED <<blocked, pending, mcu>>
  BY DEF OnListenerMessage
<1>2. m \in Reply
  BY <1>1, TakeOK, InvOthers DEF Others
<1>3. ASSUME UNCHANGED <<sync, requests, image, latched>>
      PROVE  Timely' /\ Truthful /\ LatchedRightly
  BY <1>1, <1>3, QuietTimely, SameSync, NothingLatched DEF Less
<1>4. CASE idle
  BY <1>3, <1>4 DEF OnListenerMessage
<1>5. CASE ~idle
  <2>1. (CASE sync.step = "size" -> HandleCfgSizeReply(m)
           [] sync.step = "word" -> HandleCfgWordReply(m)
           [] sync.step \in {"crc", "readback"} -> HandleCfgCrcReply(m)
           [] sync.step = "set" -> HandleSetCfgWordReply(m)
           [] sync.step = "save" -> HandleSaveReply)
    BY <1>5 DEF OnListenerMessage
  <2>2. Waiting /\ m.slot = sync.slot /\ m.zone = sync.zone /\ m.cmd = sync.cmd
    BY <1>5, InvOthers, SyncFields DEF Waiting
  <2>3. AtStep(sync)
    BY <2>2, WaitingAtTarget
  <2> HIDE DEF m, idle
  <2>4. CASE sync.step \in {"word", "set"} /\ ~Awaited(m)
    <3>1. UNCHANGED <<sync, requests, image, latched>>
      BY <2>1, <2>4 DEF HandleCfgWordReply, HandleSetCfgWordReply
    <3> QED
      BY <1>3, <3>1
  <2>5. CASE ~(sync.step \in {"word", "set"} /\ ~Awaited(m))
    <3>1. Answered(m)
      BY <1>1, <1>2, <2>2, <2>5 DEF Answered, Awaited, m
    <3>2. Outcome /\ LatchedRightly
      <4>1. CASE sync.step = "size"
        <5>1. HandleCfgSizeReply(m)
          BY <2>1, <4>1
        <5>2. UNCHANGED latched
          BY <5>1 DEF HandleCfgSizeReply
        <5> QED
          BY <3>1, <4>1, <5>1, <5>2, SizeOutcome, NothingLatched
      <4>2. CASE sync.step = "word"
        <5>1. HandleCfgWordReply(m)
          BY <2>1, <4>2
        <5>2. UNCHANGED latched
          BY <5>1 DEF HandleCfgWordReply
        <5> QED
          BY <3>1, <4>2, <5>1, <5>2, WordOutcome, NothingLatched
      <4>3. CASE sync.step \in {"crc", "readback"}
        <5>1. HandleCfgCrcReply(m)
          BY <2>1, <4>3
        <5> QED
          BY <3>1, <4>3, <5>1, CrcOutcome, LatchedIsDifferent DEF LatchedRightly
      <4>4. CASE sync.step = "set"
        <5>1. HandleSetCfgWordReply(m)
          BY <2>1, <4>4
        <5>2. UNCHANGED latched
          BY <5>1 DEF HandleSetCfgWordReply
        <5> QED
          BY <3>1, <4>4, <5>1, <5>2, SetOutcome, NothingLatched
      <4>5. CASE sync.step = "save"
        <5>1. HandleSaveReply
          BY <2>1, <4>5
        <5>2. UNCHANGED latched
          BY <5>1 DEF HandleSaveReply
        <5> QED
          BY <3>1, <4>5, <5>1, <5>2, SaveOutcome, NothingLatched
      <4> QED
        BY <2>3, <4>1, <4>2, <4>3, <4>4, <4>5 DEF AtStep
    <3>3. Inv'
      BY ListenerInv
    <3> QED
      BY <3>1, <3>2, <3>3, AfterAnswer
  <2> QED
    BY <2>4, <2>5
<1> QED
  BY <1>4, <1>5

\* The first frame under way.
LEMMA TrailFirst ==
    ASSUME requests = <<>>, replies' = <<>>, sync'.waiting, Posted
    PROVE  Trail'
<1>1. requests' = <<>> \/ requests' = <<Frame(sync')>>
  BY DEF Posted, Put
<1>2. Asked(Frame(sync))'
  BY DEF Asked, Current, Frame
<1>3. CASE requests' = <<>>
  BY <1>3 DEF Trail
<1>4. CASE requests' = <<Frame(sync')>>
  <2>1. Len(requests') = 1 /\ requests'[1] = Frame(sync')
    BY <1>4
  <2>2. \A i \in 1 .. Len(requests') : i = 1
    BY <2>1
  <2> QED
    BY <1>2, <2>1, <2>2 DEF Trail
<1> QED
  BY <1>1, <1>3, <1>4

\* The first target of an operation is begun.
LEMMA OpeningTimely ==
    ASSUME Inv, Timely, sync.busy, sync.step = "idle",
           IF sync.op = "uid" THEN StartUid(sync) ELSE StartTarget(sync, 1),
           UNCHANGED <<image, blocked, pending, replies, mcu>>, Inv'
    PROVE  Timely' /\ sync'.busy
<1>1. /\ sync \in Sync /\ Begun(sync) /\ sync.op \in Op /\ sync.failed \in Nat
      /\ sync.targets \in Seq(Slot) /\ Listed(image, sync) /\ Surroundings
      /\ sync.pos = 0 /\ ~sync.waiting /\ sync.targets # <<>>
  BY InvOthers, SyncFields DEF Stage, Resting, AtStep, Surroundings, Others, Begun
<1>2. requests = <<>> /\ replies = <<>> /\ replies' = <<>>
  <2>1. sync.failed = 0
    BY <1>1, SyncFields DEF Begun, Working
  <2>2. Trail
    BY <2>1 DEF Timely, Followed
  <2> QED
    BY <1>1, <2>2 DEF Trail
<1>3. Housed' /\ Targeted
  BY DEF Timely, Housed
<1>7. ASSUME sync'.busy, sync'.waiting, sync'.op = sync.op, sync'.targets = sync.targets,
             Posted, Sized', Compared', Tracked'
      PROVE  Timely'
  <2>1. Targeted' /\ Followed'
    BY <1>2, <1>3, <1>7, TrailFirst DEF Targeted, Followed
  <2>2. sync' \in Sync /\ Stage(sync')
    BY DEF Inv
  <2>3. Plain'
    BY <1>7, <2>2, PlainPosted DEF Timely, Less
  <2> QED
    BY <1>3, <1>7, <2>1, <2>3 DEF Timely
<1>4. Len(sync.targets) \in Nat /\ Len(sync.targets) > 0
  BY <1>1
<1>5. CASE sync.op = "uid"
  <2> DEFINE first == sync.targets[1]
             u == [sync EXCEPT !.pos = 1, !.slot = first, !.total = Words]
             t == Asking(u, "word", "get", 0, 0)
  <2>1. SendReq(u, "word", "get", 0, 0)
    BY <1>5 DEF StartUid, AskWord
  <2>2. /\ u \in Sync /\ u.pos = 1 /\ u.busy = sync.busy /\ u.op = sync.op
        /\ u.targets = sync.targets /\ u.unsure = sync.unsure /\ u.failed = sync.failed
    <3>1. 1 \in Nat /\ Words \in 0 .. Words /\ first \in Slot
      BY <1>1, <1>4, WordsOK
    <3> HIDE DEF first
    <3> QED
      BY <1>1, <3>1 DEF Sync
  <2> HIDE DEF u
  <2>3. sync' = t /\ Posted
    <3>1. "waiting" \in DOMAIN u
      BY <2>2 DEF Sync
    <3>2. sync' = t
      BY <2>1 DEF SendReq, Asking
    <3> QED
      BY <2>1, <3>1, <3>2, SendPosted
  <2>4. SameTarget(u, t) /\ t.step = "word" /\ t.waiting
    <3>1. "word" \in Step /\ "get" \in Command /\ 0 \in 0 .. Words /\ 0 \in Nat
      BY WordsOK DEF Step, Command
    <3> QED
      BY <2>2, <3>1, AskingFields
  <2> HIDE DEF t
  <2>5. /\ sync'.busy /\ sync'.op = "uid" /\ sync'.pos = 1 /\ sync'.step = "word"
        /\ sync'.targets = sync.targets /\ sync'.waiting
    BY <1>5, <2>2, <2>3, <2>4 DEF SameTarget
  <2>6. Len(sync.targets) = 1
    BY <1>1, <1>5 DEF Listed
  <2>7. Tracked'
    BY <2>5, <2>6 DEF Tracked, InWork
  <2>8. Sized' /\ Compared'
    BY <2>5 DEF Sized, Compared
  <2> QED
    BY <1>5, <1>7, <2>3, <2>5, <2>7, <2>8
<1>6. CASE sync.op # "uid"
  <2>1. StartTarget(sync, 1) /\ Posted
    BY <1>1, <1>6, NextPosted
  <2>2. Between(sync, 1)
    BY <1>1, <1>4, <1>6 DEF Between, Begun, Working, Listed, Op
  <2>3. Opening(sync, sync', 1)
    BY <1>1, <1>4, <2>1, <2>2, StartTargetOK
  <2>4. /\ sync'.busy /\ sync'.failed = sync.failed /\ sync'.unsure = sync.unsure
        /\ sync'.pos = 1 /\ sync'.step = "size" /\ sync'.rx = Blank /\ sync'.op = sync.op
        /\ sync'.targets = sync.targets
    BY <2>3 DEF Opening
  <2>5. Sized' /\ Compared' /\ sync'.waiting
    BY <2>4 DEF Sized, Compared, Inv, TypeOK
  <2>6. Tracked'
    <3> SUFFICES ASSUME sync.failed = 0, NEW i \in 1 .. Len(sync.targets),
                        sync.targets[i] \notin sync.unsure
                 PROVE  /\ i < 1 => Reached(sync.targets[i])'
                        /\ Untouched(sync.targets[i])'
                        /\ i = 1 => InWork(sync.targets[i])'
      BY <2>4 DEF Tracked
    <3>1. i > sync.pos /\ ~(i < 1)
      BY <1>1
    <3>2. Untouched(sync.targets[i])
      BY <3>1 DEF Timely, Tracked
    <3>3. Untouched(sync.targets[i])'
      BY <2>4, <3>2 DEF Untouched, AsSaved
    <3> QED
      BY <2>4, <3>1, <3>3 DEF InWork
  <2> QED
    BY <1>7, <2>1, <2>4, <2>5, <2>6
<1> QED
  BY <1>5, <1>6

\* A request that is repeated is the one that waits.
LEMMA ResentTimely ==
    ASSUME Waiting, Timely, sync' = Resent, Inv',
           requests' = Put(requests, Frame(sync)),
           UNCHANGED <<image, blocked, pending, replies, mcu>>
    PROVE  Timely' /\ sync'.busy
<1>1. sync \in Sync /\ sync.retries + 1 \in Nat /\ sync.busy
  BY AtWork, SyncFields
<1>2. requests \in Seq(Request) /\ replies \in Seq(Reply)
  BY InvOthers DEF Waiting, Others
<1>3. /\ sync' \in Sync /\ SameTarget(sync, sync') /\ Frame(sync') = Frame(sync)
      /\ sync'.step = sync.step /\ sync'.sub = sync.sub /\ sync'.word = sync.word
      /\ sync'.total = sync.total /\ sync'.rx = sync.rx /\ sync'.waiting = sync.waiting
      /\ sync'.slot = sync.slot /\ sync'.cmd = sync.cmd /\ sync'.expected = sync.expected
  BY <1>1 DEF Resent, Sync, SameTarget, Frame
<1>4. Posted
  BY <1>3 DEF Posted, Waiting
<1>6. Housed' /\ Sized' /\ Compared' /\ Targeted'
  BY <1>3 DEF Timely, Housed, Sized, Compared, SameTarget, Targeted
<1>5. Plain' /\ Followed'
  <2>1. sync' \in Sync /\ Stage(sync')
    BY DEF Inv
  <2>2. Plain'
    BY <1>4, <1>6, <2>1, PlainPosted DEF Waiting, Timely, Less
  <2>3. Frame(sync) \in Request
    <3>1. AtStep(sync)
      BY WaitingAtTarget
    <3>2. sync.cmd # "none"
      BY <3>1 DEF AtStep
    <3> QED
      BY <1>1, <3>1, <3>2, FrameOK
  <2>4. UNCHANGED <<Frame(sync), mcu, replies>> /\ sync'.waiting
    BY <1>3 DEF Waiting, Frame
  <2>5. Trail => Trail'
    BY <1>2, <1>3, <2>3, <2>4, TrailAgain
  <2>6. sync'.busy = sync.busy /\ sync'.failed = sync.failed
    BY <1>3 DEF SameTarget
  <2> QED
    BY <2>2, <2>5, <2>6 DEF Timely, Followed
<1>7. /\ sync'.busy = sync.busy /\ sync'.op = sync.op /\ sync'.failed = sync.failed
      /\ sync'.targets = sync.targets /\ sync'.pos = sync.pos /\ sync'.unsure = sync.unsure
  BY <1>3 DEF SameTarget
<1>8. Tracked'
  <2> SUFFICES ASSUME sync.busy, sync.failed = 0, NEW i \in 1 .. Len(sync.targets),
                      sync.targets[i] \notin sync.unsure
               PROVE  /\ i < sync.pos => Reached(sync.targets[i])'
                      /\ i > sync.pos => Untouched(sync.targets[i])'
                      /\ i = sync.pos => InWork(sync.targets[i])'
    BY <1>7 DEF Tracked
  <2>1. /\ i < sync.pos => Reached(sync.targets[i])
        /\ i > sync.pos => Untouched(sync.targets[i])
        /\ i = sync.pos => InWork(sync.targets[i])
    BY DEF Timely, Tracked
  <2>2. Reached(sync.targets[i]) => Reached(sync.targets[i])'
    BY <1>7 DEF Reached, AsSaved, Told, Expected
  <2>3. Untouched(sync.targets[i]) => Untouched(sync.targets[i])'
    BY <1>7 DEF Untouched, AsSaved
  <2>4. InWork(sync.targets[i]) => InWork(sync.targets[i])'
    BY <1>3, <1>7 DEF InWork, ReadSoFar, Current, Untouched, AsSaved, Told, Expected
  <2> QED
    BY <2>1, <2>2, <2>3, <2>4
<1> QED
  BY <1>1, <1>5, <1>6, <1>7, <1>8 DEF Timely

LEMMA GivenUpTimely ==
    ASSUME Waiting, Timely, Fail, UNCHANGED <<image, blocked, pending, replies, mcu>>, Inv'
    PROVE  Timely' /\ Truthful
<1>1. sync \in Sync
  BY AtWork
<1>2. /\ sync'.targets = sync.targets /\ sync'.op = sync.op
      /\ (sync'.busy => sync'.failed > 0)
      /\ (~sync'.busy => ~sync'.success)
      /\ (sync'.waiting => sync'.step = "size")
  BY FailOK
<1>3. Housed' /\ Targeted'
  BY <1>2 DEF Timely, Housed, Targeted
<1>4. Sized' /\ Compared'
  BY <1>2 DEF Sized, Compared
<1>5. Plain'
  <2>1. sync' \in Sync /\ Stage(sync')
    BY DEF Inv
  <2> QED
    BY <1>1, <1>4, <2>1, FailPosted, PlainPosted DEF Waiting, Timely, Less
<1>6. Tracked' /\ Followed' /\ Truthful
  BY <1>2 DEF Tracked, Followed, Truthful
<1> QED
  BY <1>3, <1>4, <1>5, <1>6 DEF Timely

LEMMA ProcessTimely ==
    ASSUME Inv, Timely, ConfigSync_Process1ms
    PROVE  Timely' /\ Truthful /\ LatchedRightly
<1>1. /\ sync.busy /\ UNCHANGED <<image, blocked, pending, latched, replies, mcu>>
      /\ Inv'
  BY ProcessInv DEF ConfigSync_Process1ms
<1>2. LatchedRightly
  BY <1>1, NothingLatched
<1>3. CASE sync.step = "idle" /\ IF sync.op = "uid" THEN StartUid(sync) ELSE StartTarget(sync, 1)
  <2>1. Timely' /\ sync'.busy
    BY <1>1, <1>3, OpeningTimely
  <2> QED
    BY <1>2, <2>1 DEF Truthful
<1>4. CASE sync.waiting /\ sync' = Resent /\ requests' = Put(requests, Frame(sync))
  <2>1. Timely' /\ sync'.busy
    BY <1>1, <1>4, ResentTimely DEF Waiting
  <2> QED
    BY <1>2, <2>1 DEF Truthful
<1>5. CASE sync.waiting /\ Fail
  BY <1>1, <1>2, <1>5, GivenUpTimely DEF Waiting
<1> QED
  BY <1>3, <1>4, <1>5 DEF ConfigSync_Process1ms

\* A new operation finds nothing under way.
LEMMA FreshTimely ==
    ASSUME Inv, Timely, ~sync.busy, NEW op, NEW targets \in Seq(Slot),
           sync'.op = op, sync'.targets = targets, sync'.pos = 0, ~sync'.waiting,
           sync'.unsure = {s \in Slot : targets # <<>> /\ HalfWritten(s)},
           Distinct(targets), op = "periodic" => Len(targets) = 1,
           op = "ign_block" => \A i \in 1 .. Len(targets) : targets[i] \in EligibleForIgnBlock,
           SettledStart, UNCHANGED <<requests, replies, mcu>>
    PROVE  Timely' /\ Truthful
<1>1. sync'.busy => requests = <<>> /\ replies = <<>>
  BY DEF SettledStart, wire
<1>2. Followed'
  BY <1>1 DEF Followed, Trail
<1>3. Housed' /\ Plain' /\ Sized' /\ Compared' /\ Targeted'
  BY DEF Timely, Housed, Plain, Sized, Compared, Targeted
<1>4. Tracked'
  <2> SUFFICES ASSUME NEW i \in 1 .. Len(targets), targets[i] \notin sync'.unsure
               PROVE  /\ i < 0 => Reached(targets[i])'
                      /\ i > 0 => Untouched(targets[i])'
                      /\ i = 0 => InWork(targets[i])'
    BY DEF Tracked
  <2>1. i \in Nat /\ i > 0 /\ ~(i < 0) /\ i # 0 /\ targets # <<>> /\ targets[i] \in Slot
    OBVIOUS
  <2>2. ~HalfWritten(targets[i])
    BY <2>1
  <2>3. mcu[targets[i]].work = mcu[targets[i]].saved
    BY <2>2 DEF HalfWritten
  <2>4. op = "ign_block" => mcu[targets[i]].work.block # NoIgniter
    BY DEF EligibleForIgnBlock
  <2>5. Untouched(targets[i])'
    BY <2>3, <2>4 DEF Untouched, AsSaved
  <2> QED
    BY <2>1, <2>5
<1> QED
  BY <1>2, <1>3, <1>4 DEF Timely, Truthful

\* An operation under way is not disturbed; a change of the zones is noted.
LEMMA BusyTimely ==
    ASSUME Inv, Timely, sync.busy, UNCHANGED <<sync, image, requests, replies, mcu>>,
           pending' \/ UNCHANGED <<blocked, pending>>
    PROVE  Timely' /\ Truthful
<1>1. Housed' /\ Plain' /\ Sized' /\ Compared' /\ Targeted'
  BY DEF Timely, Housed, Plain, Sized, Compared, Targeted
<1>5. Followed'
  <2>1. \A m \in Reply : Answers(m) => Answers(m)'
    BY DEF Answers, AsSaved
  <2> QED
    BY <2>1, FollowedLess DEF Timely, Less
<1>2. \A c : Told(c) => Told(c)'
  BY DEF Told, Expected
<1>3. ASSUME NEW t
      PROVE  /\ Reached(t) => Reached(t)'
             /\ Untouched(t) => Untouched(t)'
             /\ InWork(t) => InWork(t)'
  <2>1. Untouched(t) => Untouched(t)'
    BY DEF Untouched, AsSaved
  <2>2. Told(mcu[t].saved) => Told(mcu[t].saved)'
    BY <1>2
  <2>3. Told(image[t]) => Told(image[t])'
    BY <1>2
  <2>4. Reached(t) => Reached(t)'
    BY <2>2 DEF Reached, AsSaved
  <2>5. InWork(t) => InWork(t)'
    BY <2>1, <2>3 DEF InWork, ReadSoFar, Current, AsSaved
  <2> QED
    BY <2>1, <2>4, <2>5
<1>4. Tracked'
  BY <1>3 DEF Timely, Tracked
<1> QED
  BY <1>1, <1>4, <1>5 DEF Timely, Truthful

\* An operation is begun, or another one is under way.
LEMMA BeginTimely ==
    ASSUME Inv, Timely, NEW op \in Op \ {"none"}, NEW targets \in Seq(Slot),
           sync' = IF sync.busy THEN sync ELSE Started(op, targets),
           Distinct(targets), op = "periodic" => Len(targets) = 1,
           op = "ign_block" => \A i \in 1 .. Len(targets) : targets[i] \in EligibleForIgnBlock,
           sync.busy => UNCHANGED image,
           pending' \/ UNCHANGED <<blocked, pending>> \/ ~sync.busy,
           SettledStart, UNCHANGED <<latched, requests, replies, mcu>>
    PROVE  Timely' /\ Truthful /\ LatchedRightly
<1>1. LatchedRightly
  BY NothingLatched
<1>2. CASE sync.busy
  <2>1. sync' = sync
    BY <1>2
  <2> QED
    BY <1>1, <1>2, <2>1, BusyTimely
<1>3. CASE ~sync.busy
  <2>1. sync' = Started(op, targets)
    BY <1>3
  <2>2. /\ sync'.op = op /\ sync'.targets = targets /\ sync'.pos = 0 /\ ~sync'.waiting
        /\ sync'.unsure = {s \in Slot : targets # <<>> /\ HalfWritten(s)}
    BY <2>1, StartedOK
  <2> QED
    BY <1>1, <1>3, <2>2, FreshTimely
<1> QED
  BY <1>2, <1>3

LEMMA InOrderDistinct ==
    ASSUME NEW S, S \subseteq Slot
    PROVE  InOrder(S) \in Seq(Slot) /\ Distinct(InOrder(S))
BY InOrderOK, TargetsOK DEF Distinct

LEMMA StartsTimely ==
    ASSUME Inv, Timely, SettledStart,
           ConfigSync_StartVerify \/ ConfigSync_StartApply \/ ConfigSync_StartReadAllAndSave
    PROVE  Timely' /\ Truthful /\ LatchedRightly
<1>1. UNCHANGED <<blocked, pending, latched, requests, replies, mcu>>
      /\ (sync.busy => UNCHANGED image)
  BY DEF ConfigSync_StartVerify, ConfigSync_StartApply, ConfigSync_StartReadAllAndSave,
         StartCommon, wire
<1>2. PICK op \in {"verify", "apply", "read_all"}, S \in SUBSET Slot :
         sync' = IF sync.busy THEN sync ELSE Started(op, InOrder(S))
  <2>1. /\ {s \in Slot : IsValidCfgSlot(s)} \in SUBSET Slot
        /\ {s \in Slot : active[s] # Offline} \in SUBSET Slot
    OBVIOUS
  <2> QED
    BY <2>1 DEF ConfigSync_StartVerify, ConfigSync_StartApply, ConfigSync_StartReadAllAndSave,
                StartCommon, ValidSlots
<1>3. op \in Op \ {"none"} /\ op # "ign_block" /\ op # "periodic"
  BY <1>2 DEF Op
<1> QED
  BY <1>1, <1>2, <1>3, InOrderDistinct, BeginTimely

LEMMA PeriodicTimely ==
    ASSUME Inv, Timely, SettledStart, NEW s \in Slot, SchedulePeriodicCrc(s)
    PROVE  Timely' /\ Truthful /\ LatchedRightly
<1>1. /\ sync' = IF sync.busy THEN sync ELSE Started("periodic", <<s>>)
      /\ UNCHANGED <<image, blocked, pending, latched, requests, replies, mcu>>
  BY DEF SchedulePeriodicCrc, StartCommon, wire
<1>2. <<s>> \in Seq(Slot) /\ Distinct(<<s>>) /\ Len(<<s>>) = 1 /\ "periodic" \in Op \ {"none"}
  BY DEF Distinct, Op
<1> QED
  BY <1>1, <1>2, BeginTimely

LEMMA RemoteUidTimely ==
    ASSUME Inv, Timely, SettledStart, NEW s \in Slot, RequestRemoteUid(s)
    PROVE  Timely' /\ Truthful /\ LatchedRightly
<1> DEFINE q == <<s>>
           t == Started("uid", q)
<1>1. /\ sync' = [t EXCEPT !.zone = active[s]] /\ ~sync.busy
      /\ UNCHANGED <<latched, requests, replies, mcu>>
  BY DEF RequestRemoteUid, wire
<1>2. "uid" \in Op \ {"none"} /\ q \in Seq(Slot) /\ Distinct(q)
  BY DEF Op, Distinct
<1> HIDE DEF q
<1>3. /\ t \in Sync /\ t.op = "uid" /\ t.targets = q /\ t.pos = 0 /\ ~t.waiting
      /\ t.unsure = {u \in Slot : q # <<>> /\ HalfWritten(u)}
  BY <1>2, StartedOK
<1> HIDE DEF t
<1>4. /\ sync'.op = t.op /\ sync'.targets = t.targets /\ sync'.pos = t.pos
      /\ sync'.waiting = t.waiting /\ sync'.unsure = t.unsure
  BY <1>1, <1>3 DEF Sync
<1>5. Timely' /\ Truthful
  BY <1>1, <1>2, <1>3, <1>4, FreshTimely
<1> QED
  BY <1>1, <1>5, NothingLatched

LEMMA IgnDistinct ==
    LET targets == InOrder(EligibleForIgnBlock)
    IN  /\ targets \in Seq(Slot) /\ Distinct(targets)
        /\ \A i \in 1 .. Len(targets) : targets[i] \in EligibleForIgnBlock
<1>1. EligibleForIgnBlock \subseteq Slot
  BY DEF EligibleForIgnBlock
<1> QED
  BY <1>1, IgnTargets, InOrderDistinct

LEMMA BlockZoneTimely ==
    ASSUME Inv, Timely, SettledStart, NEW z \in Zones, BlockZone(z)
    PROVE  Timely' /\ Truthful /\ LatchedRightly
<1>1. /\ sync' = IF sync.busy THEN sync ELSE Started("ign_block", InOrder(EligibleForIgnBlock))
      /\ pending' = (TRUE /\ sync.busy)
      /\ UNCHANGED <<image, latched, requests, replies, mcu>>
  BY DEF BlockZone, StillPending, IgnBlockStarted, wire
<1>2. "ign_block" \in Op \ {"none"}
  BY DEF Op
<1> QED
  BY <1>1, <1>2, IgnDistinct, BeginTimely

LEMMA IgnBlockSyncTimely ==
    ASSUME Inv, Timely, SettledStart, NEW expired \in BOOLEAN, ConfigIgnBlockSync_Process1ms(expired)
    PROVE  Timely' /\ Truthful /\ LatchedRightly
<1> DEFINE served == pending /\ ~sync.busy
           busy == IF served THEN IgnBlockStarted.busy ELSE sync.busy
           seen == IF boot = "unseen" /\ ActiveMcuHasIgniter THEN "seen" ELSE boot
           starts == seen = "seen" /\ expired /\ ~busy
<1>1. /\ pending' = (pending /\ sync.busy)
      /\ sync' = IF served \/ starts THEN IgnBlockStarted ELSE sync
      /\ UNCHANGED <<image, blocked, latched, requests, replies, mcu>>
  BY DEF ConfigIgnBlockSync_Process1ms, StillPending, wire
<1>2. pending \in BOOLEAN /\ sync.busy \in BOOLEAN
  BY InvOthers, SyncFields DEF Others
<1>3. CASE served \/ starts
  <2>1. ~sync.busy
    BY <1>3
  <2>2. sync' = Started("ign_block", InOrder(EligibleForIgnBlock))
    BY <1>1, <1>3 DEF IgnBlockStarted
  <2>3. "ign_block" \in Op \ {"none"}
    BY DEF Op
  <2> QED
    BY <1>1, <2>1, <2>2, <2>3, IgnDistinct, BeginTimely
<1>4. CASE ~(served \/ starts)
  <2>1. sync' = sync
    BY <1>1, <1>4
  <2>2. CASE sync.busy
    <3>1. pending' = pending
      BY <1>1, <1>2, <2>2
    <3> QED
      BY <1>1, <2>1, <2>2, <3>1, BusyTimely, NothingLatched
  <2>3. CASE ~sync.busy
    <3>1. ~sync.waiting
      BY <2>3, InvOthers DEF Stage, Resting, Begun, AtTarget, Working
    <3>2. Timely'
      BY <1>1, <2>1, <2>3, <3>1
         DEF Timely, Housed, Plain, Followed, Sized, Compared, Targeted, Tracked
    <3> QED
      BY <1>1, <2>3, <3>2, NothingLatched DEF Truthful
  <2> QED
    BY <2>2, <2>3
<1> QED
  BY <1>3, <1>4
-----------------------------------------------------------------------------
(* The bus, the MCUs and the host. *)

LEMMA LoseTimely ==
    ASSUME Inv, Timely, Lose
    PROVE  Timely' /\ Truthful /\ LatchedRightly
<1>1. UNCHANGED <<sync, image, blocked, pending, latched, mcu>>
  BY DEF Lose, panel
<1>2. Less(requests, requests') /\ Less(replies, replies')
  BY DEF Lose, Less
<1> QED
  BY <1>1, <1>2, QuietTimely, SameSync, NothingLatched

LEMMA StatusTimely ==
    ASSUME Inv, Timely, NEW s \in Slot, StatusFrame(s) \/ RefreshActiveDevices(s)
    PROVE  Timely' /\ Truthful /\ LatchedRightly
<1>1. UNCHANGED <<sync, image, blocked, pending, latched, requests, replies, mcu>>
  BY DEF StatusFrame, RefreshActiveDevices, wire
<1> QED
  BY <1>1, QuietTimely, SameSync, NothingLatched DEF Less

\* A request leaves alone what the panel knows of the other MCUs.
LEMMA McuAside ==
    ASSUME UNCHANGED <<sync, image, blocked, pending>>, NEW t, mcu'[t] = mcu[t]
    PROVE  (Reached(t) => Reached(t)') /\ (Untouched(t) => Untouched(t)')
BY DEF Reached, Untouched, AsSaved, Told, Expected

\* An MCU carries out the first request under way.
Carrying(r) ==
    /\ Inv /\ Timely /\ r \in Request
    /\ requests # <<>> /\ r = Head(requests) /\ requests' = Tail(requests)
    /\ mcu[r.slot].zone = r.zone
    /\ mcu' = [mcu EXCEPT ![r.slot] = Worked(@, r)]
    /\ replies' = Put(replies, Answer(r.slot, r))
    /\ UNCHANGED <<sync, image, blocked, pending>>

LEMMA CarriedOut ==
    ASSUME NEW r, Carrying(r)
    PROVE  LET u == mcu[r.slot]
               v == mcu'[r.slot]
           IN  /\ r.slot \in Slot /\ u \in Mcu
               /\ \A t \in Slot : t # r.slot => mcu'[t] = mcu[t]
               /\ r.cmd = "set" => /\ v.zone = u.zone /\ v.saved = u.saved
                                   /\ v.work = [u.work EXCEPT ![Field[r.word + 1]] = r.value]
               /\ r.cmd = "save" => v.zone = u.work.zone /\ v.saved = u.work /\ v.work = u.work
               /\ r.cmd \in {"get", "crc", "size"} => v = u
               /\ r.cmd \in {"set", "save", "get", "crc", "size"}
<1>1. r \in Request /\ r.slot \in Slot /\ mcu \in [Slot -> Mcu]
  BY InvOthers DEF Carrying, Others, Request, Message
<1>2. mcu'[r.slot] = Worked(mcu[r.slot], r) /\ \A t \in Slot : t # r.slot => mcu'[t] = mcu[t]
  BY <1>1 DEF Carrying
<1>3. mcu[r.slot] \in Mcu
  BY <1>1
<1> QED
  BY <1>1, <1>2, <1>3, WorkedCases

\* Its answer.
LEMMA AnswerIs ==
    ASSUME NEW r, Carrying(r)
    PROVE  LET a == Answer(r.slot, r)
           IN  /\ a \in Reply
               /\ a.slot = r.slot /\ a.zone = mcu[r.slot].zone /\ a.cmd = r.cmd /\ a.word = r.word
               /\ a.config = mcu[r.slot].saved
               /\ r.cmd = "size" => a.value = Size[r.slot]
               /\ r.cmd = "get" => a.value = mcu[r.slot].work[Field[r.word + 1]]
<1>1. mcu \in [Slot -> Mcu] /\ r \in Request /\ r.slot \in Slot
  BY CarriedOut, InvOthers DEF Carrying, Others
<1>2. Answer(r.slot, r) \in Reply
  BY <1>1, AnswerOK
<1> QED
  BY <1>2 DEF Answer

LEMMA CarriedPlain ==
    ASSUME NEW r, Carrying(r)
    PROVE  Housed' /\ Plain'
<1> DEFINE a == Answer(r.slot, r)
           n == Len(replies) + 1
<1>1. requests \in Seq(Request) /\ replies \in Seq(Reply)
  BY InvOthers DEF Others, Carrying
<1>2. requests[1] = r /\ 1 \in 1 .. Len(requests)
      /\ \A i \in 1 .. Len(requests') : requests'[i] = requests[i + 1] /\ i + 1 \in 1 .. Len(requests)
  BY <1>1, TailAt DEF Carrying
<1>3. r.cmd = "set" => r.word < Size[r.slot]
  BY <1>2 DEF Carrying, Timely, Plain
<1>4. Housed'
  <2> DEFINE u == mcu[r.slot]
             v == mcu'[r.slot]
  <2>1. /\ r.slot \in Slot /\ u \in Mcu /\ \A t \in Slot : t # r.slot => mcu'[t] = mcu[t]
        /\ r.cmd = "set" => /\ v.zone = u.zone /\ v.saved = u.saved
                            /\ v.work = [u.work EXCEPT ![Field[r.word + 1]] = r.value]
        /\ r.cmd = "save" => v.zone = u.work.zone /\ v.saved = u.work /\ v.work = u.work
        /\ r.cmd \in {"get", "crc", "size"} => v = u
        /\ r.cmd \in {"set", "save", "get", "crc", "size"}
    BY CarriedOut
  <2>2. /\ u.zone = u.saved.zone
        /\ Size[r.slot] = 1 => u.work.block = NoIgniter /\ u.saved.block = NoIgniter
    BY <2>1 DEF Carrying, Timely, Housed
  <2>3. v.zone = v.saved.zone
    BY <2>1, <2>2
  <2>4. ASSUME Size[r.slot] = 1 PROVE v.work.block = NoIgniter /\ v.saved.block = NoIgniter
    <3>1. CASE r.cmd = "set"
      <4>1. r.word = 0
        <5>1. r.word \in Nat
          BY DEF Carrying, Request, Message
        <5> QED
          BY <1>3, <2>4, <3>1, <5>1
      <4>2. v.work = [u.work EXCEPT !.zone = r.value] /\ u.work \in Config
        BY <2>1, <3>1, <4>1, McuFields DEF Field
      <4>3. v.work.block = u.work.block
        BY <4>2 DEF Config
      <4> QED
        BY <2>1, <2>2, <2>4, <3>1, <4>3
    <3>2. CASE r.cmd # "set"
      BY <2>1, <2>2, <2>4, <3>2
    <3> QED
      BY <3>1, <3>2
  <2> HIDE DEF u, v
  <2> QED
    BY <2>1, <2>3, <2>4 DEF Carrying, Timely, Housed, v
<1>5. \A i \in 1 .. Len(requests') :
         requests'[i].cmd = "set" => requests'[i].word < Size[requests'[i].slot]
  BY <1>2 DEF Carrying, Timely, Plain
<1>6. a \in Reply /\ (a.cmd = "size" => a.value = Size[a.slot])
  BY AnswerIs
<1> HIDE DEF a
<1>7. \/ replies' = replies
      \/ /\ Len(replies') = n /\ Len(replies) \in Nat /\ replies'[n] = a
         /\ \A i \in 1 .. Len(replies) : replies'[i] = replies[i]
  BY <1>1, <1>6, PutAt DEF Carrying, a
<1>8. \A i \in 1 .. Len(replies') :
         replies'[i].cmd = "size" => replies'[i].value = Size[replies'[i].slot]
  <2>1. CASE replies' = replies
    BY <2>1 DEF Carrying, Timely, Plain
  <2>2. CASE /\ Len(replies') = n /\ Len(replies) \in Nat /\ replies'[n] = a
             /\ \A i \in 1 .. Len(replies) : replies'[i] = replies[i]
    <3>1. \A i \in 1 .. n : i \in 1 .. Len(replies) \/ i = n
      BY <2>2
    <3> HIDE DEF n
    <3> QED
      BY <1>6, <2>2, <3>1 DEF Carrying, Timely, Plain
  <2> QED
    BY <1>7, <2>1, <2>2
<1> QED
  BY <1>4, <1>5, <1>8 DEF Plain

\* The answer is the last frame; an answer of the request that waits comes after
\* that request has come first.
LEMMA CarriedTrail ==
    ASSUME NEW r, Carrying(r), Trail
    PROVE  Trail'
<1> DEFINE n == Len(replies) + 1
           s == r.slot
<1>1. requests \in Seq(Request) /\ replies \in Seq(Reply)
  BY InvOthers DEF Others, Carrying
<1>2. /\ requests[1] = r /\ 1 \in 1 .. Len(requests) /\ Len(requests') \in Nat
      /\ \A i \in 1 .. Len(requests') :
            /\ requests'[i] = requests[i + 1] /\ i + 1 \in 1 .. Len(requests) /\ 1 < i + 1
  BY <1>1, TailAt DEF Carrying
<1>3. PICK a \in Reply : /\ a = Answer(s, r) /\ a.slot = s /\ a.zone = mcu[s].zone
                         /\ a.cmd = r.cmd /\ a.word = r.word /\ a.config = mcu[s].saved
  BY AnswerIs
<1>4. /\ s \in Slot
      /\ \A t \in Slot : t # s => mcu'[t] = mcu[t]
      /\ r.cmd = "set" => mcu'[s].zone = mcu[s].zone /\ mcu'[s].saved = mcu[s].saved
      /\ r.cmd = "save" => mcu'[s].work = mcu'[s].saved
      /\ r.cmd \in {"get", "crc", "size"} => mcu'[s] = mcu[s]
      /\ r.cmd \in {"set", "save", "get", "crc", "size"}
  BY CarriedOut
<1>5. \A f : /\ Current(f)' = Current(f) /\ Stale(f)' = Stale(f) /\ Harmless(f)' = Harmless(f)
             /\ Asked(f)' = Asked(f)
  BY DEF Carrying, Current, Stale, Harmless, Asked, Frame
<1>6. Current(a) = Current(r) /\ Asked(r)
  BY <1>2, <1>3 DEF Current, Trail
<1>7. ASSUME Current(r) PROVE Answers(a)'
  <2>1. r.zone = sync.zone
    BY <1>6, <1>7 DEF Asked, Frame
  <2>2. a.zone = sync'.zone
    BY <1>3, <2>1 DEF Carrying
  <2> QED
    BY <1>3, <1>4, <2>2 DEF Answers, AsSaved
<1>8. ASSUME NEW m \in Reply, Current(m), Current(r), Answers(m) PROVE Answers(m)'
  <2>1. m.slot = s /\ m.cmd = r.cmd
    BY <1>8 DEF Current
  <2>2. m.zone = sync'.zone
    BY <1>8 DEF Answers, Carrying
  <2>3. /\ r.cmd = "crc" => m.config = mcu'[s].saved
        /\ r.cmd = "get" => m.zone = mcu'[s].zone
    BY <1>4, <1>8, <2>1 DEF Answers
  <2> QED
    BY <1>4, <2>1, <2>2, <2>3 DEF Answers, AsSaved
<1>9. Given(a)'
  <2>1. CASE Current(r)
    BY <1>5, <1>6, <1>7, <2>1 DEF Given
  <2>2. CASE ~Current(r)
    <3>1. Stale(r)
      BY <1>6, <2>2 DEF Asked
    <3>2. Stale(a)
      BY <1>3, <3>1 DEF Stale
    <3> QED
      BY <1>5, <1>6, <2>2, <3>2 DEF Given
  <2> QED
    BY <2>1, <2>2
<1>10. ASSUME NEW i \in 1 .. Len(replies), NEW m, m = replies[i]
       PROVE  Given(m)' /\ (Current(m) => Current(r))
  <2>1. Given(m) /\ m \in Reply /\ (Current(m) => Current(r))
    BY <1>1, <1>2, <1>10 DEF Trail
  <2> QED
    BY <1>5, <1>8, <2>1 DEF Given
<1>11. \/ replies' = replies
       \/ /\ Len(replies') = n /\ Len(replies) \in Nat /\ replies'[n] = a
          /\ \A i \in 1 .. Len(replies) : replies'[i] = replies[i]
  BY <1>1, <1>3, PutAt DEF Carrying
<1>12. \A i \in 1 .. Len(replies') :
          \/ i \in 1 .. Len(replies) /\ replies'[i] = replies[i]
          \/ i = Len(replies') /\ replies'[i] = a
  <2>1. CASE replies' = replies
    BY <2>1
  <2>2. CASE /\ Len(replies') = n /\ Len(replies) \in Nat /\ replies'[n] = a
             /\ \A i \in 1 .. Len(replies) : replies'[i] = replies[i]
    <3>1. \A i \in 1 .. n : i \in 1 .. Len(replies) \/ i = n
      BY <2>2
    <3> HIDE DEF n
    <3> QED
      BY <2>2, <3>1
  <2> QED
    BY <1>11, <2>1, <2>2
<1>13. ~sync'.waiting => requests' = <<>> /\ replies' = <<>>
  BY DEF Trail, Carrying
<1>14. \A i \in 1 .. Len(replies') : Given(replies[i])' /\ (Current(replies[i])' => Current(r))
  <2> TAKE i \in 1 .. Len(replies')
  <2>1. PICK m : m = replies'[i]
    OBVIOUS
  <2>2. Given(m)' /\ (Current(m)' => Current(r))
    BY <1>5, <1>6, <1>9, <1>10, <1>12, <2>1
  <2> QED
    BY <2>1, <2>2
<1>15. \A i \in 1 .. Len(requests') : /\ Asked(requests[i])'
                                      /\ Current(r) => Current(requests[i])'
  <2> TAKE i \in 1 .. Len(requests')
  <2>1. Asked(requests[i + 1]) /\ (Current(requests[1]) => Current(requests[i + 1]))
    BY <1>2 DEF Trail
  <2> QED
    BY <1>2, <1>5, <2>1
<1>16. \A i, j \in 1 .. Len(requests') : i < j /\ Current(requests[i])' => Current(requests[j])'
  <2> SUFFICES ASSUME NEW i \in 1 .. Len(requests'), NEW j \in 1 .. Len(requests'), i < j,
                      Current(requests[i])'
               PROVE  Current(requests[j])'
    OBVIOUS
  <2>1. /\ i + 1 \in 1 .. Len(requests) /\ j + 1 \in 1 .. Len(requests) /\ i + 1 < j + 1
        /\ requests'[i] = requests[i + 1] /\ requests'[j] = requests[j + 1]
    BY <1>2
  <2>2. Current(requests[i + 1])
    BY <1>5, <2>1
  <2>3. Current(requests[j + 1])
    BY <2>1, <2>2 DEF Trail
  <2> QED
    BY <1>5, <2>1, <2>3
<1>17. \A i, j \in 1 .. Len(replies') : i < j /\ Current(replies[i])' => Current(replies[j])'
  <2> SUFFICES ASSUME NEW i \in 1 .. Len(replies'), NEW j \in 1 .. Len(replies'), i < j,
                      Current(replies[i])'
               PROVE  Current(replies[j])'
    OBVIOUS
  <2>1. CASE replies'[j] = a
    BY <1>5, <1>6, <1>14, <2>1
  <2>2. CASE j \in 1 .. Len(replies) /\ replies'[j] = replies[j]
    <3>1. i \in 1 .. Len(replies)
      BY <1>1, <2>2
    <3>2. i # Len(replies')
      BY <1>1, <1>11
    <3>3. Current(replies[i])
      BY <1>5, <1>12, <3>1, <3>2
    <3>4. Current(replies[j])
      BY <2>2, <3>1, <3>3 DEF Trail
    <3> QED
      BY <1>5, <2>2, <3>4
  <2> QED
    BY <1>12, <2>1, <2>2
<1> QED
  BY <1>13, <1>14, <1>15, <1>16, <1>17 DEF Trail

LEMMA CarriedTracked ==
    ASSUME NEW r, Carrying(r)
    PROVE  Tracked'
<1> DEFINE a == Answer(r.slot, r)
           s == sync.slot
           t == r.slot
<1> SUFFICES ASSUME sync.busy, sync.failed = 0, NEW i \in 1 .. Len(sync.targets),
                    sync.targets[i] \notin sync.unsure
             PROVE  /\ i < sync.pos => Reached(sync.targets[i])'
                    /\ i > sync.pos => Untouched(sync.targets[i])'
                    /\ i = sync.pos => InWork(sync.targets[i])'
  BY DEF Tracked, Carrying
<1>1. /\ requests \in Seq(Request) /\ replies \in Seq(Reply) /\ sync \in Sync
      /\ sync.targets \in Seq(Slot) /\ sync.pos \in Nat /\ sync.targets[i] \in Slot
  BY InvOthers, SyncFields DEF Others, Carrying
<1>2. /\ requests[1] = r /\ 1 \in 1 .. Len(requests)
  BY <1>1, TailAt DEF Carrying
<1>3. Trail /\ Asked(r) /\ sync.waiting
  BY <1>2 DEF Carrying, Timely, Followed, Trail
<1>4. /\ Waiting /\ AtStep(sync) /\ s \in Slot /\ s = sync.targets[sync.pos]
      /\ (Clean => InWork(s))
      /\ \A j \in 1 .. Len(sync.targets) : j # sync.pos => sync.targets[j] # s
  BY <1>3, AtWork DEF Waiting, Carrying
<1>5. /\ t \in Slot
      /\ \A w \in Slot : w # t => mcu'[w] = mcu[w]
      /\ r.cmd = "set" => mcu'[t].saved = mcu[t].saved
      /\ r.cmd = "save" => mcu'[t].zone = mcu[t].work.zone /\ mcu'[t].saved = mcu[t].work
                           /\ mcu'[t].work = mcu[t].work
      /\ r.cmd \in {"get", "crc", "size"} => mcu'[t] = mcu[t]
      /\ r.cmd \in {"set", "save", "get", "crc", "size"}
  BY CarriedOut
<1>6. r.cmd \in {"set", "save"} => t = s /\ sync.step \in {"set", "save", "readback"}
  <2>1. CASE Current(r)
    BY <1>4, <2>1 DEF AtStep, Current
  <2>2. CASE ~Current(r)
    BY <1>3, <2>2 DEF Asked, Harmless
  <2> QED
    BY <2>1, <2>2
<1>7. r.cmd = "save" => sync.step \in {"save", "readback"}
  BY <1>3, <1>4 DEF Asked, Harmless, Current, AtStep
<1>8. r.cmd = "set" => sync.step \in {"set", "save"}
  BY <1>3, <1>4 DEF Asked, Harmless, Current, AtStep
<1>9. CASE i # sync.pos
  <2>1. /\ i < sync.pos => Reached(sync.targets[i])
        /\ i > sync.pos => Untouched(sync.targets[i])
    BY DEF Carrying, Timely, Tracked
  <2>2. mcu'[sync.targets[i]] = mcu[sync.targets[i]]
    BY <1>1, <1>4, <1>5, <1>6, <1>9
  <2>3. \A w : w = sync.targets[i] => (Reached(w) => Reached(w)') /\ (Untouched(w) => Untouched(w)')
    BY <2>2, McuAside DEF Carrying
  <2>4. (sync.targets[i])' = sync.targets[i]
    BY DEF Carrying
  <2> QED
    BY <1>9, <2>1, <2>3, <2>4
<1>10. CASE i = sync.pos
  <2>1. Clean /\ sync.targets[i] = s /\ InWork(s)
    BY <1>4, <1>10 DEF Clean
  <2>2. ASSUME NEW w \in Slot, w = s PROVE InWork(w)'
    <3>1. sync.step \in {"set", "save"} => InWork(w)'
      BY <2>1, <2>2 DEF Carrying, InWork, Told, Expected
    <3>2. CASE r.cmd = "save" /\ sync.step = "readback"
      <4>1. mcu[s].work = mcu[s].saved
        BY <2>1, <3>2 DEF InWork, AsSaved
      <4>2. mcu'[s].work = mcu'[s].saved
        BY <1>5, <1>6, <3>2
      <4>3. AsSaved(w)'
        BY <2>2, <4>2 DEF AsSaved
      <4> QED
        BY <2>1, <2>2, <3>2, <4>3 DEF Carrying, InWork, Told, Expected
    <3>3. CASE r.cmd \in {"get", "crc", "size"}
      <4>1. mcu'[w] = mcu[w]
        BY <1>5, <2>2, <3>3
      <4>2. ASSUME sync.step = "word", ReadSoFar(w) PROVE ReadSoFar(w)'
        <5> SUFFICES ASSUME NEW j \in 1 .. Len(replies'), Current(replies'[j])
                     PROVE  replies'[j].value = mcu'[w].work[Field[sync.word + 1]]
          <6>1. sync' = sync
            BY DEF Carrying
          <6> QED
            BY <4>1, <4>2, <6>1 DEF ReadSoFar, Current
        <5>1. a \in Reply /\ a.slot = t /\ a.cmd = r.cmd /\ a.word = r.word
              /\ (r.cmd = "get" => a.value = mcu[t].work[Field[r.word + 1]])
          BY AnswerIs
        <5> HIDE DEF a
        <5>2. \/ j \in 1 .. Len(replies) /\ replies'[j] = replies[j]
              \/ replies'[j] = a
          <6>1. CASE replies' = replies
            BY <6>1
          <6>2. CASE /\ Len(replies') = Len(replies) + 1 /\ Len(replies) \in Nat
                     /\ replies'[Len(replies) + 1] = a
                     /\ \A k \in 1 .. Len(replies) : replies'[k] = replies[k]
            <7>1. j \in 1 .. Len(replies) \/ j = Len(replies) + 1
              BY <6>2
            <7> QED
              BY <6>2, <7>1
          <6> QED
            BY <1>1, <5>1, <6>1, <6>2, PutAt DEF Carrying, a
        <5>3. CASE j \in 1 .. Len(replies) /\ replies'[j] = replies[j]
          BY <4>1, <4>2, <5>3 DEF ReadSoFar
        <5>4. CASE replies'[j] = a
          <6>1. a.slot = s /\ a.cmd = "get" /\ a.word = sync.word
            BY <1>4, <4>2, <5>4 DEF Current, AtStep
          <6>2. t = w /\ r.cmd = "get" /\ r.word = sync.word
            BY <2>2, <5>1, <6>1
          <6>3. a.value = mcu[w].work[Field[sync.word + 1]]
            BY <5>1, <6>2
          <6> QED
            BY <4>1, <5>4, <6>3
        <5> QED
          BY <5>2, <5>3, <5>4
      <4>3. Untouched(w) => Untouched(w)'
        BY <4>1, McuAside DEF Carrying
      <4>4. /\ AsSaved(w) => AsSaved(w)'
            /\ mcu[w].saved = image[w] => (mcu[w].saved = image[w])'
            /\ Told(image[w]) => Told(image[w])'
        BY <4>1 DEF Carrying, AsSaved, Told, Expected
      <4>5. InWork(w) /\ UNCHANGED sync
        BY <2>1, <2>2 DEF Carrying
      <4> QED
        BY <4>2, <4>3, <4>4, <4>5 DEF InWork
    <3> QED
      BY <1>5, <1>7, <1>8, <3>1, <3>2, <3>3
  <2>3. (sync.targets[i])' = s
    BY <2>1 DEF Carrying
  <2>4. InWork(sync.targets[i])'
    BY <1>4, <2>2, <2>3
  <2>5. ~(i < sync.pos) /\ ~(i > sync.pos)
    BY <1>1, <1>10
  <2> QED
    BY <2>4, <2>5
<1> QED
  BY <1>9, <1>10

LEMMA AnswersTimely ==
    ASSUME Inv, Timely, McuAnswers
    PROVE  Timely' /\ Truthful /\ LatchedRightly
<1> DEFINE r == Head(requests)
<1>1. /\ UNCHANGED <<sync, image, blocked, pending, latched>>
      /\ requests # <<>> /\ requests' = Tail(requests)
  BY DEF McuAnswers, panel
<1>2. CASE UNCHANGED <<replies, mcu>>
  BY <1>1, <1>2, QuietTimely, SameSync, NothingLatched DEF Less
<1>3. CASE ~UNCHANGED <<replies, mcu>>
  <2>1. r \in Request
    BY <1>1, TakeOK, InvOthers
  <2>2. Carrying(r)
    BY <1>1, <1>3, <2>1 DEF McuAnswers, Carrying
  <2>3. Sized' /\ Compared' /\ Targeted'
    BY <1>1 DEF Timely, Sized, Compared, Targeted
  <2>4. Followed'
    BY <1>1, <2>2, CarriedTrail DEF Timely, Followed
  <2> QED
    BY <1>1, <2>2, <2>3, <2>4, CarriedPlain, CarriedTracked, SameSync, NothingLatched DEF Timely
<1> QED
  BY <1>2, <1>3

\* A restart loses the words that are not saved.
LEMMA RebootTimely ==
    ASSUME Inv, Timely, NEW s \in Slot, Reboot(s)
    PROVE  Timely' /\ Truthful /\ LatchedRightly
<1>1. /\ UNCHANGED <<sync, image, blocked, pending, latched, requests, replies>>
      /\ mcu' = [mcu EXCEPT ![s].work = mcu[s].saved, ![s].zone = mcu[s].saved.zone]
  BY DEF Reboot, panel, wire
<1>2. mcu \in [Slot -> Mcu] /\ sync \in Sync
  BY InvOthers DEF Others
<1>3. Housed
  BY DEF Timely
<1>4. ASSUME NEW t \in Slot
      PROVE  /\ mcu'[t].zone = mcu[t].zone /\ mcu'[t].saved = mcu[t].saved
             /\ mcu'[t].work \in {mcu[t].work, mcu[t].saved}
             /\ t = s => mcu'[t].work = mcu[t].saved
  <2> DEFINE a == [mcu EXCEPT ![s].work = mcu[s].saved]
             z == mcu[s].saved.zone
  <2>1. a \in [Slot -> [zone : Zones, work : Config, saved : Config]]
        /\ \A u \in Slot : u # s => a[u] = mcu[u]
    <3>1. a = [mcu EXCEPT ![s] = [mcu[s] EXCEPT !.work = mcu[s].saved]]
      OBVIOUS
    <3>2. [mcu[s] EXCEPT !.work = mcu[s].saved] \in [zone : Zones, work : Config, saved : Config]
      BY <1>2 DEF Mcu
    <3> QED
      BY <1>2, <3>1, <3>2 DEF Mcu
  <2>2. a[s].work = mcu[s].saved /\ a[s].saved = mcu[s].saved
    BY <1>2 DEF Mcu
  <2>3. mcu' = [a EXCEPT ![s].zone = z]
    BY <1>1
  <2>4. mcu[s].zone = z
    BY <1>3 DEF Housed
  <2> HIDE DEF a, z
  <2>5. CASE t = s
    <3>1. mcu'[t].zone = z /\ mcu'[t].saved = a[s].saved /\ mcu'[t].work = a[s].work
      BY <2>1, <2>3, <2>5
    <3> QED
      BY <2>2, <2>4, <2>5, <3>1
  <2>6. CASE t # s
    <3>1. mcu'[t] = a[t]
      BY <2>1, <2>3, <2>6
    <3> QED
      BY <2>1, <2>6, <3>1
  <2> QED
    BY <2>5, <2>6
<1>5. ASSUME NEW t \in Slot, AsSaved(t) PROVE mcu'[t].work = mcu[t].work
  BY <1>4, <1>5 DEF AsSaved
<1>6. Housed'
  BY <1>3, <1>4 DEF Housed
<1>7. Plain' /\ Sized' /\ Compared' /\ Targeted'
  BY <1>1 DEF Timely, Plain, Sized, Compared, Targeted
<1>8. \A t \in Slot : AsSaved(t) => AsSaved(t)'
  BY <1>4, <1>5 DEF AsSaved
<1>9. Followed'
  <2>1. \A m \in Reply : Answers(m) => Answers(m)'
    <3> TAKE m \in Reply
    <3>1. m.slot \in Slot
      BY DEF Reply
    <3> QED
      BY <1>1, <1>4, <1>8, <3>1 DEF Answers
  <2> QED
    BY <1>1, <2>1, FollowedLess DEF Timely, Less
<1>10. ASSUME NEW t \in Slot
       PROVE  /\ Reached(t) => Reached(t)'
              /\ Untouched(t) => Untouched(t)'
              /\ InWork(t) => InWork(t)'
  <2>1. mcu'[t].saved = mcu[t].saved /\ (AsSaved(t) => AsSaved(t)' /\ mcu'[t].work = mcu[t].work)
    BY <1>4, <1>5, <1>8
  <2>2. \A c : Told(c) => Told(c)'
    BY <1>1 DEF Told, Expected
  <2>3. Untouched(t) => Untouched(t)'
    BY <1>1, <2>1 DEF Untouched
  <2>4. Told(mcu[t].saved) => Told(mcu[t].saved)'
    BY <1>1, <2>1 DEF Told, Expected
  <2>5. Told(image[t]) => Told(image[t])'
    BY <1>1 DEF Told, Expected
  <2>6. Reached(t) => Reached(t)'
    BY <1>1, <2>1, <2>4 DEF Reached
  <2>7. AsSaved(t) /\ ReadSoFar(t) => ReadSoFar(t)'
    BY <1>1, <2>1, ReadLess DEF Less
  <2>8. InWork(t) => InWork(t)'
    BY <1>1, <2>1, <2>3, <2>5, <2>7 DEF InWork
  <2> QED
    BY <2>3, <2>6, <2>8
<1>11. Tracked'
  <2>1. \A i \in 1 .. Len(sync.targets) : sync.targets[i] \in Slot
    BY <1>2, SyncFields
  <2> QED
    BY <1>1, <1>10, <2>1 DEF Timely, Tracked
<1> QED
  BY <1>1, <1>6, <1>7, <1>9, <1>11, SameSync, NothingLatched DEF Timely

\* The host disturbs what is written or read of the slot.
LEMMA EditTimely ==
    ASSUME Inv, Timely, NEW s \in Slot, EditImage(s)
    PROVE  Timely' /\ Truthful /\ LatchedRightly
<1>1. /\ UNCHANGED <<blocked, pending, latched, requests, replies, mcu>>
      /\ sync' = IF sync.busy THEN [sync EXCEPT !.unsure = @ \cup {s}] ELSE sync
  BY DEF EditImage, wire
<1>2. image \in [Slot -> Config] /\ sync \in Sync /\ sync.targets \in Seq(Slot) /\ sync.slot \in Slot
  BY InvOthers, SyncFields
<1>3. \A t \in Slot : t # s => image'[t] = image[t]
  BY <1>2 DEF EditImage
<1>4. LatchedRightly
  BY <1>1, NothingLatched
<1>5. CASE ~sync.busy
  <2>1. sync' = sync /\ ~sync.waiting
    BY <1>1, <1>5, InvOthers DEF Stage, Resting, Begun, AtTarget, Working
  <2>2. Timely'
    BY <1>1, <1>5, <2>1
       DEF Timely, Housed, Plain, Followed, Sized, Compared, Targeted, Tracked
  <2> QED
    BY <1>4, <2>1, <2>2, SameSync
<1>6. CASE sync.busy
  <2>1. sync' = [sync EXCEPT !.unsure = sync.unsure \cup {s}]
    BY <1>1, <1>6
  <2>2. /\ sync'.busy = sync.busy /\ sync'.op = sync.op /\ sync'.step = sync.step
        /\ sync'.failed = sync.failed /\ sync'.targets = sync.targets /\ sync'.pos = sync.pos
        /\ sync'.slot = sync.slot /\ sync'.zone = sync.zone /\ sync'.total = sync.total
        /\ sync'.word = sync.word /\ sync'.rx = sync.rx /\ sync'.expected = sync.expected
        /\ sync'.waiting = sync.waiting /\ sync'.cmd = sync.cmd /\ sync'.value = sync.value
        /\ sync'.sub = sync.sub /\ sync'.unsure = sync.unsure \cup {s}
    BY <1>2, <2>1 DEF Sync
  <2>3. Housed' /\ Plain' /\ Sized' /\ Targeted'
    BY <1>1, <2>2 DEF Timely, Housed, Plain, Sized, Targeted
  <2>4. Compared'
    BY <1>2, <1>3, <2>2 DEF Timely, Compared
  <2>5. Followed'
    <3>1. UNCHANGED Frame(sync)
      BY <2>2 DEF Frame
    <3>2. \A m \in Reply : Answers(m) => Answers(m)'
      BY <1>1, <2>2 DEF Answers, AsSaved
    <3>3. requests \in Seq(Request) /\ replies \in Seq(Reply)
      BY InvOthers DEF Others
    <3>4. Trail => Trail'
      BY <1>1, <2>2, <3>1, <3>2, <3>3, TrailLess DEF Less
    <3> QED
      BY <2>2, <3>4 DEF Timely, Followed
  <2>6. ASSUME NEW t, image'[t] = image[t]
        PROVE  /\ Reached(t) => Reached(t)'
               /\ Untouched(t) => Untouched(t)'
               /\ InWork(t) => InWork(t)'
    <3>1. /\ Reached(t) => Reached(t)'
          /\ Untouched(t) => Untouched(t)'
      BY <1>1, <2>2, <2>6, Aside
    <3>2. Told(image[t]) => Told(image[t])'
      BY <1>1, <2>6 DEF Told, Expected
    <3>3. AsSaved(t)' = AsSaved(t) /\ (ReadSoFar(t) => ReadSoFar(t)')
      BY <1>1, <2>2 DEF AsSaved, ReadSoFar, Current
    <3>4. InWork(t) => InWork(t)'
      BY <1>1, <2>2, <2>6, <3>1, <3>2, <3>3 DEF InWork
    <3> QED
      BY <3>1, <3>4
  <2>7. Tracked'
    <3> SUFFICES ASSUME sync.failed = 0, NEW i \in 1 .. Len(sync.targets),
                        sync.targets[i] \notin sync.unsure \cup {s}
                 PROVE  /\ i < sync.pos => Reached(sync.targets[i])'
                        /\ i > sync.pos => Untouched(sync.targets[i])'
                        /\ i = sync.pos => InWork(sync.targets[i])'
      BY <2>2 DEF Tracked
    <3>1. /\ i < sync.pos => Reached(sync.targets[i])
          /\ i > sync.pos => Untouched(sync.targets[i])
          /\ i = sync.pos => InWork(sync.targets[i])
      BY <1>6 DEF Timely, Tracked
    <3>2. sync.targets[i] \in Slot /\ sync.targets[i] # s
      BY <1>2
    <3>3. \A t : t = sync.targets[i] => /\ Reached(t) => Reached(t)'
                                        /\ Untouched(t) => Untouched(t)'
                                        /\ InWork(t) => InWork(t)'
      BY <1>3, <2>6, <3>2
    <3>4. (sync.targets[i])' = sync.targets[i]
      BY <2>2
    <3> QED
      BY <3>1, <3>3, <3>4
  <2> QED
    BY <1>4, <1>6, <2>2, <2>3, <2>4, <2>5, <2>7 DEF Timely, Truthful
<1> QED
  BY <1>5, <1>6

LEMMA InitTimely == Init => Timely
<1> SUFFICES ASSUME Init PROVE Timely
  OBVIOUS
<1>1. ~sync.busy /\ ~sync.waiting /\ sync.targets = <<>> /\ requests = <<>> /\ replies = <<>>
  BY DEF Init, NoSync
<1>2. Housed
  <2> SUFFICES ASSUME NEW t \in Slot
               PROVE  /\ mcu[t].zone = mcu[t].saved.zone
                      /\ Size[t] = 1 => mcu[t].work.block = NoIgniter /\ mcu[t].saved.block = NoIgniter
    BY DEF Housed
  <2>1. /\ mcu[t].zone = mcu[t].saved.zone /\ mcu[t].work = mcu[t].saved
        /\ (mcu[t].saved.block # NoIgniter) = (t \in Igniters)
    BY DEF Init
  <2>2. Size[t] = 1 => t \notin Igniters
    BY ConstantsAssumption
  <2> QED
    BY <2>1, <2>2
<1>3. Plain /\ Followed /\ Sized /\ Compared /\ Tracked
  BY <1>1 DEF Plain, Followed, Sized, Compared, Tracked
<1>4. Targeted
  BY <1>1 DEF Targeted, Distinct, Init, NoSync
<1> QED
  BY <1>2, <1>3, <1>4 DEF Timely

LEMMA NextTimely ==
    ASSUME SettledStart, Inv, Timely, [Next]_vars
    PROVE  Timely' /\ Truthful /\ LatchedRightly
<1>1. CASE Next
  <2>1. CASE Panel
    BY <2>1, StartsTimely, PeriodicTimely, RemoteUidTimely, StatusTimely, ProcessTimely,
       ListenerTimely, IgnBlockSyncTimely DEF Panel
  <2>2. CASE Outside
    BY <2>2, AnswersTimely, LoseTimely, RebootTimely, StatusTimely, EditTimely,
       BlockZoneTimely DEF Outside
  <2> QED
    BY <1>1, <2>1, <2>2 DEF Next
<1>2. CASE UNCHANGED vars
  <2>1. UNCHANGED <<sync, image, blocked, pending, latched, requests, replies, mcu>>
    BY <1>2 DEF vars, panel, wire
  <2> QED
    BY <2>1, QuietTimely, SameSync, NothingLatched DEF Less
<1> QED
  BY <1>1, <1>2

\* What the success of an operation says.
LEMMA SuccessOK ==
    ASSUME SettledStart, Inv, Timely, [Next]_vars, NEW op, Succeeds(op), NEW s \in Sure(sync)
    PROVE  /\ sync.op = op /\ sync'.op = op /\ s \in Slot
           /\ op = "apply" => mcu[s].saved = image[s]
           /\ op \in {"read_all", "ign_block"} => image'[s] = mcu[s].work
           /\ op = "ign_block" => mcu[s].saved.block = Expected(mcu[s].zone) \/ pending
<1>1. /\ sync.op = op /\ sync'.op = op /\ UNCHANGED <<blocked, pending, mcu>>
      /\ (op = "apply" => UNCHANGED image)
      /\ \A t \in Sure(sync) : Reached(t)'
  BY NextTimely DEF Truthful, Succeeds
<1>2. s \in Slot
  BY InvOthers, SyncFields DEF Sure
<1>3. Reached(s)' /\ mcu[s].zone = mcu[s].saved.zone
  BY <1>1, <1>2 DEF Timely, Housed
<1> QED
  BY <1>1, <1>2, <1>3 DEF Reached, Told, Expected

\* In step with the MCUs, when each operation begins with an empty wire.
LEMMA TimelyAlways == Spec /\ SettledStarts => [](Inv /\ Timely)
<1>1. Inv /\ Timely /\ [Next]_vars /\ [SettledStart]_vars => (Inv /\ Timely)'
  <2> SUFFICES ASSUME Inv, Timely, [Next]_vars, [SettledStart]_vars
               PROVE  (Inv /\ Timely)'
    OBVIOUS
  <2>1. SettledStart
    BY DEF SettledStart, vars, panel
  <2> QED
    BY <2>1, NextInv, NextTimely
<1>2. Init => Inv /\ Timely
  BY InitInv, InitTimely
<1> QED
  BY <1>1, <1>2, PTL DEF Spec, SettledStarts

\* When all MCUs are reported as configured, each of them has saved the
\* configuration the image has, whatever was lost, repeated, answered late,
\* restarted or edited meanwhile, if an operation begins only when no frame of an
\* earlier one is under way (CfgSync_Finish).
THEOREM AppliedIsStoredAlways == Spec /\ SettledStarts => AppliedIsStored
<1> DEFINE A == Succeeds("apply") => \A s \in Sure(sync) : mcu[s].saved = image[s]
<1>1. Inv /\ Timely /\ [Next]_vars /\ [SettledStart]_vars => [A]_vars
  BY SuccessOK
<1> QED
  BY <1>1, TimelyAlways, PTL DEF Spec, SettledStarts, AppliedIsStored

\* When the blocking of the igniters is reported as done, each igniter has saved
\* the blocking of its zone or a later change of the zones waits for its turn,
\* under the same condition (CfgSync_PatchIgniterBlocks).
THEOREM BlockingIsStoredAlways == Spec /\ SettledStarts => BlockingIsStored
<1> DEFINE A == Succeeds("ign_block") =>
                  \A s \in Sure(sync) :
                      \/ mcu[s].saved.block = Expected(mcu[s].zone)
                      \/ pending
<1>1. Inv /\ Timely /\ [Next]_vars /\ [SettledStart]_vars => [A]_vars
  BY SuccessOK
<1> QED
  BY <1>1, TimelyAlways, PTL DEF Spec, SettledStarts, BlockingIsStored

\* What an operation has read of an MCU and put into the image is what the MCU
\* works with, under the same condition (CfgSync_HandleCfgWordReply).
THEOREM ImageIsReadAlways == Spec /\ SettledStarts => ImageIsRead
<1> DEFINE A == Succeeds("ign_block") \/ Succeeds("read_all") =>
                  \A s \in Sure(sync) : image'[s] = mcu[s].work
<1>1. Inv /\ Timely /\ [Next]_vars /\ [SettledStart]_vars => [A]_vars
  BY SuccessOK
<1> QED
  BY <1>1, TimelyAlways, PTL DEF Spec, SettledStarts, ImageIsRead

\* A difference is reported only of an MCU that has saved another configuration
\* than the image has, under the same condition (ConfigMonitor_OnPeriodicCrcResult).
THEOREM LatchedDiffersAlways == Spec /\ SettledStarts => LatchedDiffers
<1> DEFINE A == \A s \in Sure(sync) : ~latched[s] /\ latched'[s] => image[s] # mcu[s].saved
<1>1. Inv /\ Timely /\ [Next]_vars /\ [SettledStart]_vars => [A]_vars
  BY NextTimely DEF LatchedRightly
<1> QED
  BY <1>1, TimelyAlways, PTL DEF Spec, SettledStarts, LatchedDiffers
-----------------------------------------------------------------------------
(* When no answer is late, an operation begins with an empty wire.          *)

LEMMA WordPosted ==
    ASSUME NEW s, "waiting" \in DOMAIN s, NEW w, NEW c, AskWord(s, w) \/ SetWord(s, w, c)
    PROVE  Posted
<1>1. \E step, cmd, value : SendReq(s, step, cmd, w, value)
  BY DEF AskWord, SetWord
<1> QED
  BY <1>1, SendPosted

LEMMA SizePosted ==
    ASSUME Waiting, sync.step = "size", NEW m, HandleCfgSizeReply(m)
    PROVE  Posted
<1> DEFINE s == [sync EXCEPT !.total = m.value]
           u == [s EXCEPT !.expected = ExpectedConfig(s)]
<1>1. sync \in Sync /\ sync.op \in {"verify", "apply", "read_all", "periodic", "ign_block"}
  BY WaitingAtTarget DEF AtStep
<1>2. "waiting" \in DOMAIN s /\ "waiting" \in DOMAIN u /\ s.op = sync.op
  BY <1>1 DEF Sync
<1>3. \/ Fail \/ AskWord(s, 0) \/ SendReq(u, "crc", "crc", 0, 0)
      \/ SetWord(s, 0, image[s.slot])
  <2>1. \/ Fail
        \/ (CASE s.op \in {"read_all", "ign_block"} -> AskWord(s, 0)
              [] s.op \in {"verify", "periodic"} -> SendReq(u, "crc", "crc", 0, 0)
              [] s.op = "apply" -> SetWord(s, 0, image[s.slot]))
    BY DEF HandleCfgSizeReply
  <2> HIDE DEF s, u
  <2> QED
    BY <1>1, <1>2, <2>1
<1> HIDE DEF s, u
<1> QED
  BY <1>1, <1>2, <1>3, FailPosted, SendPosted, WordPosted

LEMMA WordReplyPosted ==
    ASSUME Waiting, sync.step = "word", NEW m, HandleCfgWordReply(m)
    PROVE  Posted
<1> DEFINE s == [sync EXCEPT !.rx[Field[m.word + 1]] = m.value, !.word = @ + 1]
           u == [s EXCEPT !.sub = "apply"]
<1>1. /\ sync \in Sync /\ sync.op \in {"uid", "read_all", "ign_block"}
      /\ sync.sub \in {"read", "readback"}
  BY WaitingAtTarget DEF AtStep
<1>2. "waiting" \in DOMAIN s /\ "waiting" \in DOMAIN u /\ s.op = sync.op /\ s.sub = sync.sub
  BY <1>1 DEF Sync
<1>3. UNCHANGED requests \/ AskWord(s, s.word) \/ WordsRead(s)
  BY DEF HandleCfgWordReply
<1> HIDE DEF s
<1>4. WordsRead(s) => NextTargetOrFinish(s) \/ \E c : SetWord(u, 0, c)
  BY <1>1, <1>2 DEF WordsRead
<1> HIDE DEF u
<1>5. CASE UNCHANGED requests
  BY <1>5 DEF Posted
<1> QED
  BY <1>2, <1>3, <1>4, <1>5, NextSent, WordPosted

LEMMA CrcPosted ==
    ASSUME Waiting, sync.step \in {"crc", "readback"}, NEW m, HandleCfgCrcReply(m)
    PROVE  Posted
<1> DEFINE u == [sync EXCEPT !.sub = "readback"]
<1>1. sync \in Sync /\ sync.op \in {"verify", "periodic", "apply", "ign_block"}
  BY WaitingAtTarget DEF AtStep
<1>2. "waiting" \in DOMAIN u
  BY <1>1 DEF Sync
<1>3. NextTargetOrFinish(sync) \/ AskWord(u, 0) \/ Fail
  BY <1>1 DEF HandleCfgCrcReply
<1> HIDE DEF u
<1> QED
  BY <1>1, <1>2, <1>3, NextPosted, WordPosted, FailPosted

LEMMA SetPosted ==
    ASSUME Waiting, NEW m, HandleSetCfgWordReply(m)
    PROVE  Posted
<1> DEFINE s == [sync EXCEPT !.word = @ + 1]
<1>1. sync \in Sync /\ "waiting" \in DOMAIN s
  BY WaitingAtTarget DEF Sync
<1>2. UNCHANGED requests \/ Fail \/ SetWord(s, s.word, image[sync.slot])
      \/ SendReq(s, "save", "save", 0, 0)
  BY DEF HandleSetCfgWordReply
<1> HIDE DEF s
<1>3. CASE UNCHANGED requests
  BY <1>3 DEF Posted
<1> QED
  BY <1>1, <1>2, <1>3, FailPosted, SendPosted, WordPosted

LEMMA SavePosted ==
    ASSUME Waiting, HandleSaveReply
    PROVE  Posted
<1> DEFINE u == [sync EXCEPT !.zone = image[sync.slot].zone, !.expected = image[sync.slot]]
<1>1. "waiting" \in DOMAIN u
  BY WaitingAtTarget DEF Sync
<1>2. SendReq(u, "readback", "crc", 0, 0)
  BY DEF HandleSaveReply
<1> HIDE DEF u
<1> QED
  BY <1>1, <1>2, SendPosted

\* An answer is followed by one request at most.
LEMMA ListenerPosted ==
    ASSUME Inv, OnListenerMessage
    PROVE  Posted
<1> DEFINE m == Head(replies)
           idle == ~sync.waiting \/ m.slot # sync.slot \/ m.zone # sync.zone \/ m.cmd # sync.cmd
<1>1. CASE idle
  BY <1>1 DEF OnListenerMessage, Posted
<1>2. CASE ~idle
  <2>1. (CASE sync.step = "size" -> HandleCfgSizeReply(m)
           [] sync.step = "word" -> HandleCfgWordReply(m)
           [] sync.step \in {"crc", "readback"} -> HandleCfgCrcReply(m)
           [] sync.step = "set" -> HandleSetCfgWordReply(m)
           [] sync.step = "save" -> HandleSaveReply)
    BY <1>2 DEF OnListenerMessage
  <2>2. Waiting
    BY <1>2, InvOthers, SyncFields DEF Waiting
  <2>3. AtStep(sync)
    BY <2>2, WaitingAtTarget
  <2> HIDE DEF m, idle
  <2>4. CASE sync.step = "size"
    BY <2>1, <2>2, <2>4, SizePosted
  <2>5. CASE sync.step = "word"
    BY <2>1, <2>2, <2>5, WordReplyPosted
  <2>6. CASE sync.step \in {"crc", "readback"}
    BY <2>1, <2>2, <2>6, CrcPosted
  <2>7. CASE sync.step = "set"
    BY <2>1, <2>2, <2>7, SetPosted
  <2>8. CASE sync.step = "save"
    BY <2>1, <2>2, <2>8, SavePosted
  <2> QED
    BY <2>3, <2>4, <2>5, <2>6, <2>7, <2>8 DEF AtStep
<1> QED
  BY <1>1, <1>2

\* At most one frame is under way, of the request that waits or of its answer.
OneFrame ==
    \/ requests = <<>> /\ replies = <<>>
    \/ sync.waiting /\ Len(requests) = 1 /\ replies = <<>>
    \/ sync.waiting /\ requests = <<>> /\ Len(replies) = 1

LEMMA OneFrameSent ==
    ASSUME requests = <<>>, replies' = <<>>, Posted
    PROVE  OneFrame'
<1>1. \/ requests' = <<>>
      \/ sync'.waiting /\ requests' = <<Frame(sync')>>
  BY DEF Posted, Put
<1> QED
  BY <1>1 DEF OneFrame

LEMMA NotWaiting ==
    ASSUME Inv, ~sync.busy, OneFrame
    PROVE  requests = <<>> /\ replies = <<>>
<1>1. ~sync.waiting
  BY InvOthers DEF Stage, Resting, Begun, AtTarget, Working
<1> QED
  BY <1>1 DEF OneFrame

LEMMA OneFrameKept ==
    ASSUME Inv, OneFrame, UNCHANGED <<requests, replies>>,
           sync.busy => sync'.waiting = sync.waiting
    PROVE  OneFrame'
BY NotWaiting DEF OneFrame

LEMMA OneFrameProcess ==
    ASSUME LateAnswers = FALSE, Inv, OneFrame, ConfigSync_Process1ms
    PROVE  OneFrame'
<1>1. sync \in Sync /\ sync.busy /\ replies' = replies
  BY InvOthers DEF ConfigSync_Process1ms
<1>2. requests = <<>> /\ replies = <<>>
  <2>1. CASE sync.step = "idle"
    <3>1. ~sync.waiting
      BY <1>1, <2>1 DEF Inv, TypeOK
    <3> QED
      BY <3>1 DEF OneFrame
  <2>2. CASE Overdue
    BY <2>2 DEF Overdue, wire
  <2> QED
    BY <2>1, <2>2 DEF ConfigSync_Process1ms
<1>3. CASE sync.waiting /\ sync' = Resent /\ requests' = Put(requests, Frame(sync))
  <2>1. sync'.waiting /\ Frame(sync') = Frame(sync)
    BY <1>1, <1>3 DEF Resent, Sync, Frame
  <2> QED
    BY <1>1, <1>2, <1>3, <2>1, OneFrameSent DEF Posted
<1>4. CASE Fail
  BY <1>1, <1>2, <1>4, FailPosted, OneFrameSent
<1>5. CASE StartUid(sync)
  <2> DEFINE u == [sync EXCEPT !.pos = 1, !.slot = sync.targets[1], !.total = Words]
  <2>1. "waiting" \in DOMAIN u /\ AskWord(u, 0)
    BY <1>1, <1>5 DEF StartUid, Sync
  <2> HIDE DEF u
  <2> QED
    BY <1>1, <1>2, <2>1, WordPosted, OneFrameSent
<1>6. CASE StartTarget(sync, 1)
  BY <1>1, <1>2, <1>6, NextPosted, OneFrameSent
<1> QED
  BY <1>3, <1>4, <1>5, <1>6 DEF ConfigSync_Process1ms

LEMMA OneFrameListener ==
    ASSUME Inv, OneFrame, OnListenerMessage
    PROVE  OneFrame'
<1>1. replies # <<>> /\ replies' = Tail(replies) /\ replies \in Seq(Reply)
  BY InvOthers DEF OnListenerMessage, Others
<1>2. requests = <<>> /\ Len(replies) = 1
  BY <1>1 DEF OneFrame
<1>3. replies' = <<>>
  BY <1>1, <1>2
<1> QED
  BY <1>2, <1>3, ListenerPosted, OneFrameSent

LEMMA OneFrameOnBus ==
    ASSUME Inv, OneFrame, McuAnswers \/ Lose
    PROVE  OneFrame'
<1>1. requests \in Seq(Request) /\ replies \in Seq(Reply) /\ UNCHANGED sync
  BY InvOthers DEF McuAnswers, Lose, panel, Others
<1>2. CASE requests # <<>>
  <2>1. sync.waiting /\ Len(requests) = 1 /\ replies = <<>>
    BY <1>2 DEF OneFrame
  <2>2. requests' = <<>>
    BY <1>1, <1>2, <2>1 DEF McuAnswers, Lose
  <2>3. replies' = <<>> \/ \E a : replies' = <<a>>
    BY <2>1 DEF McuAnswers, Lose, Put
  <2> QED
    BY <1>1, <2>1, <2>2, <2>3 DEF OneFrame
<1>3. CASE requests = <<>>
  <2>1. Len(replies) = 1 /\ replies' = Tail(replies) /\ requests' = <<>>
    BY <1>3 DEF OneFrame, McuAnswers, Lose
  <2>2. replies' = <<>>
    BY <1>1, <2>1
  <2> QED
    BY <2>1, <2>2 DEF OneFrame
<1> QED
  BY <1>2, <1>3

LEMMA OneFrameStarts ==
    ASSUME Inv, OneFrame,
           \/ ConfigSync_StartVerify \/ ConfigSync_StartApply \/ ConfigSync_StartReadAllAndSave
           \/ \E s \in Slot : SchedulePeriodicCrc(s) \/ RequestRemoteUid(s)
           \/ \E expired \in BOOLEAN : ConfigIgnBlockSync_Process1ms(expired)
           \/ \E z \in Zones : BlockZone(z)
    PROVE  OneFrame'
<1>1. UNCHANGED wire
  BY DEF ConfigSync_StartVerify, ConfigSync_StartApply, ConfigSync_StartReadAllAndSave,
         SchedulePeriodicCrc, RequestRemoteUid, StartCommon, ConfigIgnBlockSync_Process1ms, BlockZone
<1>2. sync.busy => sync' = sync
  BY DEF ConfigSync_StartVerify, ConfigSync_StartApply, ConfigSync_StartReadAllAndSave,
         SchedulePeriodicCrc, RequestRemoteUid, StartCommon, ConfigIgnBlockSync_Process1ms, BlockZone
<1> QED
  BY <1>1, <1>2, OneFrameKept DEF wire

LEMMA OneFrameAside ==
    ASSUME Inv, OneFrame, NEW s \in Slot,
           RefreshActiveDevices(s) \/ Reboot(s) \/ StatusFrame(s) \/ EditImage(s)
    PROVE  OneFrame'
<1>1. UNCHANGED wire
  BY DEF RefreshActiveDevices, Reboot, StatusFrame, EditImage
<1>2. sync'.waiting = sync.waiting
  <2>1. CASE sync' = [sync EXCEPT !.unsure = @ \cup {s}]
    BY <2>1, InvOthers DEF Sync
  <2> QED
    BY <2>1 DEF RefreshActiveDevices, Reboot, StatusFrame, EditImage, panel
<1> QED
  BY <1>1, <1>2, OneFrameKept DEF wire

LEMMA OneFrameAlways ==
    ASSUME LateAnswers = FALSE
    PROVE  Spec => [](Inv /\ OneFrame)
<1>1. Init => OneFrame
  BY DEF Init, OneFrame
<1>2. ASSUME Inv, OneFrame, [Next]_vars PROVE OneFrame'
  <2>1. CASE UNCHANGED vars
    BY <1>2, <2>1 DEF vars, panel, wire, OneFrame
  <2>2. CASE Panel
    BY <1>2, <2>2, OneFrameStarts, OneFrameAside, OneFrameProcess, OneFrameListener DEF Panel
  <2>3. CASE Outside
    BY <1>2, <2>3, OneFrameStarts, OneFrameAside, OneFrameOnBus DEF Outside
  <2> QED
    BY <1>2, <2>1, <2>2, <2>3 DEF Next
<1> QED
  BY <1>1, <1>2, InitInv, NextInv, PTL DEF Spec

\* If an answer comes before its timeout or never, an operation begins only when
\* no frame of an earlier one is under way: a request is repeated or given up on
\* an empty wire (ConfigSync_Process1ms).
THEOREM InTimeIsSettled ==
    ASSUME LateAnswers = FALSE
    PROVE  Spec => SettledStarts
<1>1. Inv /\ OneFrame => [SettledStart]_vars
  BY NotWaiting DEF SettledStart, wire
<1> QED
  BY <1>1, OneFrameAlways, PTL DEF SettledStarts

\* Then what an operation reports is true without a condition.
THEOREM InTimeAlways ==
    ASSUME LateAnswers = FALSE
    PROVE  Spec => AppliedIsStored /\ BlockingIsStored /\ ImageIsRead /\ LatchedDiffers
BY InTimeIsSettled, AppliedIsStoredAlways, BlockingIsStoredAlways, ImageIsReadAlways,
   LatchedDiffersAlways, PTL
=============================================================================
