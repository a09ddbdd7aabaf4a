--------------------------- MODULE Supervisor_proofs ---------------------------
(***************************************************************************)
(* What the supervisor guarantees for any number of overlapping checks,    *)
(* any limits of the watchdog and any number of faults and take-overs: the *)
(* index of its own build is lost only to another deployment or after a    *)
(* MigrationError of a child, and a child whose checks went well is only   *)
(* signalled when it had really stalled.                                   *)
(***************************************************************************)
EXTENDS Supervisor, TLAPS

\* The judgement of a check is one of these three: progress was noticed, the
\* child is signalled, or neither.
LEMMA Judgements ==
    ASSUME TypeOK,
           NEW block \in Nat, NEW head \in Nat, NEW early \in BOOLEAN, NEW late \in BOOLEAN,
           Judge(block, head, early, late)
    PROVE  \/ block > lastSynced /\ lastSynced' = block /\ quiet' = 0
                /\ UNCHANGED <<signalled, hasty>>
           \/ block <= lastSynced /\ quiet >= StallTicks
                /\ lastSynced' = lastSynced /\ quiet' = 0
                /\ signalled' = TRUE /\ hasty' = (hasty \/ early)
           \/ block <= lastSynced /\ UNCHANGED <<lastSynced, quiet, signalled, hasty>>
<1>1. lastSynced \in Int /\ quiet \in Int /\ StallTicks \in Int /\ StallTicks > 0
  BY SupervisorAssumption DEF TypeOK
<1>2. signalled \in BOOLEAN /\ hasty \in BOOLEAN
  BY DEF TypeOK
<1> DEFINE age == IF block > lastSynced THEN 0 ELSE quiet
           kill == /\ age > StallTicks \/ (late /\ age = StallTicks)
                   /\ head > 0 /\ head - block > StallLag
<1>3. /\ lastSynced' = Max(block, lastSynced)
      /\ quiet' = (IF kill THEN 0 ELSE age)
      /\ signalled' = (signalled \/ kill)
      /\ hasty' = (hasty \/ (kill /\ early))
  BY Zenon DEF Judge
<1>4. kill => age >= StallTicks
  BY <1>1
<1> HIDE DEF kill
<1>5. CASE block > lastSynced
  <2>1. age = 0 /\ ~kill
    BY <1>1, <1>4, <1>5
  <2>2. lastSynced' = block /\ quiet' = 0
    BY <1>1, <1>3, <1>5, <2>1 DEF Max
  <2>3. UNCHANGED <<signalled, hasty>>
    BY <1>2, <1>3, <2>1
  <2> QED BY <1>5, <2>2, <2>3
<1>6. CASE block <= lastSynced
  <2>1. age = quiet /\ lastSynced' = lastSynced
    BY <1>1, <1>3, <1>6 DEF Max
  <2>2. CASE kill
    <3>1. quiet' = 0 /\ quiet >= StallTicks
      BY <1>3, <1>4, <2>1, <2>2
    <3>2. signalled' = TRUE /\ hasty' = (hasty \/ early)
      BY <1>2, <1>3, <2>2, Zenon
    <3> QED BY <1>6, <2>1, <3>1, <3>2
  <2>3. CASE ~kill
    <3>1. UNCHANGED <<quiet, signalled, hasty>>
      BY <1>2, <1>3, <2>1, <2>3
    <3> QED BY <1>6, <2>1, <3>1
  <2> QED BY <2>2, <2>3
<1>7. block > lastSynced \/ block <= lastSynced
  BY <1>1
<1> QED BY <1>5, <1>6, <1>7, Zenon

LEMMA ResetIsTyped ==
    ASSUME NoWatch
    PROVE  /\ signalled' \in BOOLEAN /\ lastSynced' \in Nat \cup {-1} /\ quiet' \in 0..StallTicks+1
           /\ pc' \in [Check -> {"idle", "asked", "synced", "head"}]
           /\ sb' \in [Check -> Nat] /\ hb' \in [Check -> Nat]
           /\ still' \in 0..StallTicks /\ fresh' \in [Check -> BOOLEAN]
           /\ hasty' \in BOOLEAN /\ disturbed' \in BOOLEAN
<1>1. quiet' \in 0..StallTicks+1 /\ still' \in 0..StallTicks
  BY SupervisorAssumption DEF NoWatch
<1>2. signalled' \in BOOLEAN /\ hasty' \in BOOLEAN /\ disturbed' \in BOOLEAN
      /\ lastSynced' \in Nat \cup {-1}
  BY DEF NoWatch
<1>3. pc' \in [Check -> {"idle", "asked", "synced", "head"}]
  BY DEF NoWatch
<1>4. sb' \in [Check -> Nat] /\ hb' \in [Check -> Nat]
  BY DEF NoWatch
<1>5. fresh' \in [Check -> BOOLEAN]
  BY Zenon DEF NoWatch
<1> QED BY <1>1, <1>2, <1>3, <1>4, <1>5

LEMMA JudgedIsTyped ==
    ASSUME TypeOK,
           NEW block \in Nat, NEW head \in Nat, NEW early \in BOOLEAN, NEW late \in BOOLEAN,
           Judge(block, head, early, late)
    PROVE  /\ lastSynced' \in Nat \cup {-1} /\ quiet' \in 0..StallTicks+1
           /\ signalled' \in BOOLEAN /\ hasty' \in BOOLEAN
<1>1. lastSynced' \in {block, lastSynced} /\ quiet' \in {0, quiet}
      /\ signalled' \in {TRUE, signalled} /\ hasty' \in {hasty, hasty \/ early}
  BY Judgements
<1>2. signalled' \in BOOLEAN /\ hasty' \in BOOLEAN
  BY <1>1 DEF TypeOK
<1>3. lastSynced' \in Nat \cup {-1} /\ quiet' \in 0..StallTicks+1
  BY <1>1, SupervisorAssumption DEF TypeOK
<1> QED BY <1>2, <1>3

\* What either answer of a check leaves behind.
LEMMA AnswerIsTyped ==
    ASSUME TypeOK, NEW c \in Check, NEW block \in Nat, SyncedIs(c, block) \/ HeadIs(c, block)
    PROVE  /\ lastSynced' \in Nat \cup {-1} /\ quiet' \in 0..StallTicks+1
           /\ signalled' \in BOOLEAN /\ hasty' \in BOOLEAN
           /\ pc' \in [Check -> {"idle", "asked", "synced", "head"}]
           /\ sb' \in [Check -> Nat] /\ hb' \in [Check -> Nat]
           /\ fresh' \in [Check -> BOOLEAN]
           /\ UNCHANGED <<configured, headBlock, owner, synced, loop, child, ownership, mistaken,
                       still, takeOvers>>
<1>1. ASSUME NEW answer \in {"synced", "head"}, Keep(c, answer)
      PROVE  /\ pc' \in [Check -> {"idle", "asked", "synced", "head"}]
             /\ UNCHANGED <<lastSynced, quiet, signalled, hasty>>
  BY <1>1 DEF Keep, TypeOK
<1>2. ASSUME NEW answer \in {"synced", "head"}, NEW s \in Nat, NEW h \in Nat, NEW early \in BOOLEAN,
             Conclude(c, answer, s, h, early)
      PROVE  /\ lastSynced' \in Nat \cup {-1} /\ quiet' \in 0..StallTicks+1
             /\ signalled' \in BOOLEAN /\ hasty' \in BOOLEAN
             /\ pc' \in [Check -> {"idle", "asked", "synced", "head"}]
             /\ sb' \in [Check -> Nat] /\ hb' \in [Check -> Nat] /\ fresh' \in [Check -> BOOLEAN]
  <2>1. PICK late \in BOOLEAN : Judge(s, h, early, late)
    BY <1>2 DEF Conclude
  <2>2. /\ lastSynced' \in Nat \cup {-1} /\ quiet' \in 0..StallTicks+1
        /\ signalled' \in BOOLEAN /\ hasty' \in BOOLEAN
    BY <2>1, JudgedIsTyped
  <2>3. /\ pc' \in [Check -> {"idle", "asked", "synced", "head"}]
        /\ sb' \in [Check -> Nat] /\ hb' \in [Check -> Nat] /\ fresh' \in [Check -> BOOLEAN]
    BY <1>2 DEF Conclude, TypeOK
  <2> QED BY <2>2, <2>3
<1>3. Moving \in BOOLEAN /\ sb[c] \in Nat /\ hb[c] \in Nat /\ fresh[c] \in BOOLEAN
  BY DEF Moving, TypeOK
<1>4. UNCHANGED <<configured, headBlock, owner, synced, loop, child, ownership, mistaken,
                       still, takeOvers>>
  BY DEF SyncedIs, HeadIs, schema
<1>5. CASE Keep(c, "synced") /\ sb' = [sb EXCEPT ![c] = block]
           /\ fresh' = [fresh EXCEPT ![c] = Moving] /\ UNCHANGED hb
  <2>1. sb' \in [Check -> Nat] /\ hb' \in [Check -> Nat] /\ fresh' \in [Check -> BOOLEAN]
    BY <1>3, <1>5 DEF TypeOK
  <2> QED BY <1>1, <1>4, <1>5, <2>1 DEF TypeOK
<1>6. CASE Keep(c, "head") /\ hb' = [hb EXCEPT ![c] = block] /\ UNCHANGED <<sb, fresh>>
  <2>1. sb' \in [Check -> Nat] /\ hb' \in [Check -> Nat] /\ fresh' \in [Check -> BOOLEAN]
    BY <1>6 DEF TypeOK
  <2> QED BY <1>1, <1>4, <1>6, <2>1 DEF TypeOK
<1>7. CASE Conclude(c, "head", block, hb[c], Moving)
  BY <1>2, <1>3, <1>4, <1>7
<1>8. CASE Conclude(c, "synced", sb[c], block, fresh[c])
  BY <1>2, <1>3, <1>4, <1>8
<1> QED BY <1>5, <1>6, <1>7, <1>8 DEF SyncedIs, HeadIs

\* Every step keeps the types.
LEMMA TypeStep ==
    ASSUME TypeOK, [Next]_vars
    PROVE  TypeOK'
<1> USE SupervisorAssumption
<1>1. CASE NewBlock
  BY <1>1 DEF NewBlock, TypeOK, schema, process, watch, history, bounds
<1>2. CASE TakeOver
  BY <1>2 DEF TakeOver, TypeOK, schema, process, watch, history, bounds
<1>3. CASE Migrate \/ Sync \/ Stall
  BY <1>3 DEF Migrate, Sync, Stall, TypeOK, schema, process, watch, history, bounds
<1>4. ASSUME Exit, ownership' \in BOOLEAN, mistaken' \in BOOLEAN, faults' \in 0..MaxFaults
      PROVE  TypeOK'
  <2>1. NoWatch /\ child' = "gone" /\ loop' \in {"spawning", "healing"}
    BY <1>4 DEF Exit
  <2>2. UNCHANGED <<configured, headBlock, owner, synced, takeOvers>>
    BY <1>4 DEF Exit, schema
  <2> QED BY <1>4, <2>1, <2>2, ResetIsTyped DEF TypeOK
<1>5. CASE Crash \/ Terminate \/ \E seen \in BOOLEAN : Refuse(seen)
  <2>1. Exit
    BY <1>5 DEF Crash, Terminate, End, Refuse
  <2>2. ownership' \in BOOLEAN /\ mistaken' \in BOOLEAN
    BY <1>5 DEF Crash, Terminate, End, Refuse, TypeOK
  <2>3. faults' \in 0..MaxFaults
    BY <1>5 DEF Crash, Terminate, End, Refuse, Fault, TypeOK
  <2> QED BY <1>4, <2>1, <2>2, <2>3
<1>6. CASE Spawn
  <2>1. NoWatch /\ child' = "starting" /\ loop' = "watching" /\ ownership' = FALSE
        /\ mistaken' = FALSE /\ UNCHANGED <<configured, headBlock, owner, synced, faults, takeOvers>>
    BY <1>6 DEF Spawn, Begin, schema, bounds
  <2> QED BY <2>1, ResetIsTyped DEF TypeOK
<1>7. CASE Heal
  BY <1>7 DEF Heal, DropSchema, HealFails, CannotHeal, Healed, Fault, TypeOK, schema, watch, history, bounds
<1>8. CASE Restart
  <2>1. NoWatch /\ child' = "gone" /\ loop' = "spawning" /\ ownership' = FALSE
        /\ mistaken' = FALSE /\ UNCHANGED <<configured, headBlock, owner, synced, faults, takeOvers>>
    BY <1>8 DEF Restart, schema, bounds
  <2> QED BY <2>1, ResetIsTyped DEF TypeOK
<1>9. CASE Tick
  <2>1. pc' \in [Check -> {"idle", "asked", "synced", "head"}]
    BY <1>9 DEF Tick, TypeOK
  <2>2. quiet' \in 0..StallTicks+1 /\ still' \in 0..StallTicks
    BY <1>9 DEF Tick, UpTo, TypeOK
  <2>3. disturbed' \in BOOLEAN
    BY <1>9, Zenon DEF Tick, TypeOK
  <2>4. UNCHANGED <<configured, headBlock, owner, synced, loop, child, ownership, mistaken, signalled,
                    lastSynced, sb, hb, fresh, hasty, faults, takeOvers>>
    BY <1>9 DEF Tick, schema, process, bounds
  <2> QED BY <2>1, <2>2, <2>3, <2>4 DEF TypeOK
<1>10. ASSUME NEW c \in Check,
              ReadSynced(c) \/ ReadFails(c) \/ HeadArrives(c) \/ HeadFails(c)
       PROVE  TypeOK'
  <2>1. \E block \in Nat : SyncedIs(c, block) \/ HeadIs(c, block)
    BY <1>10 DEF ReadSynced, ReadFails, HeadArrives, HeadFails, TypeOK
  <2>2. PICK block \in Nat : SyncedIs(c, block) \/ HeadIs(c, block)
    BY <2>1
  <2>3. disturbed' \in BOOLEAN
    BY <1>10 DEF ReadSynced, ReadFails, HeadArrives, HeadFails, HeadIs, TypeOK
  <2>4. faults' \in 0..MaxFaults
    BY <1>10 DEF ReadSynced, ReadFails, HeadArrives, HeadFails, Fault, TypeOK
  <2> QED BY <2>2, <2>3, <2>4, AnswerIsTyped DEF TypeOK
<1>11. CASE UNCHANGED vars
  BY <1>11 DEF vars, TypeOK, schema, process, watch, history, bounds
<1> QED BY <1>1, <1>2, <1>3, <1>5, <1>6, <1>7, <1>8, <1>9, <1>10, <1>11 DEF Next, Ponder, Watchdog

\* Only the end of a child that printed a MigrationError leads to a heal, and while
\* there is no child nothing makes another build's schema our own again.
LEMMA ForeignStep ==
    ASSUME SupervisorInv, [Next]_vars
    PROVE  HealsForeign'
<1> USE DEF SupervisorInv, TypeOK, HealsForeign
<1>1. CASE NewBlock \/ TakeOver
  BY <1>1 DEF NewBlock, TakeOver, schema, process
<1>2. CASE Migrate \/ Sync \/ Stall
  BY <1>2 DEF Migrate, Sync, Stall, process
<1>3. ASSUME Exit, NEW seen \in BOOLEAN, ownership' = (ownership \/ seen),
             seen => mistaken' \/ owner # "ours"
      PROVE  HealsForeign'
  BY <1>3 DEF Exit, schema
<1>4. CASE Crash \/ Terminate \/ \E seen \in BOOLEAN : Refuse(seen)
  <2>1. ASSUME NEW seen \in BOOLEAN, End(seen) \/ Refuse(seen) PROVE HealsForeign'
    BY <1>3, <2>1 DEF End, Refuse
  <2> QED BY <1>4, <2>1 DEF Crash, Terminate
<1>5. CASE Spawn \/ Restart
  BY <1>5 DEF Spawn, Begin, Restart, schema
<1>6. CASE Heal
  BY <1>6 DEF Heal, Healed, DropSchema, HealFails, CannotHeal, schema
<1>7. CASE Tick
  BY <1>7 DEF Tick, schema, process
<1>8. ASSUME NEW c \in Check,
             ReadSynced(c) \/ ReadFails(c) \/ HeadArrives(c) \/ HeadFails(c)
      PROVE  HealsForeign'
  BY <1>8 DEF ReadSynced, ReadFails, HeadArrives, HeadFails, SyncedIs, HeadIs, schema
<1>9. CASE UNCHANGED vars
  BY <1>9 DEF vars, schema, process
<1> QED BY <1>1, <1>2, <1>3, <1>4, <1>5, <1>6, <1>7, <1>8, <1>9 DEF Next, Ponder, Watchdog

\* The supervisor's state between its awaits (SupervisorInv): types, and a heal
\* only after a child that printed a MigrationError, of a schema that is another
\* build's unless the error was about something else.
THEOREM SupervisorInvariant == Spec => []SupervisorInv
<1>1. Init => SupervisorInv
  <2> SUFFICES ASSUME Init PROVE SupervisorInv
    OBVIOUS
  <2>1. synced \in Nat /\ owner \in {"none", "ours", "other"} /\ headBlock \in Nat
    BY DEF Init
  <2>2. pc \in [Check -> {"idle", "asked", "synced", "head"}]
    BY DEF Init
  <2>3. sb \in [Check -> Nat] /\ hb \in [Check -> Nat]
    BY DEF Init
  <2>4. fresh \in [Check -> BOOLEAN]
    BY Zenon DEF Init
  <2>5. quiet \in 0..StallTicks+1 /\ still \in 0..StallTicks /\ faults \in 0..MaxFaults
        /\ takeOvers \in 0..MaxTakeOvers /\ lastSynced \in Nat \cup {-1}
    BY SupervisorAssumption DEF Init
  <2>6. /\ configured \in BOOLEAN /\ loop = "spawning" /\ child = "gone"
        /\ ownership = FALSE /\ mistaken = FALSE /\ signalled = FALSE /\ hasty = FALSE /\ disturbed = FALSE
    BY DEF Init
  <2> QED BY <2>1, <2>2, <2>3, <2>4, <2>5, <2>6 DEF SupervisorInv, TypeOK, HealsForeign
<1>2. SupervisorInv /\ [Next]_vars => SupervisorInv'
  BY TypeStep, ForeignStep DEF SupervisorInv
<1> QED BY <1>1, <1>2, PTL DEF Spec

\* The index of the own build is never dropped and never goes back, but for the
\* other deployment and for the heal after a child that printed a MigrationError
\* of another kind (KeepsOwnIndex).
THEOREM OwnIndexIsKept == Spec => KeepsOwnIndex
<1>1. SupervisorInv /\ [Next]_vars =>
        [owner = "ours" => \/ owner' = "ours" /\ synced' >= synced
                           \/ takeOvers' > takeOvers
                           \/ loop = "healing" /\ mistaken]_vars
  <2> SUFFICES ASSUME SupervisorInv, [Next]_vars, owner = "ours"
               PROVE  \/ owner' = "ours" /\ synced' >= synced
                      \/ takeOvers' > takeOvers
                      \/ loop = "healing" /\ mistaken
    OBVIOUS
  <2> USE DEF SupervisorInv, TypeOK, HealsForeign
  <2>1. CASE NewBlock \/ TakeOver
    BY <2>1, SupervisorAssumption DEF NewBlock, TakeOver, schema
  <2>2. CASE Ponder
    BY <2>2 DEF Ponder, Migrate, Sync, Stall, Crash, Terminate, End, Refuse, Exit, schema
  <2>3. CASE Spawn \/ Restart
    BY <2>3 DEF Spawn, Begin, Restart, schema
  <2>4. CASE Heal
    BY <2>4 DEF Heal, Healed, DropSchema, HealFails, CannotHeal
  <2>5. CASE Watchdog
    BY <2>5 DEF Watchdog, Tick, ReadSynced, ReadFails, HeadArrives, HeadFails, SyncedIs, HeadIs, schema
  <2>6. CASE UNCHANGED vars
    BY <2>6 DEF vars, schema
  <2> QED BY <2>1, <2>2, <2>3, <2>4, <2>5, <2>6 DEF Next
<1> QED BY <1>1, SupervisorInvariant, PTL DEF Spec, KeepsOwnIndex

-----------------------------------------------------------------------------

\* As long as no check of this child was disturbed, checks come one at a time,
\* what the watchdog calls quiet was quiet (an index that is where it was noticed
\* last has stood at least as long), and a reading that is judged was taken of it.
Noticed == synced = lastSynced => quiet <= still \/ still = StallTicks

ReadingsAreTrue ==
    \A c \in Check : pc[c] = "synced" =>
        sb[c] <= synced /\ (sb[c] <= lastSynced /\ quiet >= StallTicks => ~fresh[c])

OneAtATime == \A c, d \in Check : pc[c] # "idle" /\ pc[d] # "idle" => c = d

NoChild == loop # "watching" => lastSynced = -1 /\ \A c \in Check : pc[c] = "idle"

Truthful == ~hasty /\ lastSynced <= synced /\ OneAtATime /\ Noticed /\ ReadingsAreTrue

WatchInv == NoChild /\ (~disturbed => Truthful)

LEMMA ResetIsTruthful ==
    ASSUME TypeOK, NoWatch, UNCHANGED synced
    PROVE  WatchInv'
  BY DEF NoWatch, TypeOK, WatchInv, NoChild, Truthful, OneAtATime, Noticed, ReadingsAreTrue

\* A check is judged truthfully: the child is not signalled on a reading of an
\* index that was moving.
LEMMA ConcludedIsTruthful ==
    ASSUME TypeOK, Truthful, NEW c \in Check,
           NEW answer \in {"synced", "head"},
           NEW s \in Nat, NEW h \in Nat, NEW early \in BOOLEAN,
           s <= synced,
           s <= lastSynced /\ quiet >= StallTicks => ~early,
           Conclude(c, answer, s, h, early), UNCHANGED <<synced, still>>
    PROVE  Truthful'
<1>1. PICK late \in BOOLEAN : Judge(s, h, early, late)
  BY DEF Conclude
<1>2. \/ s > lastSynced /\ lastSynced' = s /\ quiet' = 0 /\ UNCHANGED <<signalled, hasty>>
      \/ s <= lastSynced /\ quiet >= StallTicks /\ lastSynced' = lastSynced /\ quiet' = 0
           /\ hasty' = (hasty \/ early)
      \/ s <= lastSynced /\ UNCHANGED <<lastSynced, quiet, signalled, hasty>>
  BY <1>1, Judgements
<1>3. pc' = [pc EXCEPT ![c] = "idle"] /\ pc[c] # "idle"
  BY DEF Conclude
<1>4. \A d \in Check : pc'[d] = "idle"
  BY <1>3 DEF TypeOK, Truthful, OneAtATime
<1>5. OneAtATime' /\ ReadingsAreTrue'
  BY <1>4 DEF OneAtATime, ReadingsAreTrue
<1>6. ~hasty'
  BY <1>2 DEF Truthful
<1>7. lastSynced' <= synced'
  BY <1>2 DEF Truthful
<1>8. Noticed'
  BY <1>2 DEF Truthful, Noticed, TypeOK
<1> QED BY <1>5, <1>6, <1>7, <1>8 DEF Truthful

\* Every step keeps the watchdog's account.
LEMMA WatchStep ==
    ASSUME SupervisorInv, WatchInv, [Next]_vars
    PROVE  WatchInv'
<1> USE SupervisorAssumption DEF SupervisorInv, HealsForeign
<1>0. TypeOK
  OBVIOUS
<1>1. ASSUME UNCHANGED <<synced, watch, history>>, loop' = "watching" => loop = "watching",
             loop = "watching" => loop' = "watching"
      PROVE  WatchInv'
  BY <1>1 DEF watch, history, WatchInv, NoChild, Truthful, OneAtATime, Noticed, ReadingsAreTrue
<1>2. CASE NewBlock \/ Migrate \/ Stall
  BY <1>1, <1>2 DEF NewBlock, Migrate, Stall, schema, process
<1>3. CASE TakeOver
  BY <1>3 DEF TakeOver, process, watch, WatchInv, NoChild
<1>4. CASE Sync
  <2>1. synced' = synced + 1 /\ still' = 0 /\ UNCHANGED <<loop, watch, hasty, fresh, disturbed>>
    BY <1>4 DEF Sync, process
  <2>2. NoChild'
    BY <2>1 DEF WatchInv, NoChild, watch
  <2>3. ASSUME Truthful PROVE Truthful'
    <3>1. lastSynced' <= synced' /\ Noticed' /\ ~hasty'
      BY <1>0, <2>1, <2>3 DEF Truthful, Noticed, TypeOK, watch
    <3>2. OneAtATime' /\ ReadingsAreTrue'
      BY <1>0, <2>1, <2>3 DEF Truthful, OneAtATime, ReadingsAreTrue, TypeOK, watch
    <3> QED BY <3>1, <3>2 DEF Truthful
  <2> QED BY <2>1, <2>2, <2>3 DEF WatchInv
<1>5. CASE Crash \/ Terminate \/ Spawn \/ Restart \/ \E seen \in BOOLEAN : Refuse(seen)
  <2>1. NoWatch /\ UNCHANGED synced
    BY <1>5 DEF Crash, Terminate, End, Spawn, Begin, Restart, Refuse, Exit, schema
  <2> QED BY <1>0, <2>1, ResetIsTruthful
<1>6. CASE HealFails \/ CannotHeal
  BY <1>1, <1>6 DEF HealFails, CannotHeal, Healed, schema
<1>7. CASE DropSchema
  <2>1. synced' = 0 /\ loop = "healing" /\ loop' = "spawning" /\ UNCHANGED <<watch, history>>
    BY <1>7 DEF DropSchema, Healed
  <2>2. NoChild /\ NoChild'
    BY <2>1 DEF WatchInv, NoChild, watch
  <2>3. lastSynced = -1 /\ \A c \in Check : pc[c] = "idle"
    BY <2>1, <2>2 DEF NoChild
  <2>4. ASSUME Truthful PROVE Truthful'
    BY <2>1, <2>3, <2>4 DEF Truthful, OneAtATime, Noticed, ReadingsAreTrue, watch, history
  <2> QED BY <2>1, <2>2, <2>4 DEF WatchInv, history
<1>8. CASE Tick
  <2>1. PICK c \in Check : pc[c] = "idle" /\ pc' = [pc EXCEPT ![c] = "asked"]
    BY <1>8 DEF Tick
  <2>2. loop = "watching" /\ UNCHANGED <<loop, synced, lastSynced, sb, fresh, hasty>>
    BY <1>8 DEF Tick, process, schema
  <2>3. NoChild'
    BY <2>2 DEF NoChild
  <2>4. ASSUME ~disturbed' PROVE Truthful'
    <3>1. Truthful /\ \A d \in Check : pc[d] = "idle"
      BY <1>8, <2>4 DEF Tick, WatchInv
    <3>2. OneAtATime' /\ ReadingsAreTrue'
      BY <1>0, <2>1, <3>1 DEF OneAtATime, ReadingsAreTrue, TypeOK
    <3>3. Noticed'
      BY <1>0, <1>8, <2>2, <3>1 DEF Tick, UpTo, Truthful, Noticed, TypeOK
    <3> QED BY <2>2, <3>1, <3>2, <3>3 DEF Truthful
  <2> QED BY <2>3, <2>4 DEF WatchInv
<1>9. ASSUME NEW c \in Check,
             ReadSynced(c) \/ ReadFails(c) \/ HeadArrives(c) \/ HeadFails(c)
      PROVE  WatchInv'
  <2>1. pc[c] # "idle" /\ UNCHANGED <<loop, synced, still>>
    BY <1>9 DEF ReadSynced, ReadFails, HeadArrives, HeadFails, SyncedIs, HeadIs, Keep, Conclude, schema
  <2>2. NoChild'
    BY <2>1 DEF WatchInv, NoChild
  <2>3. CASE ReadFails(c)
    BY <2>2, <2>3 DEF ReadFails, WatchInv
  <2>4. ASSUME Truthful, ReadSynced(c) PROVE Truthful'
    <3>1. CASE Keep(c, "synced") /\ sb' = [sb EXCEPT ![c] = synced]
               /\ fresh' = [fresh EXCEPT ![c] = Moving] /\ UNCHANGED hb
      <4>1. UNCHANGED <<lastSynced, quiet, hasty>> /\ pc[c] = "asked"
            /\ pc' = [pc EXCEPT ![c] = "synced"]
        BY <3>1 DEF Keep
      <4>2. \A d \in Check : d # c => pc'[d] = "idle"
        BY <1>0, <2>1, <2>4, <4>1 DEF Truthful, OneAtATime, TypeOK
      <4>3. OneAtATime'
        BY <4>2 DEF OneAtATime
      <4>4. sb'[c] = synced /\ (fresh'[c] <=> still < StallTicks)
        BY <1>0, <3>1 DEF TypeOK, Moving
      <4>5. synced <= lastSynced /\ quiet >= StallTicks => still = StallTicks
        BY <1>0, <2>4 DEF Truthful, Noticed, TypeOK
      <4>6. ReadingsAreTrue'
        <5> SUFFICES ASSUME NEW d \in Check, pc'[d] = "synced"
                     PROVE  sb'[d] <= synced' /\ (sb'[d] <= lastSynced' /\ quiet' >= StallTicks => ~fresh'[d])
          BY DEF ReadingsAreTrue
        <5>1. d = c
          BY <4>2
        <5> QED BY <1>0, <2>1, <4>1, <4>4, <4>5, <5>1 DEF TypeOK
      <4>7. ~hasty' /\ lastSynced' <= synced' /\ Noticed'
        BY <2>1, <2>4, <4>1 DEF Truthful, Noticed
      <4> QED BY <4>3, <4>6, <4>7 DEF Truthful
    <3>2. CASE Conclude(c, "head", synced, hb[c], Moving)
      <4>1. synced <= lastSynced /\ quiet >= StallTicks => ~Moving
        BY <1>0, <2>4 DEF Truthful, Noticed, TypeOK, Moving
      <4>2. synced \in Nat /\ hb[c] \in Nat /\ Moving \in BOOLEAN /\ synced <= synced
        BY <1>0 DEF TypeOK, Moving
      <4> QED BY <1>0, <2>1, <2>4, <3>2, <4>1, <4>2, ConcludedIsTruthful
    <3> QED BY <2>4, <3>1, <3>2 DEF ReadSynced, SyncedIs
  <2>5. ASSUME Truthful, NEW block \in Nat, HeadIs(c, block) PROVE Truthful'
    <3>1. CASE Keep(c, "head") /\ UNCHANGED <<sb, fresh>>
      <4>1. UNCHANGED <<lastSynced, quiet, hasty>> /\ pc[c] = "asked"
            /\ pc' = [pc EXCEPT ![c] = "head"]
        BY <3>1 DEF Keep
      <4>2. OneAtATime' /\ ReadingsAreTrue'
        BY <1>0, <2>1, <2>5, <3>1, <4>1 DEF Truthful, OneAtATime, ReadingsAreTrue, TypeOK
      <4>3. ~hasty' /\ lastSynced' <= synced' /\ Noticed'
        BY <2>1, <2>5, <4>1 DEF Truthful, Noticed
      <4> QED BY <4>2, <4>3 DEF Truthful
    <3>2. CASE Conclude(c, "synced", sb[c], block, fresh[c])
      <4>1. pc[c] = "synced"
        BY <3>2 DEF Conclude
      <4>2. sb[c] <= synced /\ (sb[c] <= lastSynced /\ quiet >= StallTicks => ~fresh[c])
        BY <2>5, <4>1 DEF Truthful, ReadingsAreTrue
      <4>3. sb[c] \in Nat /\ fresh[c] \in BOOLEAN
        BY <1>0 DEF TypeOK
      <4> QED BY <1>0, <2>1, <2>5, <3>2, <4>2, <4>3, ConcludedIsTruthful
    <3> QED BY <2>5, <3>1, <3>2 DEF HeadIs
  <2>6. CASE ReadSynced(c)
    BY <2>2, <2>4, <2>6 DEF WatchInv, ReadSynced
  <2>7. CASE HeadArrives(c) \/ HeadFails(c)
    <3>1. UNCHANGED disturbed /\ \E block \in Nat : HeadIs(c, block)
      BY <1>0, <2>7 DEF HeadArrives, HeadFails, HeadIs, TypeOK
    <3> QED BY <2>2, <2>5, <3>1 DEF WatchInv
  <2> QED BY <1>9, <2>3, <2>6, <2>7
<1>10. CASE UNCHANGED vars
  BY <1>1, <1>10 DEF vars, schema, process
<1> QED BY <1>2, <1>3, <1>4, <1>5, <1>6, <1>7, <1>8, <1>9, <1>10 DEF Next, Ponder, Heal, Watchdog

\* A child that is signalled had stalled, unless one of its checks was slow or
\* failed or the schema was taken over (KilledIsStalled).
THEOREM OnlyStalledIsKilled == Spec => []KilledIsStalled
<1>1. Init => WatchInv
  BY DEF Init, WatchInv, NoChild, Truthful, OneAtATime, Noticed, ReadingsAreTrue
<1>2. SupervisorInv /\ WatchInv /\ [Next]_vars => WatchInv'
  BY WatchStep
<1>3. WatchInv => KilledIsStalled
  BY DEF WatchInv, Truthful, KilledIsStalled
<1> QED BY <1>1, <1>2, <1>3, SupervisorInvariant, PTL DEF Spec
=============================================================================
