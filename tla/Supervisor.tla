------------------------------ MODULE Supervisor ------------------------------
(***************************************************************************)
(* The indexer's supervisor (scripts/indexer-supervisor.mjs): the loop     *)
(* that spawns Ponder for ever, the auto-heal that drops the schema when   *)
(* the child has printed a MigrationError (meant for a schema locked to    *)
(* another build, but any matches), and the watchdog, whose checks begin   *)
(* at every interval, read the index and the chain, and may answer late    *)
(* and in any order.                                                       *)
(*                                                                         *)
(* Two deployments overlap while a new one rolls out, each with a          *)
(* supervisor of its own on the one schema: the other one is TakeOver.     *)
(*                                                                         *)
(* Time is in intervals of the watchdog.                                   *)
(***************************************************************************)
EXTENDS Integers

CONSTANTS
    Check,          \* checks that can be in flight together
    StallTicks,     \* STALL_MS in intervals
    StallLag,       \* STALL_LAG_BLOCKS
    MaxHead,        \* bound on the chain
    MaxFaults,      \* bound on failed calls of the supervisor, and on children that
                    \* print a MigrationError other than that of a foreign schema
    MaxTakeOvers    \* bound on what the other deployment does before it is stopped

ASSUME SupervisorAssumption ==
    /\ StallTicks \in Nat \ {0} /\ StallLag \in Nat /\ MaxHead \in Nat
    /\ MaxFaults \in Nat /\ MaxTakeOvers \in Nat

VARIABLES
    configured, \* DATABASE_SCHEMA is set, to an identifier
    headBlock,  \* the chain
    owner,      \* the build that the schema is locked to
    synced,     \* the block of its checkpoint, 0 without one
    loop,       \* main: "spawning", "watching" or "healing"
    child,      \* Ponder: "gone", "starting", "syncing" or "stalled"
    ownership,  \* a MigrationError was seen in the child's output
    mistaken,   \* history: and not that of a schema of another build
    signalled,  \* the child was sent SIGTERM
    lastSynced,
    quiet,      \* intervals since lastProgressAt
    pc,         \* pc[c]: "idle", "asked", or which of its two answers it has:
                \* "synced" or "head"
    sb, hb,     \* sb[c], hb[c]: that answer, of syncedBlock or of headBlock
    still,      \* history: intervals since the index advanced or the child began
    fresh,      \* history: fresh[c]: that was less than STALL_MS when c read the index
    hasty,      \* history: the child was signalled on such a reading
    disturbed,  \* history: a check of this child was slow or read no checkpoint
    faults, takeOvers

schema == <<owner, synced>>
process == <<loop, child, ownership, mistaken, signalled>>
watch == <<lastSynced, quiet, pc, sb, hb>>
history == <<still, fresh, hasty, disturbed>>
bounds == <<faults, takeOvers>>
vars == <<configured, headBlock, schema, process, watch, history, bounds>>

Init ==
    /\ configured \in BOOLEAN
    /\ headBlock = 1
    /\ owner \in {"none", "ours", "other"}
    /\ synced = IF owner = "none" THEN 0 ELSE 1
    /\ loop = "spawning" /\ child = "gone" /\ ownership = FALSE
    /\ mistaken = FALSE /\ signalled = FALSE
    /\ lastSynced = -1 /\ quiet = 0
    /\ pc = [c \in Check |-> "idle"] /\ sb = [c \in Check |-> 0] /\ hb = [c \in Check |-> 0]
    /\ still = 0 /\ fresh = [c \in Check |-> FALSE] /\ hasty = FALSE
    /\ disturbed = FALSE
    /\ faults = 0 /\ takeOvers = 0

Fault == faults < MaxFaults /\ faults' = faults + 1

-----------------------------------------------------------------------------
(* The world *)

NewBlock ==
    /\ headBlock < MaxHead
    /\ headBlock' = headBlock + 1
    /\ UNCHANGED <<configured, schema, process, watch, history, bounds>>

\* The supervisor of the other deployment finds our build's schema, drops it,
\* and its Ponder starts over.
TakeOver ==
    /\ takeOvers < MaxTakeOvers
    /\ takeOvers' = takeOvers + 1
    /\ owner' = "other" /\ synced' = 0
    /\ disturbed' = TRUE
    /\ UNCHANGED <<configured, headBlock, process, watch, still, fresh, hasty,
                   faults>>

-----------------------------------------------------------------------------
(* Ponder, as far as the supervisor relies on it *)

\* A schema of this build, or none, is taken up where its checkpoint is.
Migrate ==
    /\ child = "starting" /\ owner # "other"
    /\ child' = "syncing" /\ owner' = "ours"
    /\ UNCHANGED <<configured, headBlock, synced, loop, ownership, mistaken, signalled,
                   watch, history, bounds>>

Sync ==
    /\ child = "syncing" /\ owner = "ours" /\ synced < headBlock
    /\ synced' = synced + 1
    /\ still' = 0
    /\ UNCHANGED <<configured, headBlock, owner, process, watch, fresh, hasty,
                   disturbed, bounds>>

\* The RPC leaves it running but not advancing.
Stall ==
    /\ child \in {"starting", "syncing"}
    /\ child' = "stalled"
    /\ UNCHANGED <<configured, headBlock, schema, loop, ownership, mistaken, signalled,
                   watch, history, bounds>>

-----------------------------------------------------------------------------
(* runPonderOnce and main *)

\* runPonderOnce's variables are those of one child: lastSynced starts below
\* every block.  A check in flight when its child ends goes on, but its closure
\* can only signal the child that is gone.
NoWatch ==
    /\ signalled' = FALSE /\ lastSynced' = -1 /\ quiet' = 0
    /\ pc' = [c \in Check |-> "idle"] /\ sb' = [c \in Check |-> 0] /\ hb' = [c \in Check |-> 0]
    /\ still' = 0 /\ fresh' = [c \in Check |-> FALSE] /\ hasty' = FALSE
    /\ disturbed' = FALSE

Begin ==
    /\ loop = "spawning"
    /\ loop' = "watching" /\ child' = "starting" /\ mistaken' = FALSE
    /\ NoWatch
    /\ UNCHANGED <<configured, headBlock, schema, bounds>>

\* Mutant: the flag is declared outside of runPonderOnce and never reset.
SpawnWithOldFlag == Begin /\ UNCHANGED ownership

Spawn == Begin /\ ownership' = FALSE

\* Mutant: main heals after every child.
ExitAndHeal ==
    /\ child # "gone"
    /\ child' = "gone"
    /\ loop' = "healing"
    /\ NoWatch
    /\ UNCHANGED <<configured, headBlock, schema, takeOvers>>

\* The child has ended, and main goes on with the flag.
Exit ==
    /\ child # "gone"
    /\ child' = "gone"
    /\ loop' = IF ownership' THEN "healing" ELSE "spawning"
    /\ NoWatch
    /\ UNCHANGED <<configured, headBlock, schema, takeOvers>>

\* Ponder finds the schema of another build and ends.  Its message is seen, or
\* it is not: split over two chunks, or still in the pipe when "exit" comes.
Refuse(seen) ==
    /\ child = "starting" /\ owner = "other"
    /\ ownership' = (ownership \/ seen)
    /\ Exit
    /\ UNCHANGED <<mistaken, faults>>

\* It ends otherwise, be the schema whose it may.  OWNERSHIP_RE matches whatever
\* else it has printed with "MigrationError" in it.
End(seen) ==
    /\ ownership' = (ownership \/ seen) /\ mistaken' = (mistaken \/ seen)
    /\ Exit
    /\ IF seen THEN Fault ELSE UNCHANGED faults

Crash == \E seen \in BOOLEAN : End(seen)

\* It ends for the signal.
Terminate == signalled /\ \E seen \in BOOLEAN : End(seen)

Healed == loop = "healing" /\ loop' = "spawning"

DropSchema ==
    /\ Healed /\ configured
    /\ owner' = "none" /\ synced' = 0
    /\ UNCHANGED <<configured, headBlock, child, ownership, mistaken, signalled,
                   watch, history, bounds>>

\* "will retry next loop"
HealFails ==
    /\ Healed /\ configured /\ Fault
    /\ UNCHANGED <<configured, headBlock, schema, child, ownership, mistaken,
                   signalled, watch, history, takeOvers>>

CannotHeal ==
    /\ Healed /\ ~configured
    /\ UNCHANGED <<configured, headBlock, schema, child, ownership, mistaken,
                   signalled, watch, history, bounds>>

\* The supervisor is restarted, and its child with it.
Restart ==
    /\ loop' = "spawning" /\ child' = "gone" /\ ownership' = FALSE /\ mistaken' = FALSE
    /\ NoWatch
    /\ UNCHANGED <<configured, headBlock, schema, bounds>>

-----------------------------------------------------------------------------
(* The watchdog *)

UpTo(bound, n) == IF n < bound THEN n + 1 ELSE n

\* An interval passes and a check begins, whether or not the last one is over.
Tick ==
    /\ loop = "watching"
    /\ \E c \in Check : pc[c] = "idle" /\ pc' = [pc EXCEPT ![c] = "asked"]
    /\ quiet' = UpTo(StallTicks + 1, quiet) /\ still' = UpTo(StallTicks, still)
    /\ disturbed' = (disturbed \/ \E c \in Check : pc[c] # "idle")
    /\ UNCHANGED <<configured, headBlock, schema, process, lastSynced, sb, hb, fresh,
                   hasty, bounds>>

Max(a, b) == IF a > b THEN a ELSE b

\* Mutant: the lag is judged as soon as one interval was quiet.
JudgeAtOnce(block, head, early, late) ==
    /\ lastSynced' = Max(block, lastSynced)
    /\ LET age == IF block > lastSynced THEN 0 ELSE quiet
           kill == age > 0 /\ head > 0 /\ head - block > StallLag
       IN  /\ quiet' = IF kill THEN 0 ELSE age
           /\ signalled' = (signalled \/ kill)
           /\ hasty' = (hasty \/ (kill /\ early))

\* Mutant: the child is never signalled.
NeverJudge(block, head, early, late) ==
    /\ lastSynced' = Max(block, lastSynced)
    /\ quiet' = IF block > lastSynced THEN 0 ELSE quiet
    /\ UNCHANGED <<signalled, hasty>>

\* No progress for STALL_MS and real lag: SIGTERM.  In the interval that ends
\* the span, how late the answers came decides.
Judge(block, head, early, late) ==
    /\ lastSynced' = Max(block, lastSynced)
    /\ LET age == IF block > lastSynced THEN 0 ELSE quiet
           kill == /\ age > StallTicks \/ (late /\ age = StallTicks)
                   /\ head > 0 /\ head - block > StallLag
       IN  /\ quiet' = IF kill THEN 0 ELSE age
           /\ signalled' = (signalled \/ kill)
           /\ hasty' = (hasty \/ (kill /\ early))

\* The first of the two answers is kept, the second is judged with it.
Keep(c, answer) ==
    /\ pc[c] = "asked"
    /\ pc' = [pc EXCEPT ![c] = answer]
    /\ UNCHANGED <<lastSynced, quiet, signalled, hasty>>

Conclude(c, answer, block, head, early) ==
    /\ pc[c] = answer
    /\ pc' = [pc EXCEPT ![c] = "idle"]
    /\ sb' = [sb EXCEPT ![c] = 0] /\ hb' = [hb EXCEPT ![c] = 0]
    /\ fresh' = [fresh EXCEPT ![c] = FALSE]
    /\ \E late \in BOOLEAN : Judge(block, head, early, late)

Moving == still < StallTicks

SyncedIs(c, block) ==
    /\ \/ /\ Keep(c, "synced")
          /\ sb' = [sb EXCEPT ![c] = block] /\ fresh' = [fresh EXCEPT ![c] = Moving]
          /\ UNCHANGED hb
       \/ Conclude(c, "head", block, hb[c], Moving)
    /\ UNCHANGED <<configured, headBlock, schema, loop, child, ownership, mistaken,
                   still, takeOvers>>

\* Without DATABASE_SCHEMA syncedBlock answers at once.
HeadIs(c, block) ==
    /\ \/ configured /\ Keep(c, "head") /\ hb' = [hb EXCEPT ![c] = block] /\ UNCHANGED <<sb, fresh>>
       \/ Conclude(c, "synced", sb[c], block, fresh[c])
    /\ UNCHANGED <<configured, headBlock, schema, loop, child, ownership, mistaken,
                   still, disturbed, takeOvers>>

ReadSynced(c) == configured /\ SyncedIs(c, synced) /\ UNCHANGED <<disturbed, faults>>

\* A failed query reads as no checkpoint, and so does a schema without a name.
ReadFails(c) ==
    /\ SyncedIs(c, 0)
    /\ disturbed' = TRUE
    /\ IF configured THEN Fault ELSE UNCHANGED faults

HeadArrives(c) == HeadIs(c, headBlock) /\ UNCHANGED faults

\* eth_blockNumber fails: 0, which is no lag.
HeadFails(c) == HeadIs(c, 0) /\ Fault

-----------------------------------------------------------------------------

Ponder == Migrate \/ Sync \/ Stall \/ Crash \/ Terminate \/ \E seen \in BOOLEAN : Refuse(seen)

Heal == DropSchema \/ HealFails \/ CannotHeal

Watchdog ==
    \/ Tick
    \/ \E c \in Check : ReadSynced(c) \/ ReadFails(c) \/ HeadArrives(c) \/ HeadFails(c)

Next == NewBlock \/ TakeOver \/ Ponder \/ Spawn \/ Heal \/ Restart \/ Watchdog

Spec == Init /\ [][Next]_vars

\* The supervisor's own steps are taken, checks are answered, the chain goes on
\* and a signalled child ends; not every heal is cut off by a restart.  Of Ponder:
\* not every start fails before its migration, not every refusal goes unseen, not
\* every child stalls before its first block, and other MigrationErrors come to an
\* end (MaxFaults): each of them costs the index.
Fairness ==
    /\ WF_vars(Spawn) /\ SF_vars(Heal) /\ WF_vars(Tick)
    /\ \A c \in Check : WF_vars(ReadSynced(c) \/ HeadArrives(c))
    /\ WF_vars(NewBlock) /\ WF_vars(Terminate)
    /\ SF_vars(Migrate) /\ SF_vars(Refuse(TRUE)) /\ SF_vars(Sync)

FairSpec == Spec /\ Fairness

-----------------------------------------------------------------------------
(* Properties *)

TypeOK ==
    /\ configured \in BOOLEAN
    /\ headBlock \in Nat /\ synced \in Nat
    /\ owner \in {"none", "ours", "other"}
    /\ loop \in {"spawning", "watching", "healing"}
    /\ child \in {"gone", "starting", "syncing", "stalled"}
    /\ ownership \in BOOLEAN /\ mistaken \in BOOLEAN /\ signalled \in BOOLEAN
    /\ lastSynced \in Nat \cup {-1} /\ quiet \in 0..StallTicks+1
    /\ pc \in [Check -> {"idle", "asked", "synced", "head"}]
    /\ sb \in [Check -> Nat] /\ hb \in [Check -> Nat]
    /\ still \in 0..StallTicks /\ fresh \in [Check -> BOOLEAN]
    /\ hasty \in BOOLEAN /\ disturbed \in BOOLEAN
    /\ faults \in 0..MaxFaults /\ takeOvers \in 0..MaxTakeOvers

\* A supervisor heals only while no child of its own runs, and only after one that
\* printed a MigrationError.  The schema is then its own build's only if that error
\* was not about whose schema it is.
HealsForeign ==
    /\ loop = "watching" <=> child # "gone"
    /\ ownership => loop # "watching"
    /\ loop = "healing" => ownership /\ (owner = "ours" => mistaken)

\* What main relies on between its awaits.
SupervisorInv == TypeOK /\ HealsForeign

\* "A normal restart (no ownership error) does NOT drop" (lines 11-12): through
\* crashes, restarts, stalls and signals the index of the own build is only ever
\* lost to another deployment, or to the heal right after a child that printed
\* a MigrationError, which the comment means to be an ownership error and
\* OWNERSHIP_RE does not.
KeepsOwnIndex ==
    [][owner = "ours" => \/ owner' = "ours" /\ synced' >= synced
                         \/ takeOvers' > takeOvers
                         \/ loop = "healing" /\ mistaken]_vars

\* A child that is signalled had really made no progress for STALL_MS when its
\* index was read, less the interval before the last progress was noticed; unless
\* a check of it was slow, failed, or found the schema taken over.
KilledIsStalled == disturbed \/ ~hasty

\* "the indexer can NEVER stay stuck" (line 4): whatever crashes, stalls,
\* unseen messages and failed heals there are, it is again and again on a schema
\* of its own build and no further behind than the watchdog tolerates.
CatchesUp == configured => []<>(owner = "ours" /\ headBlock - synced <= StallLag)
==============================================================================
