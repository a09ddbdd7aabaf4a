----------------------------- MODULE Access_proofs -----------------------------
(***************************************************************************)
(* Keys, quotas and limiters, for any IPs, wallets and spellings, tiers,   *)
(* windows and maxima, and any number of restarts.                         *)
(*                                                                         *)
(* What an open window has counted says nothing of the windows before it,  *)
(* and an interval may overlap two of them.  CountSound says for every     *)
(* interval how much of the log lies in it: while the interval lasts, one  *)
(* less than the window that was open before it, and all of the window     *)
(* that opened in it; a restart adds one window.  What a request passes    *)
(* is a prefix of its route, on which the limiter of its log stands once.  *)
(***************************************************************************)
EXTENDS Access, FiniteSetTheorems, SequenceTheorems, TLAPS

Windows == [hits : Nat, until : Nat]

\* A window that is open was opened by a request, not longer ago than it lasts.
WindowSound(w, max, length, t) ==
    \/ w = Closed
    \/ w.hits \in 1..max /\ t < w.until /\ w.until <= t + length

\* The entries of a log in the interval from `from` on.
Entries(log, from, length) == {m \in DOMAIN log : from <= log[m] /\ log[m] < from + length}

\* While an interval lasts, it has one request less than the window that was open
\* before it; once a window has opened in it, all of that window's as well; and
\* those of one more window for each restart.
CountSound(log, w, max, length, t, r) ==
    \A from \in Time :
        /\ Cardinality(Entries(log, from, length)) <= 2 * max - 1 + r * max
        /\ from <= t /\ t < from + length =>
              IF w # Closed /\ w.until - length < from
              THEN Cardinality(Entries(log, from, length)) <= w.hits - 1
              ELSE Cardinality(Entries(log, from, length)) <= max - 1 + w.hits + r * max

LogPast(log, t) == \A m \in DOMAIN log : log[m] <= t

Limited(log, w, max, length, t, r) ==
    LogPast(log, t) /\ WindowSound(w, max, length, t) /\ CountSound(log, w, max, length, t, r)

IpIInv ==
    /\ ipWindow \in [Ip -> [Limiter -> Windows]]
    /\ \A i \in Ip, l \in Limiter : WindowSound(ipWindow[i][l], Maximum[l], Window[l], now)
    /\ \A i \in Ip :
          /\ Limited(lookups[i], ipWindow[i]["authIp"],
                     Maximum["authIp"], Window["authIp"], now, restarts)
          /\ Limited(tries[i], ipWindow[i]["sandbox"],
                     Maximum["sandbox"], Window["sandbox"], now, restarts)

QuotaIInv ==
    /\ apiWindow \in [Address -> Windows]
    /\ \A a \in Address : Limited(served[a], apiWindow[a], Rpm[a], ApiWindow, now, restarts)
    /\ \A a \in Address \ agents : served[a] = <<>>

KeysIInv ==
    /\ \A a \in agents : Lower[a] = a
    /\ \A a \in Address : Cardinality(ActiveKeys(a)) <= MaxKeys
    /\ \A k \in KeyId : keys[k].by \in Address => Lower[keys[k].by] = keys[k].agent

AccessIInv == TypeOK /\ IpIInv /\ QuotaIInv /\ KeysIInv

-----------------------------------------------------------------------------
(* One window and its log *)

LEMMA Products ==
    ASSUME NEW r \in Nat, NEW max \in Nat
    PROVE  r * max \in Nat /\ (r + 1) * max = r * max + max
OBVIOUS

LEMMA EntriesFinite ==
    ASSUME NEW log \in Seq(Time), NEW from \in Int, NEW length \in Nat
    PROVE  /\ IsFiniteSet(Entries(log, from, length))
           /\ Cardinality(Entries(log, from, length)) \in Nat
<1>1. DOMAIN log = 1..Len(log) /\ Len(log) \in Nat
  OBVIOUS
<1>2. IsFiniteSet(DOMAIN log)
  BY <1>1, FS_Interval
<1>3. Entries(log, from, length) \subseteq DOMAIN log
  BY DEF Entries
<1> QED BY <1>2, <1>3, FS_Subset, FS_CardinalityType

\* What is logged at time t counts in the intervals around it.
LEMMA EntriesAppend ==
    ASSUME NEW log \in Seq(Time), NEW t \in Time, NEW from \in Int, NEW length \in Nat
    PROVE  Cardinality(Entries(Append(log, t), from, length)) =
             IF from <= t /\ t < from + length
             THEN Cardinality(Entries(log, from, length)) + 1
             ELSE Cardinality(Entries(log, from, length))
<1> DEFINE n == Len(log) + 1
           new == Append(log, t)
<1>1. /\ Len(log) \in Nat /\ DOMAIN log = 1..Len(log) /\ DOMAIN new = 1..n
      /\ new[n] = t /\ \A m \in DOMAIN log : new[m] = log[m]
  OBVIOUS
<1>2. DOMAIN new = DOMAIN log \cup {n} /\ n \notin DOMAIN log
  BY <1>1
<1>3. n \notin Entries(log, from, length)
  BY <1>2 DEF Entries
<1>4. Entries(new, from, length) =
        IF from <= t /\ t < from + length
        THEN Entries(log, from, length) \cup {n} ELSE Entries(log, from, length)
  <2> HIDE DEF n, new
  <2> QED BY <1>1, <1>2 DEF Entries
<1>5. IsFiniteSet(Entries(log, from, length))
  BY EntriesFinite
<1> HIDE DEF n
<1> QED BY <1>3, <1>4, <1>5, FS_AddElement

\* Nothing is logged in an interval that is still to come.
LEMMA EntriesToCome ==
    ASSUME NEW log \in Seq(Time), NEW t \in Int, NEW from \in Int, NEW length \in Nat,
           LogPast(log, t), t < from
    PROVE  Cardinality(Entries(log, from, length)) = 0
<1>1. \A m \in DOMAIN log : log[m] \in Int
  <2> TAKE m \in DOMAIN log
  <2>1. log[m] \in Time
    OBVIOUS
  <2> QED BY <2>1 DEF Time
<1>2. Entries(log, from, length) = {}
  BY <1>1 DEF Entries, LogPast
<1> QED BY <1>2, FS_EmptySet

LEMMA HitCounts ==
    ASSUME NEW w \in Windows, NEW n \in Nat, NEW max \in Nat, NEW length \in Nat \ {0},
           now \in Nat, WindowSound(w, max, length, now), w.hits + n <= max
    PROVE  /\ Hit(w, n, length) \in Windows
           /\ Hit(w, n, length).hits = w.hits + n
           /\ WindowSound(Hit(w, n, length), max, length, now)
           /\ w # Closed => Hit(w, n, length).until = w.until /\ Hit(w, n, length) # Closed
           /\ w = Closed /\ n > 0 =>
                 Hit(w, n, length).until = now + length /\ Hit(w, n, length) # Closed
           /\ n = 0 => Hit(w, n, length) = w
<1>1. w.hits \in Nat /\ w.until \in Nat /\ w = [hits |-> w.hits, until |-> w.until]
  BY DEF Windows
<1>2. CASE n = 0
  <2>1. Hit(w, n, length) = [w EXCEPT !.hits = @ + n]
    BY <1>2 DEF Hit
  <2>2. [w EXCEPT !.hits = @ + n] = w
    BY <1>1, <1>2 DEF Windows
  <2> QED BY <1>1, <1>2, <2>1, <2>2
<1>3. CASE w # Closed /\ n # 0
  <2>1. Hit(w, n, length) = [w EXCEPT !.hits = @ + n]
    BY <1>3 DEF Hit
  <2>2. [w EXCEPT !.hits = @ + n] = [hits |-> w.hits + n, until |-> w.until]
    BY <1>1 DEF Windows
  <2>3. w.hits \in 1..max /\ now < w.until /\ w.until <= now + length
    BY <1>3 DEF WindowSound
  <2>4. w.hits + n \in Nat /\ w.hits + n \in 1..max /\ w.hits + n # 0
    BY <1>1, <2>3
  <2> DEFINE v == [hits |-> w.hits + n, until |-> w.until]
  <2>5. v \in Windows /\ v.hits = w.hits + n /\ v.until = w.until
    BY <1>1, <2>4 DEF Windows
  <2>6. v # Closed
    BY <2>4, <2>5 DEF Closed
  <2>7. Hit(w, n, length) = v
    BY <2>1, <2>2
  <2> HIDE DEF v
  <2> QED BY <1>3, <2>3, <2>4, <2>5, <2>6, <2>7 DEF WindowSound
<1>4. CASE w = Closed /\ n # 0
  <2> DEFINE v == [hits |-> n, until |-> now + length]
  <2>1. Hit(w, n, length) = v
    BY <1>4 DEF Hit
  <2>2. v \in Windows /\ v.hits = n /\ v.until = now + length
    BY DEF Windows
  <2>3. w.hits = 0
    BY <1>4 DEF Closed
  <2>4. v # Closed
    BY <1>4, <2>2 DEF Closed
  <2>5. n \in 1..max /\ now < now + length
    BY <1>4, <2>3
  <2> HIDE DEF v
  <2> QED BY <1>4, <2>1, <2>2, <2>3, <2>4, <2>5 DEF WindowSound
<1> QED BY <1>2, <1>3, <1>4

\* The log and its window keep their bounds through a request, logged or not, the
\* clock and a restart.
Settings(max, length, r) ==
    max \in Nat \ {0} /\ length \in Nat \ {0} /\ r \in Nat

LEMMA HitKeeps ==
    ASSUME NEW log \in Seq(Time), NEW w \in Windows, NEW n \in Nat, NEW max, NEW length,
           Settings(max, length, restarts), now \in Nat, w.hits + n <= max,
           Limited(log, w, max, length, now, restarts)
    PROVE  Limited(log, Hit(w, n, length), max, length, now, restarts)
<1> DEFINE v == Hit(w, n, length)
<1>1. /\ max \in Nat /\ length \in Nat \ {0} /\ restarts * max \in Nat
      /\ WindowSound(w, max, length, now)
  BY Products DEF Limited, Settings
<1>2. /\ v \in Windows /\ v.hits = w.hits + n /\ WindowSound(v, max, length, now)
      /\ w # Closed => v.until = w.until /\ v # Closed
      /\ w = Closed /\ n > 0 => v.until = now + length /\ v # Closed
      /\ n = 0 => v = w
  BY <1>1, HitCounts
<1> HIDE DEF v
<1>3. w.hits \in Nat /\ v.hits \in Nat /\ w.until \in Nat /\ v.until \in Nat
  BY <1>2 DEF Windows
<1>4. ASSUME NEW from \in Time, from <= now, now < from + length
      PROVE  IF v # Closed /\ v.until - length < from
             THEN Cardinality(Entries(log, from, length)) <= v.hits - 1
             ELSE Cardinality(Entries(log, from, length)) <= max - 1 + v.hits + restarts * max
  <2> DEFINE c == Cardinality(Entries(log, from, length))
             k == restarts * max
  <2>1. IF w # Closed /\ w.until - length < from THEN c <= w.hits - 1
        ELSE c <= max - 1 + w.hits + k
    BY <1>4 DEF Limited, CountSound
  <2>2. c \in Nat /\ from \in Int /\ k \in Nat
    BY <1>1, EntriesFinite DEF Time
  <2> HIDE DEF c, k
  <2>3. IF v # Closed /\ v.until - length < from THEN c <= v.hits - 1
        ELSE c <= max - 1 + v.hits + k
    <3>1. CASE w # Closed
      <4>1. v # Closed /\ v.until = w.until /\ v.hits = w.hits + n
        BY <1>2, <3>1
      <4>2. CASE w.until - length < from
        <5>1. c <= w.hits - 1
          BY <2>1, <3>1, <4>2
        <5>2. c <= v.hits - 1
          BY <1>3, <2>2, <4>1, <5>1
        <5> QED BY <4>1, <4>2, <5>2
      <4>3. CASE ~(w.until - length < from)
        <5>1. c <= max - 1 + w.hits + k
          BY <2>1, <4>3
        <5>2. max \in Nat /\ w.hits \in Nat /\ v.hits = w.hits + n
          BY <1>1, <1>3, <4>1
        <5>3. c <= max - 1 + v.hits + k
          BY SMTT(30), <2>2, <5>1, <5>2
        <5> QED BY <4>1, <4>3, <5>3
      <4> QED BY <4>2, <4>3
    <3>2. CASE w = Closed /\ n = 0
      <4>1. v = w
        BY <1>2, <3>2
      <4> QED BY <2>1, <4>1
    <3>3. CASE w = Closed /\ n > 0
      <4>1. v # Closed /\ v.until = now + length /\ v.hits = n /\ w.hits = 0
        BY <1>2, <1>3, <3>3 DEF Closed
      <4>2. ~(v.until - length < from)
        BY <1>1, <1>4, <2>2, <4>1
      <4> QED BY <1>1, <2>1, <2>2, <3>3, <4>1, <4>2
    <3>4. n = 0 \/ n > 0
      OBVIOUS
    <3> QED BY <3>1, <3>2, <3>3, <3>4
  <2> QED BY <2>3 DEF c, k
<1>5. CountSound(log, v, max, length, now, restarts)
  BY <1>4 DEF Limited, CountSound
<1> QED BY <1>2, <1>5 DEF Limited, v

LEMMA LoggedHitKeeps ==
    ASSUME NEW log \in Seq(Time), NEW w \in Windows, NEW max, NEW length,
           Settings(max, length, restarts), now \in Time, w.hits + 1 <= max,
           Limited(log, w, max, length, now, restarts)
    PROVE  Limited(Append(log, now), Hit(w, 1, length), max, length, now, restarts)
<1> DEFINE v == Hit(w, 1, length)
           new == Append(log, now)
<1>1. /\ max \in Nat /\ length \in Nat \ {0} /\ restarts * max \in Nat /\ now \in Nat
      /\ WindowSound(w, max, length, now)
  BY Products DEF Limited, Settings, Time
<1>2. /\ v \in Windows /\ v.hits = w.hits + 1 /\ WindowSound(v, max, length, now)
      /\ w # Closed => v.until = w.until /\ v # Closed
      /\ w = Closed => v.until = now + length /\ v # Closed
  BY <1>1, HitCounts
<1> HIDE DEF v
<1>3. /\ w.hits \in Nat /\ v.hits \in Nat /\ w.until \in Nat /\ v.until \in Nat
      /\ v.hits <= max
  BY <1>2 DEF Windows
<1>4. LogPast(new, now)
  <2>1. /\ Len(log) \in Nat /\ DOMAIN log = 1..Len(log) /\ DOMAIN new = 1..(Len(log) + 1)
        /\ new[Len(log) + 1] = now /\ \A m \in DOMAIN log : new[m] = log[m]
    OBVIOUS
  <2>2. \A m \in DOMAIN log : log[m] <= now
    BY DEF Limited, LogPast
  <2>3. DOMAIN new = DOMAIN log \cup {Len(log) + 1}
    BY <2>1
  <2>4. now <= now
    BY <1>1
  <2> HIDE DEF new
  <2> QED BY <2>1, <2>2, <2>3, <2>4 DEF LogPast
<1>5. ASSUME NEW from \in Time
      PROVE  LET c == Cardinality(Entries(log, from, length))
                 d == Cardinality(Entries(new, from, length))
                 k == restarts * max
             IN  /\ c \in Nat /\ d \in Nat /\ from \in Int /\ k \in Nat
                 /\ d = IF from <= now /\ now < from + length THEN c + 1 ELSE c
                 /\ c <= 2 * max - 1 + k
                 /\ from <= now /\ now < from + length =>
                       IF w # Closed /\ w.until - length < from THEN c <= w.hits - 1
                       ELSE c <= max - 1 + w.hits + k
  <2>1. new \in Seq(Time) /\ from \in Int
    BY DEF Time
  <2> QED BY <1>1, <2>1, EntriesAppend, EntriesFinite DEF Limited, CountSound
<1> HIDE DEF new
<1>6. ASSUME NEW from \in Time
      PROVE  LET d == Cardinality(Entries(new, from, length))
                 k == restarts * max
             IN  /\ d <= 2 * max - 1 + k
                 /\ from <= now /\ now < from + length =>
                       IF v # Closed /\ v.until - length < from THEN d <= v.hits - 1
                       ELSE d <= max - 1 + v.hits + k
  <2> DEFINE c == Cardinality(Entries(log, from, length))
             d == Cardinality(Entries(new, from, length))
             k == restarts * max
  <2>1. /\ c \in Nat /\ d \in Nat /\ from \in Int /\ k \in Nat
        /\ d = IF from <= now /\ now < from + length THEN c + 1 ELSE c
        /\ c <= 2 * max - 1 + k
        /\ from <= now /\ now < from + length =>
              IF w # Closed /\ w.until - length < from THEN c <= w.hits - 1
              ELSE c <= max - 1 + w.hits + k
    BY <1>5
  <2> HIDE DEF c, d, k
  <2>2. CASE ~(from <= now /\ now < from + length)
    BY <2>1, <2>2 DEF d, k
  <2>3. CASE from <= now /\ now < from + length
    <3>1. IF v # Closed /\ v.until - length < from THEN d <= v.hits - 1
          ELSE d <= max - 1 + v.hits + k
      <4>1. CASE w # Closed
        <5>1. v # Closed /\ v.until = w.until /\ v.hits = w.hits + 1
          BY <1>2, <4>1
        <5>2. w.hits \in Nat /\ d = c + 1
          BY <1>3, <2>1, <2>3
        <5>3. CASE w.until - length < from
          <6>1. c <= w.hits - 1
            BY <2>1, <2>3, <4>1, <5>3
          <6>2. d <= v.hits - 1
            BY <2>1, <5>1, <5>2, <6>1
          <6>3. v # Closed /\ v.until - length < from
            BY <5>1, <5>3
          <6> QED BY <6>2, <6>3
        <5>4. CASE ~(w.until - length < from)
          <6>1. c <= max - 1 + w.hits + k
            BY <2>1, <2>3, <5>4
          <6>2. c \in Nat /\ k \in Nat /\ max \in Nat
            BY <1>1, <2>1
          <6>3. d <= max - 1 + v.hits + k
            BY <5>1, <5>2, <6>1, <6>2
          <6>4. ~(v # Closed /\ v.until - length < from)
            BY <5>1, <5>4
          <6> QED BY <6>3, <6>4
        <5> QED BY <5>3, <5>4
      <4>2. CASE w = Closed
        <5>1. v.until = now + length /\ v # Closed /\ v.hits = 1 /\ w.hits = 0
          BY <1>2, <4>2 DEF Closed
        <5>2. ~(v.until - length < from)
          BY <1>1, <2>1, <2>3, <5>1
        <5> QED BY <1>1, <2>1, <2>3, <4>2, <5>1, <5>2
      <4> QED BY <4>1, <4>2
    <3>2. d <= 2 * max - 1 + k
      BY SMTT(30), <1>1, <1>3, <2>1, <3>1
    <3> QED BY <3>1, <3>2 DEF d, k
  <2> QED BY <2>2, <2>3
<1>7. CountSound(new, v, max, length, now, restarts)
  BY <1>6 DEF CountSound
<1> QED BY <1>2, <1>4, <1>7 DEF Limited, v, new

LEMMA TickKeeps ==
    ASSUME NEW log \in Seq(Time), NEW w \in Windows, NEW max, NEW length,
           Settings(max, length, restarts), now \in Nat,
           Limited(log, w, max, length, now, restarts)
    PROVE  Expire(w) \in Windows /\ Limited(log, Expire(w), max, length, now + 1, restarts)
<1> DEFINE v == Expire(w)
<1>1. /\ max \in Nat \ {0} /\ length \in Nat \ {0} /\ restarts * max \in Nat
      /\ LogPast(log, now) /\ WindowSound(w, max, length, now)
  BY Products DEF Limited, Settings
<1>2. /\ Closed \in Windows /\ Closed.hits = 0
      /\ v = Closed \/ (v = w /\ w # Closed /\ ~(w.until <= now + 1))
      /\ v = Closed => w = Closed \/ w.until <= now + 1
  BY DEF Expire, Closed, Windows
<1>3. w.hits \in Nat /\ w.until \in Nat
  BY DEF Windows
<1>4. w # Closed => w.hits \in 1..max /\ now < w.until /\ w.until <= now + length
  BY <1>1 DEF WindowSound
<1> HIDE DEF v
<1>5. LogPast(log, now + 1)
  <2> SUFFICES ASSUME NEW m \in DOMAIN log PROVE log[m] <= now + 1
    BY DEF LogPast
  <2>1. log[m] \in Time /\ log[m] <= now
    BY <1>1 DEF LogPast
  <2> QED BY <2>1 DEF Time
<1>6. WindowSound(v, max, length, now + 1)
  BY <1>1, <1>2, <1>3, <1>4 DEF WindowSound
<1>7. ASSUME NEW from \in Time
      PROVE  LET c == Cardinality(Entries(log, from, length))
                 k == restarts * max
             IN  /\ c <= 2 * max - 1 + k
                 /\ from <= now + 1 /\ now + 1 < from + length =>
                       IF v # Closed /\ v.until - length < from THEN c <= v.hits - 1
                       ELSE c <= max - 1 + v.hits + k
  <2> DEFINE c == Cardinality(Entries(log, from, length))
             k == restarts * max
  <2>1. /\ c \in Nat /\ from \in Int /\ k \in Nat
        /\ c <= 2 * max - 1 + k
        /\ from <= now /\ now < from + length =>
              IF w # Closed /\ w.until - length < from THEN c <= w.hits - 1
              ELSE c <= max - 1 + w.hits + k
    BY <1>1, EntriesFinite DEF Limited, CountSound, Time
  <2>2. now < from => c = 0
    BY <1>1, <2>1, EntriesToCome
  <2> HIDE DEF c, k
  <2>3. ASSUME from <= now + 1, now + 1 < from + length
        PROVE  IF v # Closed /\ v.until - length < from THEN c <= v.hits - 1
               ELSE c <= max - 1 + v.hits + k
    <3>1. CASE now < from
      <4>1. c = 0
        BY <2>2, <3>1
      <4>2. v.hits \in Nat /\ (v # Closed => v.hits \in 1..max)
        BY <1>2, <1>3, <1>4
      <4> QED BY <1>1, <2>1, <4>1, <4>2
    <3>2. CASE ~(now < from)
      <4>1. from <= now /\ now < from + length
        BY <1>1, <2>1, <2>3, <3>2
      <4>2. CASE v # Closed
        <5>1. v = w /\ w # Closed
          BY <1>2, <4>2
        <5> QED BY <2>1, <4>1, <5>1
      <4>3. CASE v = Closed /\ w = Closed
        BY <2>1, <4>1, <4>3
      <4>4. CASE v = Closed /\ w # Closed
        <5>1. w.until = now + 1 /\ w.hits \in 1..max
          BY <1>2, <1>3, <1>4, <4>4
        <5>2. w.until - length < from
          BY <1>1, <2>1, <2>3, <5>1
        <5>3. c <= w.hits - 1
          BY <2>1, <4>1, <4>4, <5>2
        <5>4. v.hits = 0
          BY <1>2, <4>4
        <5> QED BY <1>1, <2>1, <4>4, <5>1, <5>3, <5>4
      <4> QED BY <4>2, <4>3, <4>4
    <3> QED BY <3>1, <3>2
  <2> QED BY <2>1, <2>3 DEF c, k
<1>8. CountSound(log, v, max, length, now + 1, restarts)
  BY <1>7 DEF CountSound
<1>9. v \in Windows
  BY <1>2
<1> QED BY <1>5, <1>6, <1>8, <1>9 DEF Limited, v

LEMMA RestartKeeps ==
    ASSUME NEW log \in Seq(Time), NEW w \in Windows, NEW max, NEW length,
           Settings(max, length, restarts), now \in Nat,
           Limited(log, w, max, length, now, restarts)
    PROVE  Limited(log, Closed, max, length, now, restarts + 1)
<1>1. /\ max \in Nat \ {0} /\ length \in Nat \ {0} /\ restarts * max \in Nat
      /\ (restarts + 1) * max = restarts * max + max
  BY Products DEF Settings
<1>2. Closed.hits = 0
  BY DEF Closed
<1>3. ASSUME NEW from \in Time
      PROVE  LET c == Cardinality(Entries(log, from, length))
                 k == (restarts + 1) * max
             IN  /\ c <= 2 * max - 1 + k
                 /\ c <= max - 1 + Closed.hits + k
  <2> DEFINE c == Cardinality(Entries(log, from, length))
             h == restarts * max
             k == (restarts + 1) * max
  <2>1. c \in Nat /\ c <= 2 * max - 1 + h
    BY <1>1, EntriesFinite DEF Limited, CountSound, Time
  <2>2. h \in Nat /\ k = h + max
    BY <1>1
  <2> HIDE DEF c, h, k
  <2>3. c <= 2 * max - 1 + k /\ c <= max - 1 + Closed.hits + k
    BY <1>1, <1>2, <2>1, <2>2
  <2> QED BY <2>3 DEF c, k
<1>4. CountSound(log, Closed, max, length, now, restarts + 1)
  BY <1>3 DEF CountSound
<1> QED BY <1>4 DEF Limited, WindowSound

-----------------------------------------------------------------------------
(* The limiters of a route *)

LEMMA TimesGrow ==
    ASSUME NEW l, NEW route, NEW n \in Nat
    PROVE  /\ Times(l, route, 0) = 0 /\ Times(l, route, n) \in Nat
           /\ Times(l, route, n + 1) =
                 IF route[n + 1] = l THEN Times(l, route, n) + 1 ELSE Times(l, route, n)
<1> DEFINE At(k) == {m \in 1..k : route[m] = l}
<1>1. At(0) = {} /\ Cardinality({}) = 0
  BY FS_EmptySet
<1>2. IsFiniteSet(1..n) /\ At(n) \subseteq 1..n
  BY FS_Interval
<1>3. IsFiniteSet(At(n)) /\ Cardinality(At(n)) \in Nat
  <2> HIDE DEF At
  <2> QED BY <1>2, FS_Subset, FS_CardinalityType
<1>4. n + 1 \notin At(n) /\ At(n + 1) = IF route[n + 1] = l THEN At(n) \cup {n + 1} ELSE At(n)
  <2>1. 1..(n + 1) = (1..n) \cup {n + 1} /\ n + 1 \notin 1..n
    OBVIOUS
  <2> QED BY <2>1
<1>5. Times(l, route, 0) = Cardinality(At(0)) /\ Times(l, route, n) = Cardinality(At(n))
      /\ Times(l, route, n + 1) = Cardinality(At(n + 1))
  BY DEF Times
<1> HIDE DEF At
<1>6. Cardinality(At(n) \cup {n + 1}) = Cardinality(At(n)) + 1
  BY <1>3, <1>4, FS_AddElement
<1>7. Cardinality(At(n + 1)) =
        IF route[n + 1] = l THEN Cardinality(At(n)) + 1 ELSE Cardinality(At(n))
  BY <1>4, <1>6
<1> QED BY <1>1, <1>3, <1>5, <1>7

LEMMA RouteShape ==
    ASSUME NEW route \in Route
    PROVE  /\ Len(route) \in 1..3 /\ DOMAIN route = 1..Len(route)
           /\ \A m \in DOMAIN route : route[m] \in Limiter
BY DEF Route, PublicRoutes, KeyRoutes, OnboardRoute, AdminRoute, SandboxRoute, Limiter

WindowsSound ==
    /\ ipWindow \in [Ip -> [Limiter -> Windows]]
    /\ \A i \in Ip, l \in Limiter : WindowSound(ipWindow[i][l], Maximum[l], Window[l], now)

\* A request passes a prefix of its route.
LEMMA PassedPrefix ==
    ASSUME NEW i \in Ip, NEW route \in Route
    PROVE  /\ Cardinality(Passed(i, route)) \in 0..Len(route)
           /\ Passed(i, route) = 1..Cardinality(Passed(i, route))
<1> DEFINE P == Passed(i, route)
<1>1. Len(route) \in 1..3 /\ DOMAIN route = 1..Len(route)
  BY RouteShape
<1>2. P \subseteq 1..Len(route)
  BY <1>1 DEF Passed
<1>3. ASSUME NEW n \in P, NEW m \in 1..n PROVE m \in P
  <2>1. n \in Nat /\ n <= Len(route) /\ Len(route) \in Nat
    BY <1>1, <1>2
  <2>2. m \in DOMAIN route
    BY <1>1, <2>1
  <2>3. \A k \in 1..m : k \in 1..n
    BY <2>1
  <2> QED BY <2>2, <2>3 DEF Passed
<1> HIDE DEF P
<1>6. P \subseteq {1, 2, 3} /\ 1..3 = {1, 2, 3} /\ 1..2 = {1, 2} /\ 1..1 = {1} /\ 1..0 = {}
  <2>1. 1..3 = {1, 2, 3} /\ 1..2 = {1, 2} /\ 1..1 = {1} /\ 1..0 = {}
    OBVIOUS
  <2>2. 1..Len(route) \subseteq 1..3
    BY <1>1
  <2> QED BY <1>2, <2>1, <2>2
<1>4. PICK k \in 0..Len(route) : P = 1..k
  <2>1. CASE 3 \in P
    <3>1. 1 \in P /\ 2 \in P /\ Len(route) = 3
      BY <1>1, <1>2, <1>3, <2>1
    <3>2. P = 1..3
      BY <1>6, <2>1, <3>1
    <3> QED BY <3>1, <3>2
  <2>2. CASE 3 \notin P /\ 2 \in P
    <3>1. 1 \in P /\ Len(route) \in 2..3
      BY <1>1, <1>2, <1>3, <2>2
    <3>2. P = 1..2
      BY <1>6, <2>2, <3>1
    <3> QED BY <3>1, <3>2
  <2>3. CASE 3 \notin P /\ 2 \notin P /\ 1 \in P
    <3>1. P = 1..1
      BY <1>6, <2>3
    <3> QED BY <1>1, <3>1
  <2>4. CASE 3 \notin P /\ 2 \notin P /\ 1 \notin P
    <3>1. P = 1..0
      BY <1>6, <2>4
    <3> QED BY <1>1, <3>1
  <2> QED BY <2>1, <2>2, <2>3, <2>4
<1>5. Cardinality(1..k) = k
  <2>1. k \in Nat
    BY <1>1
  <2> QED BY <2>1, FS_Interval
<1> QED BY <1>4, <1>5 DEF P

\* However far it gets, no limiter counts more than its maximum.
LEMMA GateFits ==
    ASSUME WindowsSound, NEW i \in Ip, NEW route \in Route, NEW l \in Limiter
    PROVE  LET n == Times(l, route, Cardinality(Passed(i, route)))
           IN  n \in Nat /\ ipWindow[i][l].hits + n <= Maximum[l]
<1> DEFINE hits == ipWindow[i][l].hits
           P == Passed(i, route)
           T(k) == Times(l, route, k)
           max == Maximum[l]
<1>1. max \in Nat \ {0}
  BY AccessAssumption
<1>2. hits \in Nat /\ hits <= max
  <2>1. ipWindow[i][l] \in Windows /\ WindowSound(ipWindow[i][l], max, Window[l], now)
    BY DEF WindowsSound
  <2> QED BY <1>1, <2>1 DEF WindowSound, Windows, Closed
<1> DEFINE c == Cardinality(P)
<1>3. c \in 0..Len(route) /\ P = 1..c
  BY PassedPrefix
<1> HIDE DEF c
<1>4. c \in 0..3
  <2>1. Len(route) \in 1..3
    BY RouteShape
  <2>2. c \in 0..Len(route)
    BY <1>3
  <2>3. Len(route) = 1 \/ Len(route) = 2 \/ Len(route) = 3
    BY <2>1
  <2>4. c \in 0..1 \/ c \in 0..2 \/ c \in 0..3
    BY <2>2, <2>3
  <2> QED BY <2>4
<1>5. /\ T(0) = 0 /\ T(0) \in Nat /\ T(1) \in Nat /\ T(2) \in Nat /\ T(3) \in Nat
      /\ T(1) = IF route[1] = l THEN T(0) + 1 ELSE T(0)
      /\ T(2) = IF route[2] = l THEN T(1) + 1 ELSE T(1)
      /\ T(3) = IF route[3] = l THEN T(2) + 1 ELSE T(2)
  <2>1. 0 + 1 = 1 /\ 1 + 1 = 2 /\ 2 + 1 = 3 /\ 0 \in Nat /\ 1 \in Nat /\ 2 \in Nat /\ 3 \in Nat
    OBVIOUS
  <2>2. T(0 + 1) = IF route[0 + 1] = l THEN T(0) + 1 ELSE T(0)
    BY <2>1, TimesGrow
  <2>3. T(1 + 1) = IF route[1 + 1] = l THEN T(1) + 1 ELSE T(1)
    BY <2>1, TimesGrow
  <2>4. T(2 + 1) = IF route[2 + 1] = l THEN T(2) + 1 ELSE T(2)
    BY <2>1, TimesGrow
  <2>5. T(0) = 0 /\ T(0) \in Nat /\ T(1) \in Nat /\ T(2) \in Nat /\ T(3) \in Nat
    BY <2>1, TimesGrow
  <2> HIDE DEF T
  <2> QED BY <2>1, <2>2, <2>3, <2>4, <2>5
<1>6. ASSUME NEW n \in 1..c, route[n] = l PROVE hits + T(n - 1) < max
  <2>1. n \in P /\ n \in 1..n
    <3> HIDE DEF P, T, hits, max
    <3>1. n \in Int /\ 1 <= n /\ n <= c
      BY <1>4
    <3> QED BY <1>3, <3>1
  <2>2. \A m \in 1..n :
          ipWindow[i][route[m]].hits + Times(route[m], route, m - 1) < Maximum[route[m]]
    BY <2>1 DEF Passed
  <2> QED BY <1>6, <2>1, <2>2
<1>7. /\ 1 \in 1..c /\ route[1] = l => hits + T(0) < max
      /\ 2 \in 1..c /\ route[2] = l => hits + T(1) < max
      /\ 3 \in 1..c /\ route[3] = l => hits + T(2) < max
  <2>1. 1 - 1 = 0 /\ 2 - 1 = 1 /\ 3 - 1 = 2
    OBVIOUS
  <2> HIDE DEF T, hits, max
  <2> QED BY <1>6, <2>1
<1> HIDE DEF T, hits, max
<1>8. hits + T(0) <= max
  BY <1>2, <1>5
<1>9. c >= 1 => hits + T(1) <= max
  BY <1>1, <1>2, <1>4, <1>5, <1>7, <1>8
<1>10. c >= 2 => hits + T(2) <= max
  BY <1>1, <1>2, <1>4, <1>5, <1>7, <1>9
<1>11. c >= 3 => hits + T(3) <= max
  BY <1>1, <1>2, <1>4, <1>5, <1>7, <1>10
<1>12. hits + T(c) <= max /\ T(c) \in Nat
  <2>1. c = 0 \/ c = 1 \/ c = 2 \/ c = 3
    BY <1>4
  <2> QED BY <1>5, <1>8, <1>9, <1>10, <1>11, <2>1
<1> QED BY <1>12 DEF T, hits, max, c

\* Who is counted once, whatever else the route counts.
LEMMA OnceOnKeyRoutes ==
    ASSUME NEW i \in Ip, NEW route, NEW l, Open(i, route),
           \/ route \in KeyRoutes /\ l = "authIp"
           \/ route = SandboxRoute /\ l = "sandbox"
    PROVE  Times(l, route, Cardinality(Passed(i, route))) = 1
<1>1. route \in Route /\ Len(route) \in 1..3 /\ DOMAIN route = 1..Len(route)
  BY DEF Route, KeyRoutes, SandboxRoute
<1>2. Cardinality(Passed(i, route)) = Len(route)
  <2>1. Passed(i, route) = 1..Len(route)
    BY <1>1 DEF Open
  <2>2. Len(route) \in Nat
    BY <1>1
  <2>3. \A n \in Nat : Cardinality(1..n) = n
    BY FS_Interval
  <2> QED BY <2>1, <2>2, <2>3
<1>3. /\ Times(l, route, 0) = 0 /\ Times(l, route, 1) \in Nat /\ Times(l, route, 2) \in Nat
      /\ Times(l, route, 1) = IF route[1] = l THEN Times(l, route, 0) + 1 ELSE Times(l, route, 0)
      /\ Times(l, route, 2) = IF route[2] = l THEN Times(l, route, 1) + 1 ELSE Times(l, route, 1)
      /\ Times(l, route, 3) = IF route[3] = l THEN Times(l, route, 2) + 1 ELSE Times(l, route, 2)
  <2>1. 0 + 1 = 1 /\ 1 + 1 = 2 /\ 2 + 1 = 3 /\ 0 \in Nat /\ 1 \in Nat /\ 2 \in Nat
    OBVIOUS
  <2> QED BY <2>1, TimesGrow
<1>4. CASE route = <<"public", "authIp">> /\ l = "authIp"
  <2>1. Len(route) = 2 /\ route[1] # l /\ route[2] = l
    BY <1>4
  <2> QED BY <1>2, <1>3, <2>1
<1>5. CASE route = <<"public", "public", "authIp">> /\ l = "authIp"
  <2>1. Len(route) = 3 /\ route[1] # l /\ route[2] # l /\ route[3] = l
    BY <1>5
  <2> QED BY <1>2, <1>3, <2>1
<1>6. CASE route = <<"sandbox">> /\ l = "sandbox"
  <2>1. Len(route) = 1 /\ route[1] = l
    BY <1>6
  <2> QED BY <1>2, <1>3, <2>1
<1> QED BY <1>4, <1>5, <1>6 DEF KeyRoutes, SandboxRoute

\* A request changes the windows of its own IP, each by a Hit.
LEMMA Counting ==
    ASSUME WindowsSound, NEW i \in Ip, NEW route, Counted(i, route)
    PROVE  /\ ipWindow' = [j \in Ip |-> [l \in Limiter |->
                 IF j = i THEN Hit(ipWindow[i][l],
                                   Times(l, route, Cardinality(Passed(i, route))), Window[l])
                          ELSE ipWindow[j][l]]]
<1>1. ipWindow \in [Ip -> [Limiter -> Windows]]
  BY DEF WindowsSound
<1>2. ipWindow' = [ipWindow EXCEPT ![i] = Gate(i, route)]
  BY DEF Counted
<1>3. \A j \in Ip : ipWindow[j] = [l \in Limiter |-> ipWindow[j][l]]
  BY <1>1
<1>4. \A j \in Ip : ipWindow'[j] = [l \in Limiter |->
           IF j = i THEN Hit(ipWindow[i][l],
                             Times(l, route, Cardinality(Passed(i, route))), Window[l])
                    ELSE ipWindow[j][l]]
  <2> SUFFICES ASSUME NEW j \in Ip
               PROVE  ipWindow'[j] = [l \in Limiter |->
                   IF j = i THEN Hit(ipWindow[i][l],
                                     Times(l, route, Cardinality(Passed(i, route))), Window[l])
                            ELSE ipWindow[j][l]]
    OBVIOUS
  <2>1. CASE j = i
    BY <1>1, <1>2, <2>1 DEF Gate
  <2>2. CASE j # i
    BY <1>1, <1>2, <1>3, <2>2
  <2> QED BY <2>1, <2>2
<1>5. ipWindow' = [j \in Ip |-> ipWindow'[j]]
  BY <1>1, <1>2
<1> QED BY <1>4, <1>5

-----------------------------------------------------------------------------
(* The limits *)

Logs == lookups \in [Ip -> Seq(Time)] /\ tries \in [Ip -> Seq(Time)]

LEMMA IpMeans ==
    IpIInv <=>
        /\ WindowsSound
        /\ \A i \in Ip :
              /\ Limited(lookups[i], ipWindow[i]["authIp"],
                         Maximum["authIp"], Window["authIp"], now, restarts)
              /\ Limited(tries[i], ipWindow[i]["sandbox"],
                         Maximum["sandbox"], Window["sandbox"], now, restarts)
BY DEF IpIInv, WindowsSound

LEMMA Bounds ==
    ASSUME TypeOK
    PROVE  /\ now \in Nat /\ now \in Time /\ restarts \in Nat
           /\ \A l \in Limiter : Settings(Maximum[l], Window[l], restarts)
           /\ \A a \in Address : Settings(Rpm[a], ApiWindow, restarts)
<1>1. now \in Time /\ now \in Nat /\ restarts \in Nat
  BY AccessAssumption DEF TypeOK, Time
<1> QED BY <1>1, AccessAssumption DEF Settings

\* A request is counted by the limiters of its IP, and at most the two whose
\* requests are logged log it: each at its own limiter, once.
LEMMA IpRequest ==
    ASSUME TypeOK, IpIInv, NEW i \in Ip, NEW route \in Route, Counted(i, route),
           UNCHANGED <<now, restarts>>,
           \/ lookups' = lookups
           \/ /\ Open(i, route) /\ route \in KeyRoutes
              /\ lookups' = [lookups EXCEPT ![i] = Append(@, now)],
           \/ tries' = tries
           \/ /\ Open(i, route) /\ route = SandboxRoute
              /\ tries' = [tries EXCEPT ![i] = Append(@, now)]
    PROVE  IpIInv'
<1> DEFINE N(l) == Times(l, route, Cardinality(Passed(i, route)))
<1>1. WindowsSound /\ Logs
  BY IpMeans DEF TypeOK, Logs
<1>2. /\ now \in Nat /\ now \in Time /\ restarts \in Nat
      /\ \A l \in Limiter : Settings(Maximum[l], Window[l], restarts)
  BY Bounds
<1>3. ipWindow' = [j \in Ip |-> [l \in Limiter |->
          IF j = i THEN Hit(ipWindow[i][l], N(l), Window[l]) ELSE ipWindow[j][l]]]
  BY <1>1, Counting
<1>4. \A l \in Limiter : N(l) \in Nat /\ ipWindow[i][l].hits + N(l) <= Maximum[l]
  BY <1>1, GateFits
<1>5. /\ route \in KeyRoutes /\ Open(i, route) => N("authIp") = 1
      /\ route = SandboxRoute /\ Open(i, route) => N("sandbox") = 1
  BY OnceOnKeyRoutes
<1>6. "authIp" \in Limiter /\ "sandbox" \in Limiter
  BY DEF Limiter
<1>7. /\ \A j \in Ip, l \in Limiter : ipWindow[j][l] \in Windows
      /\ \A j \in Ip, l \in Limiter : WindowSound(ipWindow[j][l], Maximum[l], Window[l], now)
  BY <1>1 DEF WindowsSound
<1> HIDE DEF N
<1>8. \A l \in Limiter :
        /\ Hit(ipWindow[i][l], N(l), Window[l]) \in Windows
        /\ WindowSound(Hit(ipWindow[i][l], N(l), Window[l]), Maximum[l], Window[l], now)
  BY <1>2, <1>4, <1>7, HitCounts DEF Settings
<1>9. /\ \A j \in Ip, l \in Limiter :
            ipWindow'[j][l] = IF j = i THEN Hit(ipWindow[i][l], N(l), Window[l])
                              ELSE ipWindow[j][l]
      /\ ipWindow' \in [Ip -> [Limiter -> Windows]]
  BY <1>3, <1>7, <1>8
<1>10. now' = now /\ restarts' = restarts
  OBVIOUS
<1>11. WindowsSound'
  BY <1>7, <1>8, <1>9, <1>10 DEF WindowsSound
<1>12. ASSUME NEW j \in Ip
       PROVE  Limited(lookups'[j], ipWindow'[j]["authIp"],
                      Maximum["authIp"], Window["authIp"], now, restarts)
  <2>1. /\ Limited(lookups[j], ipWindow[j]["authIp"],
                   Maximum["authIp"], Window["authIp"], now, restarts)
        /\ lookups[j] \in Seq(Time) /\ ipWindow[j]["authIp"] \in Windows
        /\ Settings(Maximum["authIp"], Window["authIp"], restarts)
    BY <1>1, <1>2, <1>6, <1>7, IpMeans DEF Logs
  <2>2. CASE j # i
    <3>1. lookups'[j] = lookups[j] /\ ipWindow'[j]["authIp"] = ipWindow[j]["authIp"]
      BY <1>1, <1>6, <1>9, <2>2 DEF Logs
    <3> QED BY <2>1, <3>1
  <2>3. CASE j = i
    <3>1. ipWindow'[j]["authIp"] = Hit(ipWindow[j]["authIp"], N("authIp"), Window["authIp"])
      BY <1>6, <1>9, <2>3
    <3>2. N("authIp") \in Nat /\ ipWindow[j]["authIp"].hits + N("authIp") <= Maximum["authIp"]
      BY <1>4, <1>6, <2>3
    <3>3. CASE lookups' = lookups
      <4>1. lookups'[j] = lookups[j]
        BY <3>3
      <4> QED BY <1>2, <2>1, <3>1, <3>2, <4>1, HitKeeps
    <3>4. CASE lookups' # lookups
      <4>1. /\ Open(i, route) /\ route \in KeyRoutes
            /\ lookups' = [lookups EXCEPT ![i] = Append(@, now)]
        BY <3>4
      <4>2. N("authIp") = 1
        BY <1>5, <4>1
      <4>3. lookups'[j] = Append(lookups[j], now)
        BY <1>1, <2>3, <4>1 DEF Logs
      <4>4. ipWindow[j]["authIp"].hits + 1 <= Maximum["authIp"]
        BY <3>2, <4>2
      <4>5. Limited(Append(lookups[j], now), Hit(ipWindow[j]["authIp"], 1, Window["authIp"]),
                    Maximum["authIp"], Window["authIp"], now, restarts)
        BY <1>2, <2>1, <4>4, LoggedHitKeeps
      <4> QED BY <3>1, <4>2, <4>3, <4>5
    <3> QED BY <3>3, <3>4
  <2> QED BY <2>2, <2>3
<1>13. ASSUME NEW j \in Ip
       PROVE  Limited(tries'[j], ipWindow'[j]["sandbox"],
                      Maximum["sandbox"], Window["sandbox"], now, restarts)
  <2>1. /\ Limited(tries[j], ipWindow[j]["sandbox"],
                   Maximum["sandbox"], Window["sandbox"], now, restarts)
        /\ tries[j] \in Seq(Time) /\ ipWindow[j]["sandbox"] \in Windows
        /\ Settings(Maximum["sandbox"], Window["sandbox"], restarts)
    BY <1>1, <1>2, <1>6, <1>7, IpMeans DEF Logs
  <2>2. CASE j # i
    <3>1. tries'[j] = tries[j] /\ ipWindow'[j]["sandbox"] = ipWindow[j]["sandbox"]
      BY <1>1, <1>6, <1>9, <2>2 DEF Logs
    <3> QED BY <2>1, <3>1
  <2>3. CASE j = i
    <3>1. ipWindow'[j]["sandbox"] = Hit(ipWindow[j]["sandbox"], N("sandbox"), Window["sandbox"])
      BY <1>6, <1>9, <2>3
    <3>2. N("sandbox") \in Nat /\ ipWindow[j]["sandbox"].hits + N("sandbox") <= Maximum["sandbox"]
      BY <1>4, <1>6, <2>3
    <3>3. CASE tries' = tries
      <4>1. tries'[j] = tries[j]
        BY <3>3
      <4> QED BY <1>2, <2>1, <3>1, <3>2, <4>1, HitKeeps
    <3>4. CASE tries' # tries
      <4>1. /\ Open(i, route) /\ route = SandboxRoute
            /\ tries' = [tries EXCEPT ![i] = Append(@, now)]
        BY <3>4
      <4>2. N("sandbox") = 1
        BY <1>5, <4>1
      <4>3. tries'[j] = Append(tries[j], now)
        BY <1>1, <2>3, <4>1 DEF Logs
      <4>4. ipWindow[j]["sandbox"].hits + 1 <= Maximum["sandbox"]
        BY <3>2, <4>2
      <4>5. Limited(Append(tries[j], now), Hit(ipWindow[j]["sandbox"], 1, Window["sandbox"]),
                    Maximum["sandbox"], Window["sandbox"], now, restarts)
        BY <1>2, <2>1, <4>4, LoggedHitKeeps
      <4> QED BY <3>1, <4>2, <4>3, <4>5
    <3> QED BY <3>3, <3>4
  <2> QED BY <2>2, <2>3
<1>14. \A j \in Ip :
          /\ Limited(lookups[j], ipWindow[j]["authIp"],
                     Maximum["authIp"], Window["authIp"], now, restarts)'
          /\ Limited(tries[j], ipWindow[j]["sandbox"],
                     Maximum["sandbox"], Window["sandbox"], now, restarts)'
  BY <1>10, <1>12, <1>13
<1> QED BY <1>11, <1>14 DEF IpIInv, WindowsSound

-----------------------------------------------------------------------------
(* What a request does *)

\* Its limiters count; the logs of its IP get at most one entry.
LEMMA RequestCounts ==
    ASSUME NEW i \in Ip, Request(i)
    PROVE  /\ now' = now /\ restarts' = restarts
           /\ \E route \in Route :
                 /\ Counted(i, route)
                 /\ \/ lookups' = lookups
                    \/ /\ Open(i, route) /\ route \in KeyRoutes
                       /\ lookups' = [lookups EXCEPT ![i] = Append(@, now)]
                 /\ \/ tries' = tries
                    \/ /\ Open(i, route) /\ route = SandboxRoute
                       /\ tries' = [tries EXCEPT ![i] = Append(@, now)]
<1> DEFINE Ok == /\ now' = now /\ restarts' = restarts
                 /\ \E route \in Route :
                       /\ Counted(i, route)
                       /\ \/ lookups' = lookups
                          \/ /\ Open(i, route) /\ route \in KeyRoutes
                             /\ lookups' = [lookups EXCEPT ![i] = Append(@, now)]
                       /\ \/ tries' = tries
                          \/ /\ Open(i, route) /\ route = SandboxRoute
                             /\ tries' = [tries EXCEPT ![i] = Append(@, now)]
<1>1. /\ PublicRoutes \subseteq Route /\ KeyRoutes \subseteq Route
      /\ OnboardRoute \in Route /\ AdminRoute \in Route /\ SandboxRoute \in Route
  BY DEF Route
<1>2. CASE Refused(i)
  BY <1>2 DEF Refused, histories
<1>3. CASE PublicRequest(i)
  BY <1>1, <1>3 DEF PublicRequest, Passes, histories
<1>4. CASE Keyless(i)
  BY <1>1, <1>4 DEF Keyless, Passes, histories
<1>5. CASE SandboxRefused(i)
  BY <1>1, <1>5 DEF SandboxRefused, Passes, histories
<1>6. CASE SandboxTry(i)
  BY <1>1, <1>6 DEF SandboxTry, Passes
<1>7. CASE Onboard(i)
  BY <1>1, <1>7 DEF Onboard, Passes, histories
<1>8. CASE Generate(i)
  BY <1>1, <1>8 DEF Generate, Passes, histories
<1>9. CASE AdminRevoke(i)
  BY <1>1, <1>9 DEF AdminRevoke, Passes, histories
<1>10. CASE AdminRefused(i)
  BY <1>1, <1>10 DEF AdminRefused, Passes, histories
<1>11. ASSUME Presents(i), tries' = tries, now' = now, restarts' = restarts PROVE Ok
  BY <1>1, <1>11 DEF Presents, Passes, LookedUp
<1>12. CASE Stranger(i)
  BY <1>11, <1>12 DEF Stranger
<1>13. CASE \E k \in KeyId : OverQuota(i, k) \/ OracleRequest(i, k)
  BY <1>11, <1>13 DEF OverQuota, OracleRequest
<1>14. CASE \E k \in KeyId : Served(i, k) \/ SelfRevoke(i, k)
  BY <1>11, <1>14 DEF Served, SelfRevoke, Authenticated
<1> QED BY <1>2, <1>3, <1>4, <1>5, <1>6, <1>7, <1>8, <1>9, <1>10, <1>12, <1>13, <1>14
        DEF Request

\* One agent at most is let through and counted, within its quota.
LetThrough(k) ==
    LET a == keys[k].agent IN
    /\ WithinQuota(a)
    /\ apiWindow' = [apiWindow EXCEPT ![a] = Hit(@, 1, ApiWindow)]
    /\ served' = [served EXCEPT ![a] = Append(@, now)]

LEMMA RequestIsServed ==
    ASSUME NEW i \in Ip, Request(i)
    PROVE  (apiWindow' = apiWindow /\ served' = served) \/ \E k \in KeyId : LetThrough(k)
<1>1. CASE \E k \in KeyId : Served(i, k) \/ SelfRevoke(i, k)
  BY <1>1 DEF Served, SelfRevoke, Authenticated, LetThrough
<1>2. CASE \E k \in KeyId : OverQuota(i, k) \/ OracleRequest(i, k)
  BY <1>2 DEF OverQuota, OracleRequest
<1>3. CASE Refused(i) \/ PublicRequest(i) \/ Keyless(i) \/ Stranger(i)
  BY <1>3 DEF Refused, PublicRequest, Keyless, Stranger, histories
<1>4. CASE SandboxRefused(i) \/ SandboxTry(i)
  BY <1>4 DEF SandboxRefused, SandboxTry, histories
<1>5. CASE Onboard(i) \/ Generate(i) \/ AdminRevoke(i) \/ AdminRefused(i)
  BY <1>5 DEF Onboard, Generate, AdminRevoke, AdminRefused, histories
<1> QED BY <1>1, <1>2, <1>3, <1>4, <1>5 DEF Request

\* It issues one key, or revokes one, on behalf of the admin or of its agent.
LEMMA RequestManages ==
    ASSUME NEW i \in Ip, Request(i)
    PROVE  \/ agents' = agents /\ keys' = keys
           \/ \E a \in Address : Issue(a)
           \/ /\ agents' = agents
              /\ \E k \in KeyId :
                    \/ Revoke(k, "admin")
                    \/ \E j \in KeyId : Owned(k, keys[j].agent) /\ Revoke(k, keys[j].agent)
<1>1. CASE \E k \in KeyId : SelfRevoke(i, k)
  BY <1>1 DEF SelfRevoke, Authenticated
<1>2. CASE \E k \in KeyId : Served(i, k)
  BY <1>2 DEF Served, Authenticated
<1>3. CASE \E k \in KeyId : OverQuota(i, k) \/ OracleRequest(i, k)
  BY <1>3 DEF OverQuota, OracleRequest, tables
<1>4. CASE Refused(i) \/ PublicRequest(i) \/ Keyless(i) \/ Stranger(i)
  BY <1>4 DEF Refused, PublicRequest, Keyless, Stranger, tables
<1>5. CASE SandboxRefused(i) \/ SandboxTry(i)
  BY <1>5 DEF SandboxRefused, SandboxTry, tables
<1>6. CASE Onboard(i)
  BY <1>6 DEF Onboard, tables
<1>7. CASE Generate(i)
  BY <1>7 DEF Generate
<1>8. CASE AdminRevoke(i) \/ AdminRefused(i)
  BY <1>8 DEF AdminRevoke, AdminRefused, tables
<1> QED BY <1>1, <1>2, <1>3, <1>4, <1>5, <1>6, <1>7, <1>8 DEF Request

-----------------------------------------------------------------------------
(* The steps *)

LEMMA IpTick ==
    ASSUME TypeOK, IpIInv, Tick
    PROVE  IpIInv'
<1>1. WindowsSound /\ Logs
  BY IpMeans DEF TypeOK, Logs
<1>2. /\ now \in Nat /\ restarts \in Nat
      /\ \A l \in Limiter : Settings(Maximum[l], Window[l], restarts)
  BY Bounds
<1>3. /\ now' = now + 1 /\ restarts' = restarts /\ lookups' = lookups /\ tries' = tries
      /\ ipWindow' = [i \in Ip |-> [l \in Limiter |-> Expire(ipWindow[i][l])]]
  BY DEF Tick, histories
<1>4. /\ \A i \in Ip, l \in Limiter :
            ipWindow[i][l] \in Windows /\ WindowSound(ipWindow[i][l], Maximum[l], Window[l], now)
      /\ \A i \in Ip, l \in Limiter : ipWindow'[i][l] = Expire(ipWindow[i][l])
  BY <1>1, <1>3 DEF WindowsSound
<1>5. "authIp" \in Limiter /\ "sandbox" \in Limiter
  BY DEF Limiter
<1>6. ASSUME NEW i \in Ip, NEW l \in Limiter
      PROVE  Expire(ipWindow[i][l]) \in Windows
             /\ WindowSound(Expire(ipWindow[i][l]), Maximum[l], Window[l], now + 1)
  <2>1. ipWindow[i][l] \in Windows /\ WindowSound(ipWindow[i][l], Maximum[l], Window[l], now)
    BY <1>4
  <2>2. Maximum[l] \in Nat /\ Window[l] \in Nat
    BY <1>2 DEF Settings
  <2>3. Closed \in Windows
    BY DEF Closed, Windows
  <2>4. ipWindow[i][l].hits \in Nat /\ ipWindow[i][l].until \in Nat
    BY <2>1 DEF Windows
  <2> QED BY <1>2, <2>1, <2>2, <2>3, <2>4 DEF Expire, WindowSound
<1>7. WindowsSound'
  BY <1>3, <1>4, <1>6 DEF WindowsSound
<1>8. ASSUME NEW i \in Ip
      PROVE  /\ Limited(lookups[i], Expire(ipWindow[i]["authIp"]),
                        Maximum["authIp"], Window["authIp"], now + 1, restarts)
             /\ Limited(tries[i], Expire(ipWindow[i]["sandbox"]),
                        Maximum["sandbox"], Window["sandbox"], now + 1, restarts)
  <2>1. /\ lookups[i] \in Seq(Time) /\ tries[i] \in Seq(Time)
        /\ ipWindow[i]["authIp"] \in Windows /\ ipWindow[i]["sandbox"] \in Windows
        /\ Settings(Maximum["authIp"], Window["authIp"], restarts)
        /\ Settings(Maximum["sandbox"], Window["sandbox"], restarts)
    BY <1>1, <1>2, <1>4, <1>5 DEF Logs
  <2>2. /\ Limited(lookups[i], ipWindow[i]["authIp"],
                   Maximum["authIp"], Window["authIp"], now, restarts)
        /\ Limited(tries[i], ipWindow[i]["sandbox"],
                   Maximum["sandbox"], Window["sandbox"], now, restarts)
    BY IpMeans
  <2> QED BY <1>2, <2>1, <2>2, TickKeeps
<1>9. \A i \in Ip :
         /\ Limited(lookups[i], ipWindow[i]["authIp"],
                    Maximum["authIp"], Window["authIp"], now, restarts)'
         /\ Limited(tries[i], ipWindow[i]["sandbox"],
                    Maximum["sandbox"], Window["sandbox"], now, restarts)'
  BY <1>3, <1>4, <1>5, <1>8
<1> QED BY <1>7, <1>9 DEF IpIInv, WindowsSound

LEMMA IpRestart ==
    ASSUME TypeOK, IpIInv, Restart
    PROVE  IpIInv'
<1>1. WindowsSound /\ Logs
  BY IpMeans DEF TypeOK, Logs
<1>2. /\ now \in Nat /\ restarts \in Nat
      /\ \A l \in Limiter : Settings(Maximum[l], Window[l], restarts)
  BY Bounds
<1>3. /\ now' = now /\ restarts' = restarts + 1 /\ lookups' = lookups /\ tries' = tries
      /\ ipWindow' = [i \in Ip |-> [l \in Limiter |-> Closed]]
  BY DEF Restart, histories, NoIpWindows
<1>4. /\ \A i \in Ip, l \in Limiter : ipWindow[i][l] \in Windows
      /\ \A i \in Ip, l \in Limiter : ipWindow'[i][l] = Closed
  BY <1>1, <1>3 DEF WindowsSound
<1>5. "authIp" \in Limiter /\ "sandbox" \in Limiter
  BY DEF Limiter
<1>6. Closed \in Windows
  BY DEF Closed, Windows
<1>7. WindowsSound'
  BY <1>3, <1>4, <1>6 DEF WindowsSound, WindowSound
<1>8. ASSUME NEW i \in Ip
      PROVE  /\ Limited(lookups[i], Closed,
                        Maximum["authIp"], Window["authIp"], now, restarts + 1)
             /\ Limited(tries[i], Closed,
                        Maximum["sandbox"], Window["sandbox"], now, restarts + 1)
  <2>1. /\ lookups[i] \in Seq(Time) /\ tries[i] \in Seq(Time)
        /\ ipWindow[i]["authIp"] \in Windows /\ ipWindow[i]["sandbox"] \in Windows
        /\ Settings(Maximum["authIp"], Window["authIp"], restarts)
        /\ Settings(Maximum["sandbox"], Window["sandbox"], restarts)
    BY <1>1, <1>2, <1>4, <1>5 DEF Logs
  <2>2. /\ Limited(lookups[i], ipWindow[i]["authIp"],
                   Maximum["authIp"], Window["authIp"], now, restarts)
        /\ Limited(tries[i], ipWindow[i]["sandbox"],
                   Maximum["sandbox"], Window["sandbox"], now, restarts)
    BY IpMeans
  <2> QED BY <1>2, <2>1, <2>2, RestartKeeps
<1>9. \A i \in Ip :
         /\ Limited(lookups[i], ipWindow[i]["authIp"],
                    Maximum["authIp"], Window["authIp"], now, restarts)'
         /\ Limited(tries[i], ipWindow[i]["sandbox"],
                    Maximum["sandbox"], Window["sandbox"], now, restarts)'
  BY <1>3, <1>4, <1>5, <1>8
<1> QED BY <1>7, <1>9 DEF IpIInv, WindowsSound

LEMMA QuotaTick ==
    ASSUME TypeOK, QuotaIInv, Tick
    PROVE  QuotaIInv'
<1>1. /\ now' = now + 1 /\ restarts' = restarts /\ served' = served /\ agents' = agents
      /\ apiWindow' = [a \in Address |-> Expire(apiWindow[a])]
  BY DEF Tick, histories, tables
<1>2. ASSUME NEW a \in Address
      PROVE  /\ Expire(apiWindow[a]) \in Windows
             /\ Limited(served[a], Expire(apiWindow[a]), Rpm[a], ApiWindow, now + 1, restarts)
  <2>1. served[a] \in Seq(Time) /\ apiWindow[a] \in Windows
        /\ Limited(served[a], apiWindow[a], Rpm[a], ApiWindow, now, restarts)
    BY DEF TypeOK, QuotaIInv
  <2>2. Settings(Rpm[a], ApiWindow, restarts) /\ now \in Nat
    BY Bounds
  <2> QED BY <2>1, <2>2, TickKeeps
<1>3. apiWindow' \in [Address -> Windows] /\ \A a \in Address : apiWindow'[a] = Expire(apiWindow[a])
  BY <1>1, <1>2
<1>4. \A a \in Address : Limited(served[a], apiWindow[a], Rpm[a], ApiWindow, now, restarts)'
  BY <1>1, <1>2, <1>3
<1> QED BY <1>1, <1>3, <1>4 DEF QuotaIInv

LEMMA QuotaRestart ==
    ASSUME TypeOK, QuotaIInv, Restart
    PROVE  QuotaIInv'
<1>1. /\ now' = now /\ restarts' = restarts + 1 /\ served' = served /\ agents' = agents
      /\ apiWindow' = [a \in Address |-> Closed]
  BY DEF Restart, histories, tables, NoApiWindows
<1>2. ASSUME NEW a \in Address
      PROVE  Limited(served[a], Closed, Rpm[a], ApiWindow, now, restarts + 1)
  <2>1. served[a] \in Seq(Time) /\ apiWindow[a] \in Windows
        /\ Limited(served[a], apiWindow[a], Rpm[a], ApiWindow, now, restarts)
    BY DEF TypeOK, QuotaIInv
  <2>2. Settings(Rpm[a], ApiWindow, restarts) /\ now \in Nat
    BY Bounds
  <2> QED BY <2>1, <2>2, RestartKeeps
<1>3. Closed \in Windows
  BY DEF Closed, Windows
<1>4. apiWindow' \in [Address -> Windows] /\ \A a \in Address : apiWindow'[a] = Closed
  BY <1>1, <1>3
<1>5. \A a \in Address : Limited(served[a], apiWindow[a], Rpm[a], ApiWindow, now, restarts)'
  BY <1>1, <1>2, <1>4
<1> QED BY <1>1, <1>4, <1>5 DEF QuotaIInv

\* The rows of api_keys.
LEMMA KeyRows ==
    ASSUME TypeOK
    PROVE  \A k \in KeyId :
              /\ keys[k] \in [agent : agents, by : Address \cup {"nobody", "admin"}]
              /\ keys[k].agent \in agents /\ keys[k].agent \in Address
              /\ keys[k].by \in Address \cup {"nobody", "admin"}
<1> DEFINE Row == [agent : agents, by : Address \cup {"nobody", "admin"}]
<1>1. keys \in Seq(Row) /\ agents \subseteq Address
  BY DEF TypeOK
<1> HIDE DEF Row
<1>2. \A k \in DOMAIN keys : keys[k] \in Row
  BY <1>1
<1>3. \A row \in Row : /\ row.agent \in agents
                      /\ row.by \in Address \cup {"nobody", "admin"}
  BY DEF Row
<1> QED BY <1>1, <1>2, <1>3 DEF KeyId, Row

LEMMA QuotaRequest ==
    ASSUME TypeOK, QuotaIInv, now' = now, restarts' = restarts,
           agents \subseteq agents',
           (apiWindow' = apiWindow /\ served' = served) \/ \E k \in KeyId : LetThrough(k)
    PROVE  QuotaIInv'
<1>1. CASE apiWindow' = apiWindow /\ served' = served
  BY <1>1 DEF QuotaIInv
<1>2. CASE \E k \in KeyId : LetThrough(k)
  <2>1. PICK k \in KeyId : LetThrough(k)
    BY <1>2
  <2> DEFINE b == keys[k].agent
  <2>2. b \in agents /\ b \in Address
    BY <2>1, KeyRows
  <2>3. /\ apiWindow[b].hits < Rpm[b]
        /\ apiWindow' = [apiWindow EXCEPT ![b] = Hit(apiWindow[b], 1, ApiWindow)]
        /\ served' = [served EXCEPT ![b] = Append(served[b], now)]
    BY <2>1 DEF LetThrough, WithinQuota
  <2> HIDE DEF b
  <2>4. /\ apiWindow \in [Address -> Windows] /\ served \in [Address -> Seq(Time)]
        /\ \A a \in Address : Limited(served[a], apiWindow[a], Rpm[a], ApiWindow, now, restarts)
        /\ \A a \in Address \ agents : served[a] = <<>>
    BY DEF QuotaIInv, TypeOK
  <2>5. Settings(Rpm[b], ApiWindow, restarts) /\ now \in Time /\ now \in Nat
    BY <2>2, Bounds
  <2>6. apiWindow[b] \in Windows /\ apiWindow[b].hits \in Nat /\ apiWindow[b].hits + 1 <= Rpm[b]
    <3>1. apiWindow[b] \in Windows /\ apiWindow[b].hits \in Nat
      BY <2>2, <2>4 DEF Windows
    <3> QED BY <2>3, <2>5, <3>1 DEF Settings
  <2>7. Limited(Append(served[b], now), Hit(apiWindow[b], 1, ApiWindow),
                Rpm[b], ApiWindow, now, restarts)
    BY <2>2, <2>4, <2>5, <2>6, LoggedHitKeeps
  <2>8. Hit(apiWindow[b], 1, ApiWindow) \in Windows
    BY <2>2, <2>4, <2>5, <2>6, HitCounts DEF Limited, Settings
  <2>9. /\ apiWindow' \in [Address -> Windows]
        /\ apiWindow'[b] = Hit(apiWindow[b], 1, ApiWindow)
        /\ served'[b] = Append(served[b], now)
        /\ \A a \in Address \ {b} : apiWindow'[a] = apiWindow[a] /\ served'[a] = served[a]
    BY <2>2, <2>3, <2>4, <2>8
  <2>10. \A a \in Address : Limited(served[a], apiWindow[a], Rpm[a], ApiWindow, now, restarts)'
    <3> TAKE a \in Address
    <3>1. CASE a = b
      BY <2>7, <2>9, <3>1
    <3>2. CASE a # b
      BY <2>4, <2>9, <3>2
    <3> QED BY <3>1, <3>2
  <2>11. \A a \in Address \ agents' : served'[a] = <<>>
    BY <2>2, <2>4, <2>9
  <2> QED BY <2>9, <2>10, <2>11 DEF QuotaIInv
<1> QED BY <1>1, <1>2

-----------------------------------------------------------------------------
(* The keys *)

\* Keys are counted among the finitely many rows.
LEMMA ActiveFinite ==
    ASSUME TypeOK, NEW a
    PROVE  /\ IsFiniteSet(ActiveKeys(a)) /\ Cardinality(ActiveKeys(a)) \in Nat
           /\ Len(keys) + 1 \notin ActiveKeys(a)
<1>1. Len(keys) \in Nat /\ KeyId = 1..Len(keys)
  BY DEF TypeOK, KeyId
<1>2. IsFiniteSet(1..Len(keys)) /\ ActiveKeys(a) \subseteq 1..Len(keys)
  BY <1>1, FS_Interval DEF ActiveKeys
<1>3. IsFiniteSet(ActiveKeys(a)) /\ Cardinality(ActiveKeys(a)) \in Nat
  BY <1>2, FS_Subset, FS_CardinalityType
<1>4. Len(keys) + 1 \notin 1..Len(keys)
  BY <1>1
<1> QED BY <1>2, <1>3, <1>4

\* issueKey adds an active key to an agent that has room for one.
LEMMA IssueKeeps ==
    ASSUME TypeOK, KeysIInv, NEW a \in Address, Issue(a)
    PROVE  /\ KeysIInv' /\ agents \subseteq agents' /\ agents' \subseteq Address
           /\ keys' \in Seq([agent : agents', by : Address \cup {"nobody", "admin"}])
<1> DEFINE b == Lower[a]
           new == [agent |-> b, by |-> "nobody"]
           Row(S) == [agent : S, by : Address \cup {"nobody", "admin"}]
<1>1. b \in Address /\ Lower[b] = b
  BY AccessAssumption
<1>2. agents' = agents \cup {b} /\ agents \subseteq Address /\ keys \in Seq(Row(agents))
  BY DEF Issue, AgentOf, TypeOK
<1>3. new \in Row(agents') /\ Row(agents) \subseteq Row(agents') /\ new.agent = b /\ new.by = "nobody"
  BY <1>2
<1>4. \/ keys' = keys
      \/ keys' = Append(keys, new) /\ Cardinality(ActiveKeys(b)) < MaxKeys
  BY DEF Issue, AgentOf, insertApiKey
<1> HIDE DEF new, b, Row
<1>5. keys \in Seq(Row(agents'))
  <2>1. \A S, T : S \subseteq T => Seq(S) \subseteq Seq(T)
    OBVIOUS
  <2> QED BY <1>2, <1>3, <2>1
<1>6. keys' \in Seq(Row(agents'))
  BY <1>3, <1>4, <1>5
<1>7. \A c \in agents' : Lower[c] = c
  BY <1>1, <1>2 DEF KeysIInv
<1>8. CASE keys' = keys
  <2>1. \A c : ActiveKeys(c)' = ActiveKeys(c)
    BY <1>8 DEF ActiveKeys, KeyId
  <2>2. KeysIInv'
    BY <1>7, <1>8, <2>1 DEF KeysIInv, KeyId
  <2> QED BY <1>1, <1>2, <1>6, <2>2 DEF Row
<1>9. CASE keys' = Append(keys, new) /\ Cardinality(ActiveKeys(b)) < MaxKeys
  <2>1. Len(keys) \in Nat /\ KeyId = 1..Len(keys)
    BY <1>5 DEF KeyId
  <2>2. /\ \A k \in 1..Len(keys) : keys'[k] = keys[k]
        /\ keys'[Len(keys) + 1] = new
        /\ Len(keys') = Len(keys) + 1
    BY <1>3, <1>5, <1>9
  <2>3. KeyId' = 1..(Len(keys) + 1)
    BY <1>6, <2>2 DEF KeyId
  <2>4. KeyId' = KeyId \cup {Len(keys) + 1}
    BY <2>1, <2>3
  <2>5. \A k \in KeyId : keys'[k] = keys[k]
    BY <2>1, <2>2
  <2>6. \A c \in Address : Cardinality(ActiveKeys(c)') <= MaxKeys
    <3> TAKE c \in Address
    <3>1. IsFiniteSet(ActiveKeys(c)) /\ Len(keys) + 1 \notin ActiveKeys(c)
      BY ActiveFinite
    <3>2. CASE c = b
      <4>1. ActiveKeys(c)' = ActiveKeys(c) \cup {Len(keys) + 1}
        BY <1>3, <2>2, <2>4, <2>5, <3>2 DEF ActiveKeys
      <4>2. Cardinality(ActiveKeys(c) \cup {Len(keys) + 1}) = Cardinality(ActiveKeys(c)) + 1
        BY <3>1, FS_AddElement
      <4>3. Cardinality(ActiveKeys(c)) \in Nat /\ MaxKeys \in Nat
        BY ActiveFinite, AccessAssumption
      <4> QED BY <1>9, <3>2, <4>1, <4>2, <4>3
    <3>3. CASE c # b
      <4>1. ActiveKeys(c)' = ActiveKeys(c)
        BY <1>3, <2>2, <2>4, <2>5, <3>3 DEF ActiveKeys
      <4> QED BY <4>1 DEF KeysIInv
    <3> QED BY <3>2, <3>3
  <2>7. \A k \in KeyId' : keys'[k].by \in Address => Lower[keys'[k].by] = keys'[k].agent
    <3>1. "nobody" \notin Address
      BY AccessAssumption
    <3> QED BY <1>3, <2>2, <2>4, <2>5, <3>1 DEF KeysIInv
  <2>8. KeysIInv'
    BY <1>7, <2>6, <2>7 DEF KeysIInv
  <2> QED BY <1>1, <1>2, <1>6, <2>8 DEF Row
<1> QED BY <1>4, <1>8, <1>9

\* A key is revoked by the admin, or by the wallet that it belongs to.
LEMMA RevokeKeeps ==
    ASSUME TypeOK, KeysIInv, agents' = agents, NEW k \in KeyId, NEW who,
           Revoke(k, who),
           \/ who = "admin"
           \/ \E j \in KeyId : Owned(k, keys[j].agent) /\ who = keys[j].agent
    PROVE  /\ KeysIInv'
           /\ keys' \in Seq([agent : agents', by : Address \cup {"nobody", "admin"}])
<1> DEFINE Row == [agent : agents, by : Address \cup {"nobody", "admin"}]
<1>1. keys \in Seq(Row) /\ keys[k] \in Row
  BY KeyRows DEF TypeOK
<1>2. keys' = [keys EXCEPT ![k] = [keys[k] EXCEPT !.by = who]]
  BY DEF Revoke
<1>3. who = "admin" \/ (who \in Address /\ Lower[who] = keys[k].agent)
  BY KeyRows DEF Owned
<1>4. who # "nobody" /\ who \in Address \cup {"nobody", "admin"}
  BY <1>3, AccessAssumption
<1> DEFINE new == [keys[k] EXCEPT !.by = who]
<1>5. new \in Row /\ new.agent = keys[k].agent /\ new.by = who
  BY <1>1, <1>4
<1> HIDE DEF Row, new
<1>6. keys' = [keys EXCEPT ![k] = new] /\ k \in DOMAIN keys
  BY <1>2 DEF new, KeyId
<1>7. keys' \in Seq(Row)
  BY <1>1, <1>5, <1>6
<1>8. KeyId' = KeyId /\ keys'[k] = new /\ \A j \in KeyId \ {k} : keys'[j] = keys[j]
  BY <1>1, <1>6 DEF KeyId
<1>9. \A c \in Address : Cardinality(ActiveKeys(c)') <= MaxKeys
  <2> TAKE c \in Address
  <2>1. ActiveKeys(c)' \subseteq ActiveKeys(c)
    BY <1>4, <1>5, <1>8 DEF ActiveKeys
  <2>2. IsFiniteSet(ActiveKeys(c)) /\ Cardinality(ActiveKeys(c)) \in Nat
    BY ActiveFinite
  <2>3. Cardinality(ActiveKeys(c)') <= Cardinality(ActiveKeys(c)) /\ Cardinality(ActiveKeys(c)') \in Nat
    BY <2>1, <2>2, FS_Subset, FS_CardinalityType
  <2>4. Cardinality(ActiveKeys(c)) <= MaxKeys /\ MaxKeys \in Nat
    BY AccessAssumption DEF KeysIInv
  <2> QED BY <2>2, <2>3, <2>4
<1>10. \A j \in KeyId' : keys'[j].by \in Address => Lower[keys'[j].by] = keys'[j].agent
  <2>1. "admin" \notin Address
    BY AccessAssumption
  <2> QED BY <1>3, <1>5, <1>8, <2>1 DEF KeysIInv
<1>11. KeysIInv'
  BY <1>9, <1>10 DEF KeysIInv
<1> QED BY <1>7, <1>11 DEF Row

LEMMA KeysRequest ==
    ASSUME TypeOK, KeysIInv, NEW i \in Ip, Request(i)
    PROVE  /\ KeysIInv' /\ agents \subseteq agents' /\ agents' \subseteq Address
           /\ keys' \in Seq([agent : agents', by : Address \cup {"nobody", "admin"}])
<1>1. CASE agents' = agents /\ keys' = keys
  <2>1. KeysIInv'
    BY <1>1 DEF KeysIInv, ActiveKeys, KeyId
  <2> QED BY <1>1, <2>1 DEF TypeOK
<1>2. CASE \E a \in Address : Issue(a)
  BY <1>2, IssueKeeps
<1>3. CASE /\ agents' = agents
           /\ \E k \in KeyId :
                 \/ Revoke(k, "admin")
                 \/ \E j \in KeyId : Owned(k, keys[j].agent) /\ Revoke(k, keys[j].agent)
  <2>1. /\ KeysIInv'
        /\ keys' \in Seq([agent : agents', by : Address \cup {"nobody", "admin"}])
    BY <1>3, RevokeKeeps
  <2> QED BY <1>3, <2>1 DEF TypeOK
<1> QED BY <1>1, <1>2, <1>3, RequestManages

-----------------------------------------------------------------------------
(* The inductive invariant *)

\* Windows that are sound have the type that TypeOK gives them.
LEMMA SoundIsTyped ==
    ASSUME NEW w \in Windows, NEW max \in Nat, NEW length, NEW t, WindowSound(w, max, length, t)
    PROVE  w \in WindowType(max)
<1>1. w = [hits |-> w.hits, until |-> w.until] /\ w.hits \in Nat /\ w.until \in Nat
  BY DEF Windows
<1>2. w.hits \in 0..max
  BY <1>1 DEF WindowSound, Closed
<1> QED BY <1>1, <1>2 DEF WindowType

\* What a step leaves true of the windows, of the tables and of the logs.
LEMMA StepTyped ==
    ASSUME IpIInv', QuotaIInv', now' \in 1..MaxTime, restarts' \in 0..MaxRestarts,
           agents' \subseteq Address,
           keys' \in Seq([agent : agents', by : Address \cup {"nobody", "admin"}]),
           tries' \in [Ip -> Seq(Time)], lookups' \in [Ip -> Seq(Time)],
           served' \in [Address -> Seq(Time)]
    PROVE  TypeOK'
<1>1. /\ \A l \in Limiter : Maximum[l] \in Nat
      /\ \A a \in Address : Rpm[a] \in Nat
  BY AccessAssumption
<1>2. \A i \in Ip, l \in Limiter : ipWindow'[i][l] \in WindowType(Maximum[l])
  <2> TAKE i \in Ip, l \in Limiter
  <2>1. ipWindow'[i][l] \in Windows /\ WindowSound(ipWindow'[i][l], Maximum[l], Window[l], now')
    BY DEF IpIInv
  <2> QED BY <1>1, <2>1, SoundIsTyped
<1>3. \A a \in Address : apiWindow'[a] \in WindowType(Rpm[a])
  <2> TAKE a \in Address
  <2>1. apiWindow'[a] \in Windows /\ WindowSound(apiWindow'[a], Rpm[a], ApiWindow, now')
    BY DEF QuotaIInv, Limited
  <2> QED BY <1>1, <2>1, SoundIsTyped
<1> QED BY <1>2, <1>3 DEF TypeOK

\* Nothing is logged and no window is open.
LEMMA NothingLogged ==
    ASSUME NEW max \in Nat \ {0}, NEW length, NEW t, NEW r \in Nat
    PROVE  Limited(<<>>, Closed, max, length, t, r)
<1>1. \A from : Entries(<<>>, from, length) = {}
  BY DEF Entries
<1>2. Cardinality({}) = 0
  BY FS_EmptySet
<1>3. r * max \in Nat /\ Closed.hits = 0
  BY Products DEF Closed
<1>4. CountSound(<<>>, Closed, max, length, t, r)
  <2> DEFINE p == r * max
  <2>1. \A from : Cardinality(Entries(<<>>, from, length)) = 0
    BY <1>1, <1>2
  <2>2. p \in Nat
    BY <1>3
  <2> HIDE DEF p
  <2>3. 0 <= 2 * max - 1 + p /\ 0 <= max - 1 + 0 + p
    BY <2>2
  <2>4. 0 <= 2 * max - 1 + r * max /\ 0 <= max - 1 + Closed.hits + r * max
    BY <2>3, <1>3 DEF p
  <2> QED BY <2>1, <2>4 DEF CountSound
<1> QED BY <1>4 DEF Limited, LogPast, WindowSound

LEMMA AccessInit == Init => AccessIInv
<1> SUFFICES ASSUME Init PROVE AccessIInv
  OBVIOUS
<1>1. /\ now = 1 /\ restarts = 0 /\ agents = {} /\ keys = <<>>
      /\ ipWindow = [i \in Ip |-> [l \in Limiter |-> Closed]]
      /\ apiWindow = [a \in Address |-> Closed]
      /\ tries = [i \in Ip |-> <<>>] /\ lookups = [i \in Ip |-> <<>>]
      /\ served = [a \in Address |-> <<>>]
  BY DEF Init, NoIpWindows, NoApiWindows
<1>2. /\ \A l \in Limiter : Maximum[l] \in Nat \ {0}
      /\ \A a \in Address : Rpm[a] \in Nat \ {0}
      /\ 1 \in 1..MaxTime /\ 0 \in 0..MaxRestarts /\ 0 \in Nat /\ MaxKeys \in Nat
      /\ "authIp" \in Limiter /\ "sandbox" \in Limiter
  BY AccessAssumption DEF Limiter
<1>3. Closed \in Windows /\ \A max \in Nat : Closed \in WindowType(max)
  BY DEF Closed, Windows, WindowType
<1>4. TypeOK
  <2>1. <<>> \in Seq(Time) /\ <<>> \in Seq([agent : {}, by : Address \cup {"nobody", "admin"}])
    OBVIOUS
  <2>2. /\ tries \in [Ip -> Seq(Time)] /\ lookups \in [Ip -> Seq(Time)]
        /\ served \in [Address -> Seq(Time)]
    BY <1>1, <2>1
  <2>3. \A i \in Ip, l \in Limiter : ipWindow[i][l] \in WindowType(Maximum[l])
    BY <1>1, <1>2, <1>3
  <2>4. \A a \in Address : apiWindow[a] \in WindowType(Rpm[a])
    BY <1>1, <1>2, <1>3
  <2> QED BY <1>1, <1>2, <2>1, <2>2, <2>3, <2>4 DEF TypeOK
<1>5. IpIInv
  <2>1. ipWindow \in [Ip -> [Limiter -> Windows]]
    BY <1>1, <1>3
  <2>2. \A i \in Ip, l \in Limiter : WindowSound(ipWindow[i][l], Maximum[l], Window[l], now)
    BY <1>1 DEF WindowSound
  <2>3. \A i \in Ip :
          /\ Limited(lookups[i], ipWindow[i]["authIp"],
                     Maximum["authIp"], Window["authIp"], now, restarts)
          /\ Limited(tries[i], ipWindow[i]["sandbox"],
                     Maximum["sandbox"], Window["sandbox"], now, restarts)
    BY <1>1, <1>2, NothingLogged
  <2> QED BY <2>1, <2>2, <2>3 DEF IpIInv
<1>6. QuotaIInv
  <2>1. \A a \in Address : Limited(served[a], apiWindow[a], Rpm[a], ApiWindow, now, restarts)
    BY <1>1, <1>2, NothingLogged
  <2> QED BY <1>1, <1>3, <2>1 DEF QuotaIInv
<1>7. KeysIInv
  <2>1. KeyId = {} /\ \A a : ActiveKeys(a) = {}
    BY <1>1 DEF KeyId, ActiveKeys
  <2>2. Cardinality({}) = 0
    BY FS_EmptySet
  <2>3. \A a : Cardinality(ActiveKeys(a)) = 0
    BY <2>1, <2>2
  <2>4. \A a : Cardinality(ActiveKeys(a)) <= MaxKeys
    BY <2>3, <1>2
  <2> QED BY <1>1, <2>1, <2>4 DEF KeysIInv
<1> QED BY <1>4, <1>5, <1>6, <1>7 DEF AccessIInv

LEMMA RequestStep ==
    ASSUME AccessIInv, NEW i \in Ip, Request(i)
    PROVE  AccessIInv'
<1>1. TypeOK /\ IpIInv /\ QuotaIInv /\ KeysIInv
  BY DEF AccessIInv
<1>2. now' = now /\ restarts' = restarts
  BY RequestCounts
<1>3. PICK route \in Route :
         /\ Counted(i, route)
         /\ \/ lookups' = lookups
            \/ /\ Open(i, route) /\ route \in KeyRoutes
               /\ lookups' = [lookups EXCEPT ![i] = Append(@, now)]
         /\ \/ tries' = tries
            \/ /\ Open(i, route) /\ route = SandboxRoute
               /\ tries' = [tries EXCEPT ![i] = Append(@, now)]
  BY RequestCounts
<1>4. IpIInv'
  BY <1>1, <1>2, <1>3, IpRequest
<1>5. /\ KeysIInv' /\ agents \subseteq agents' /\ agents' \subseteq Address
      /\ keys' \in Seq([agent : agents', by : Address \cup {"nobody", "admin"}])
  BY <1>1, KeysRequest
<1>6. (apiWindow' = apiWindow /\ served' = served) \/ \E k \in KeyId : LetThrough(k)
  BY RequestIsServed
<1>7. QuotaIInv'
  BY <1>1, <1>2, <1>5, <1>6, QuotaRequest
<1>9. lookups' \in [Ip -> Seq(Time)] /\ tries' \in [Ip -> Seq(Time)]
  <2>1. now \in Time /\ lookups \in [Ip -> Seq(Time)] /\ tries \in [Ip -> Seq(Time)]
    BY <1>1, Bounds DEF TypeOK
  <2>2. \A log \in Seq(Time) : Append(log, now) \in Seq(Time)
    BY <2>1
  <2>3. lookups' = lookups \/ lookups' = [lookups EXCEPT ![i] = Append(lookups[i], now)]
    BY <1>3
  <2>4. tries' = tries \/ tries' = [tries EXCEPT ![i] = Append(tries[i], now)]
    BY <1>3
  <2>5. lookups' \in [Ip -> Seq(Time)]
    <3>1. Append(lookups[i], now) \in Seq(Time)
      BY <2>1, <2>2
    <3> QED BY <2>1, <2>3, <3>1
  <2>6. tries' \in [Ip -> Seq(Time)]
    <3>1. Append(tries[i], now) \in Seq(Time)
      BY <2>1, <2>2
    <3> QED BY <2>1, <2>4, <3>1
  <2> QED BY <2>5, <2>6
<1>10. served' \in [Address -> Seq(Time)]
  <2>1. now \in Time /\ served \in [Address -> Seq(Time)]
    BY <1>1, Bounds DEF TypeOK
  <2>2. \A log \in Seq(Time) : Append(log, now) \in Seq(Time)
    BY <2>1
  <2>3. \/ served' = served
        \/ \E a \in Address : served' = [served EXCEPT ![a] = Append(served[a], now)]
    BY <1>1, <1>6, KeyRows DEF LetThrough
  <2> QED BY <2>1, <2>2, <2>3
<1>11. TypeOK'
  <2>1. now' \in 1..MaxTime /\ restarts' \in 0..MaxRestarts
    BY <1>1, <1>2 DEF TypeOK
  <2> QED BY <1>1, <1>4, <1>5, <1>7, <1>9, <1>10, <2>1, StepTyped
<1> QED BY <1>1, <1>4, <1>5, <1>7, <1>11 DEF AccessIInv

LEMMA WorldStep ==
    ASSUME AccessIInv, Tick \/ Restart
    PROVE  AccessIInv'
<1>1. TypeOK /\ IpIInv /\ QuotaIInv /\ KeysIInv
  BY DEF AccessIInv
<1>2. IpIInv' /\ QuotaIInv'
  BY <1>1, IpTick, IpRestart, QuotaTick, QuotaRestart
<1>3. UNCHANGED <<agents, keys, tries, lookups, served>>
  BY DEF Tick, Restart, tables, histories
<1>4. KeysIInv'
  BY <1>1, <1>3 DEF KeysIInv, ActiveKeys, KeyId
<1>5. now' \in 1..MaxTime /\ restarts' \in 0..MaxRestarts
  <2>1. now \in 1..MaxTime /\ restarts \in 0..MaxRestarts /\ MaxTime \in Nat /\ MaxRestarts \in Nat
    BY <1>1, AccessAssumption DEF TypeOK
  <2>2. CASE Tick
    BY <2>1, <2>2 DEF Tick
  <2>3. CASE Restart
    BY <2>1, <2>3 DEF Restart
  <2> QED BY <2>2, <2>3
<1>6. TypeOK'
  <2>1. /\ agents' \subseteq Address
        /\ keys' \in Seq([agent : agents', by : Address \cup {"nobody", "admin"}])
        /\ tries' \in [Ip -> Seq(Time)] /\ lookups' \in [Ip -> Seq(Time)]
        /\ served' \in [Address -> Seq(Time)]
    BY <1>1, <1>3 DEF TypeOK
  <2> QED BY <1>1, <1>2, <1>5, <2>1, StepTyped
<1> QED BY <1>1, <1>2, <1>4, <1>6 DEF AccessIInv

LEMMA StutterStep ==
    ASSUME AccessIInv, UNCHANGED vars
    PROVE  AccessIInv'
<1>1. UNCHANGED <<now, ipWindow, apiWindow, agents, keys, tries, lookups, served, restarts>>
  BY DEF vars, tables, histories
<1>2. TypeOK'
  BY <1>1 DEF AccessIInv, TypeOK
<1>3. IpIInv' /\ QuotaIInv'
  BY <1>1 DEF AccessIInv, IpIInv, QuotaIInv
<1>4. KeysIInv'
  BY <1>1 DEF AccessIInv, KeysIInv, ActiveKeys, KeyId
<1> QED BY <1>2, <1>3, <1>4 DEF AccessIInv

\* The inductive invariant of the limiters, the quota and the keys.
THEOREM AccessInvariant == Spec => []AccessIInv
<1>1. Init => AccessIInv
  BY AccessInit
<1>2. AccessIInv /\ [Next]_vars => AccessIInv'
  BY RequestStep, WorldStep, StutterStep DEF Next
<1> QED BY <1>1, <1>2, PTL DEF Spec

-----------------------------------------------------------------------------
(* What the runs check *)

\* If only one member of S has a log, Bounded counts the entries of that log.
LEMMA OneLog ==
    ASSUME NEW times, NEW S, NEW x \in S, NEW w, NEW max, NEW length, Settings(max, length, restarts),
           times[x] \in Seq(Time), \A y \in S \ {x} : times[y] = <<>>,
           Limited(times[x], w, max, length, now, restarts)
    PROVE  Bounded(times, S, max, length)
<1> DEFINE Logged(from, y) == {<<y, n>> : n \in {m \in DOMAIN times[y] :
                                  from <= times[y][m] /\ times[y][m] < from + length}}
           All(from) == UNION {Logged(from, y) : y \in S}
<1>1. ASSUME NEW from \in Time
      PROVE  Cardinality(All(from)) <= 2 * max - 1 + restarts * max
  <2> DEFINE E == Entries(times[x], from, length)
             f == [n \in E |-> <<x, n>>]
  <2>1. max \in Nat /\ length \in Nat /\ restarts * max \in Nat /\ from \in Int
    BY Products DEF Settings, Time
  <2>2. IsFiniteSet(E) /\ Cardinality(E) \in Nat
    BY <2>1, EntriesFinite
  <2>3. Cardinality(E) <= 2 * max - 1 + restarts * max
    BY DEF Limited, CountSound
  <2>4. \A y \in S \ {x} : Logged(from, y) = {}
    OBVIOUS
  <2>5. All(from) = {<<x, n>> : n \in E}
    <3>1. Logged(from, x) = {<<x, n>> : n \in E}
      BY DEF Entries
    <3> HIDE DEF Logged, E
    <3> QED BY <2>4, <3>1
  <2>6. f \in Surjection(E, All(from))
    <3> HIDE DEF E, All
    <3> QED BY <2>5 DEF Surjection
  <2> HIDE DEF E, f, All
  <2>7. IsFiniteSet(All(from)) /\ Cardinality(All(from)) <= Cardinality(E)
    BY <2>2, <2>6, FS_Surjection
  <2>8. Cardinality(All(from)) \in Nat
    BY <2>7, FS_CardinalityType
  <2> DEFINE p == restarts * max
             e == Cardinality(E)
             u == Cardinality(All(from))
  <2>9. p \in Nat /\ e \in Nat /\ u \in Nat /\ max \in Nat /\ e <= 2 * max - 1 + p /\ u <= e
    BY <2>1, <2>2, <2>3, <2>7, <2>8
  <2>10. u <= 2 * max - 1 + p
    <3> HIDE DEF p, e, u
    <3> QED BY <2>9
  <2> QED BY <2>10
<1> QED BY <1>1 DEF Bounded

\* However its address is spelled, a wallet is one agent and has at most
\* MAX_KEYS_PER_WALLET active keys, and only the admin and the wallet itself
\* revoke them (services/keys.ts, routes/agent.ts, routes/keys.ts).
THEOREM KeysAreBounded == Spec => []KeysInv
<1>1. AccessIInv => KeysInv
  <2> SUFFICES ASSUME AccessIInv PROVE KeysInv
    OBVIOUS
  <2>1. TypeOK /\ KeysIInv
    BY DEF AccessIInv
  <2>2. \A k \in KeyId : keys[k].agent \in agents /\ Lower[keys[k].agent] = keys[k].agent
    BY <2>1, KeyRows DEF KeysIInv
  <2>3. ASSUME NEW w \in Address
        PROVE  Cardinality({k \in KeyId : Lower[keys[k].agent] = Lower[w] /\ Active(k)}) <= MaxKeys
    <3>1. {k \in KeyId : Lower[keys[k].agent] = Lower[w] /\ Active(k)} = ActiveKeys(Lower[w])
      BY <2>2 DEF ActiveKeys, Active
    <3>2. Lower[w] \in Address
      BY <2>1, AccessAssumption
    <3> QED BY <2>1, <3>1, <3>2 DEF KeysIInv
  <2>4. \A a, b \in agents : Lower[a] = Lower[b] => a = b
    BY <2>1 DEF KeysIInv
  <2>5. \A k \in KeyId : keys[k].by \in Address => Lower[keys[k].by] = Lower[keys[k].agent]
    BY <2>1, <2>2 DEF KeysIInv
  <2> QED BY <2>1, <2>3, <2>4, <2>5 DEF KeysInv
<1> QED BY <1>1, AccessInvariant, PTL

\* apiLimiter lets a wallet through as often as its tier allows, but for the
\* edge of a window and a restart, whatever keys and spellings it uses.
THEOREM QuotaHolds == Spec => []QuotaPerWallet
<1>1. AccessIInv => QuotaPerWallet
  <2> SUFFICES ASSUME AccessIInv, NEW w \in Address
               PROVE  Bounded(served, {a \in Address : Lower[a] = Lower[w]}, Rpm[Lower[w]], ApiWindow)
    BY DEF QuotaPerWallet
  <2> DEFINE x == Lower[w]
             S == {a \in Address : Lower[a] = Lower[w]}
  <2>1. TypeOK /\ QuotaIInv /\ KeysIInv
    BY DEF AccessIInv
  <2>2. x \in Address /\ x \in S
    BY <2>1, AccessAssumption
  <2>3. \A y \in S \ {x} : served[y] = <<>>
    BY <2>1 DEF QuotaIInv, KeysIInv
  <2>4. /\ Settings(Rpm[x], ApiWindow, restarts) /\ served[x] \in Seq(Time)
        /\ Limited(served[x], apiWindow[x], Rpm[x], ApiWindow, now, restarts)
    BY <2>1, <2>2, Bounds DEF TypeOK, QuotaIInv
  <2> HIDE DEF x, S
  <2>5. Bounded(served, S, Rpm[x], ApiWindow)
    BY <2>2, <2>3, <2>4, OneLog
  <2> QED BY <2>5 DEF x, S
<1> QED BY <1>1, AccessInvariant, PTL

\* authIpLimiter bounds the look-ups of keys that an IP causes, and the
\* sandbox's limiter its purchases, whatever else it asks for.
THEOREM IpHolds == Spec => []IpIsBounded
<1>1. AccessIInv => IpIsBounded
  <2> SUFFICES ASSUME AccessIInv, NEW i \in Ip
               PROVE  /\ Bounded(lookups, {i}, Maximum["authIp"], Window["authIp"])
                      /\ Bounded(tries, {i}, Maximum["sandbox"], Window["sandbox"])
    BY DEF IpIsBounded
  <2>1. TypeOK /\ IpIInv
    BY DEF AccessIInv
  <2>2. /\ Limited(lookups[i], ipWindow[i]["authIp"],
                   Maximum["authIp"], Window["authIp"], now, restarts)
        /\ Limited(tries[i], ipWindow[i]["sandbox"],
                   Maximum["sandbox"], Window["sandbox"], now, restarts)
        /\ lookups[i] \in Seq(Time) /\ tries[i] \in Seq(Time)
    BY <2>1 DEF IpIInv, TypeOK
  <2>3. /\ Settings(Maximum["authIp"], Window["authIp"], restarts)
        /\ Settings(Maximum["sandbox"], Window["sandbox"], restarts)
    BY <2>1, Bounds DEF Limiter
  <2>4. i \in {i} /\ \A S : \A y \in {i} \ {i} : S[y] = <<>>
    OBVIOUS
  <2>5. Bounded(lookups, {i}, Maximum["authIp"], Window["authIp"])
    BY <2>2, <2>3, <2>4, OneLog
  <2>6. Bounded(tries, {i}, Maximum["sandbox"], Window["sandbox"])
    BY <2>2, <2>3, <2>4, OneLog
  <2> QED BY <2>5, <2>6
<1> QED BY <1>1, AccessInvariant, PTL
================================================================================
