----------------------------- MODULE PeerProofs -----------------------------
(***************************************************************************)
(* Proofs about the peers and their tree heads. About PeerDirectory, for   *)
(* every set of peers and calls, every operator configuration and every    *)
(* set of vouches: all three invariants rest on one fact about single      *)
(* records: whatever reads, derives or writes a record keeps it Sound, so  *)
(* a stale copy is sound as well. About TreeHeads, for every peer, head    *)
(* and overlap of observations: the second half of the module.             *)
(***************************************************************************)
EXTENDS PeerDirectory, TreeHeads, FiniteSetTheorems, TLAPS

\* What each record promises on its own, wherever it is held.
Sound(p, r) ==
    /\ r.blocked /\ Admin[p] = Unspecified => r.trust = "BLOCKED"
    /\ Cardinality(Roots) < 3 /\ r.trust = "TRUSTED" => p \in Roots

RecordInv ==
    /\ \A p \in Peer : Known(p) => Sound(p, dir[p])
    /\ \A c \in Call : task[c] # Idle => Sound(task[c].peer, task[c].record)
    /\ \A p \in Peer : Cardinality(Roots) < 3 /\ standing[p] = "TRUSTED" => p \in Roots

\* A record read, with a trust level that may be absent (first contact).
Draft == [trust : AnyLevel, breaches : 0 .. QuotaBreachLimit - 1, blocked : BOOLEAN,
          vouches : SUBSET Given, since : Nat]

-----------------------------------------------------------------------------
\* The level derived is never the absent one.
LEMMA EvaluateLevel ==
    ASSUME NEW p \in Peer, NEW r \in Draft, NEW s, NEW n
    PROVE  evaluateTrust(Admin[p], r, s, n, ProbationPeriod) \in Levels
BY ConfigurationTyped DEF evaluateTrust, Draft, Levels, AnyLevel, Unspecified

\* The asserters that count towards TRUSTED are roots, so there are fewer
\* than three of them.
LEMMA FewTrustedAsserters ==
    ASSUME Cardinality(Roots) < 3,
           NEW vouches \in SUBSET Given,
           NEW s \in [Peer -> AnyLevel],
           \A p \in Peer : s[p] = "TRUSTED" => p \in Roots
    PROVE  ~(Cardinality(For(vouches, s, "TRUSTED")) >= 3)
<1>1. For(vouches, s, "TRUSTED") \subseteq Roots
  <2> SUFFICES ASSUME NEW v \in vouches, atLeast(s[v.asserter], "TRUSTED")
               PROVE  v.asserter \in Roots
      BY DEF For
  <2>1. v.asserter \in Peer
      BY DEF Given
  <2>2. s[v.asserter] \in AnyLevel
      BY <2>1
  <2>3. s[v.asserter] = "TRUSTED"
      BY <2>2 DEF atLeast, trustRank, AnyLevel, Levels, Unspecified
  <2> QED BY <2>1, <2>3
<1>2. IsFiniteSet(Roots)
    BY PeersFinite, FS_Subset DEF Roots
<1>3. /\ IsFiniteSet(For(vouches, s, "TRUSTED"))
      /\ Cardinality(For(vouches, s, "TRUSTED")) <= Cardinality(Roots)
    BY <1>1, <1>2, FS_Subset
<1>4. Cardinality(Roots) \in Nat /\ Cardinality(For(vouches, s, "TRUSTED")) \in Nat
    BY <1>2, <1>3, FS_CardinalityType
<1> QED BY <1>3, <1>4

\* Deriving a level keeps a record sound.
LEMMA EvaluateSound ==
    ASSUME NEW p \in Peer, NEW r \in Draft, Sound(p, r), NEW n,
           NEW s \in [Peer -> AnyLevel],
           Cardinality(Roots) < 3 => \A q \in Peer : s[q] = "TRUSTED" => q \in Roots
    PROVE  LET level == evaluateTrust(Admin[p], r, s, n, ProbationPeriod)
           IN  /\ r.blocked /\ Admin[p] = Unspecified => level = "BLOCKED"
               /\ Cardinality(Roots) < 3 /\ level = "TRUSTED" => p \in Roots
<1> DEFINE level == evaluateTrust(Admin[p], r, s, n, ProbationPeriod)
<1>1. r.blocked /\ Admin[p] = Unspecified => level = "BLOCKED"
    BY DEF evaluateTrust
<1>2. ASSUME Cardinality(Roots) < 3, level = "TRUSTED" PROVE p \in Roots
  <2>1. CASE Admin[p] # Unspecified
      BY <1>2, <2>1 DEF evaluateTrust, Roots
  <2>2. CASE Admin[p] = Unspecified
    <3>1. r.vouches \in SUBSET Given
        BY DEF Draft
    <3>2. ~(Cardinality(For(r.vouches, s, "TRUSTED")) >= 3)
        BY <1>2, <3>1, FewTrustedAsserters
    <3>3. r.trust = "TRUSTED"
        BY <1>2, <2>2, <3>2 DEF evaluateTrust
    <3> QED BY <1>2, <3>3 DEF Sound
  <2> QED BY <2>1, <2>2
<1> QED BY <1>1, <1>2

-----------------------------------------------------------------------------
LEMMA KnownRecord ==
    ASSUME TypeOK, NEW p \in Peer, Known(p)
    PROVE  dir[p] \in Record
BY DEF TypeOK, Known

LEMMA TaskRecord ==
    ASSUME TypeOK, NEW c \in Call, task[c] # Idle
    PROVE  task[c] \in Task /\ task[c].peer \in Peer /\ task[c].record \in Record
BY DEF TypeOK, Task

LEMMA RecordIsDraft ==
    ASSUME NEW r \in Record PROVE r \in Draft
BY DEF Record, Draft, AnyLevel

LEMMA NobodyTyped == Nobody \in [Peer -> AnyLevel]
BY DEF Nobody, AnyLevel

LEMMA TrustNowTyped ==
    ASSUME TypeOK PROVE TrustNow \in [Peer -> AnyLevel]
BY KnownRecord DEF TrustNow, AnyLevel, Record

LEMMA AnnouncedDraft ==
    ASSUME TypeOK, NEW p \in Peer PROVE Announced(p) \in Draft
BY KnownRecord, RecordIsDraft, LimitsTyped
   DEF Announced, Draft, AnyLevel, Unspecified, TypeOK

LEMMA HeardRecord ==
    ASSUME TypeOK, NEW p \in Peer PROVE Heard(p) \in Record
BY KnownRecord, LimitsTyped DEF Heard, Record, Levels, TypeOK

LEMMA LevelledRecord ==
    ASSUME NEW r \in Draft, NEW level \in Levels
    PROVE  [r EXCEPT !.trust = level] \in Record
BY DEF Draft, Record

LEMMA WithVouchTyped ==
    ASSUME NEW vouches \in SUBSET Given, NEW v \in Vouch
    PROVE  WithVouch(vouches, v) \in SUBSET Given /\ v.peer \in Peer
<1>1. v \in [asserter : Peer, peer : Peer, level : AnyLevel]
    BY VouchTyped
<1> QED BY <1>1 DEF WithVouch, Given

-----------------------------------------------------------------------------
\* A call that begins with a record, or one that writes its own, keeps types.
LEMMA BeginType ==
    ASSUME TypeOK, NEW c \in Call, NEW p \in Peer, NEW r \in Record, NEW step \in Steps,
           Begin(c, p, r, step)
    PROVE  task' \in [Call -> Task \cup {Idle}]
<1>1. [step |-> step, peer |-> p, record |-> r] \in Task
    BY DEF Task
<1> QED BY <1>1 DEF Begin, TypeOK

LEMMA GotoType ==
    ASSUME TypeOK, NEW c \in Call, task[c] # Idle, NEW step \in Steps,
           Goto(c, step) \/ Return(c)
    PROVE  task' \in [Call -> Task \cup {Idle}]
<1>1. task[c] \in Task
    BY TaskRecord
<1>2. [task[c] EXCEPT !.step = step] \in Task
    BY <1>1 DEF Task
<1> QED BY <1>2 DEF Goto, Return, TypeOK

LEMMA UpsertType ==
    ASSUME TypeOK, NEW c \in Call, task[c] # Idle, NEW r \in Record, upsert(c, r)
    PROVE  dir' \in [Peer -> Record \cup {NoRecord}]
BY TaskRecord DEF upsert, TypeOK

\* The record each step of a call writes is a record.
LEMMA ForkRecord ==
    ASSUME NEW r \in Record
    PROVE  [r EXCEPT !.trust = "BLOCKED", !.blocked = TRUE] \in Record
BY DEF Record, Levels

LEMMA BreachRecord ==
    ASSUME NEW r \in Record
    PROVE  /\ [r EXCEPT !.breaches = 0, !.trust = demoteOne(@)] \in Record
           /\ ~LastStrike(r.breaches) => [r EXCEPT !.breaches = @ + 1] \in Record
<1>1. demoteOne(r.trust) \in Levels
    BY DEF demoteOne, Levels, Record
<1>2. 0 \in 0 .. QuotaBreachLimit - 1
    BY LimitsTyped
<1>3. [r EXCEPT !.breaches = 0, !.trust = demoteOne(@)] \in Record
    BY <1>1, <1>2 DEF Record
<1>4. ASSUME ~LastStrike(r.breaches) PROVE r.breaches + 1 \in 0 .. QuotaBreachLimit - 1
    BY <1>4, LimitsTyped DEF LastStrike, Record
<1>5. ~LastStrike(r.breaches) => [r EXCEPT !.breaches = @ + 1] \in Record
    BY <1>4 DEF Record
<1> QED BY <1>3, <1>5

-----------------------------------------------------------------------------
LEMMA TypeInit == Init => TypeOK
<1> SUFFICES ASSUME Init PROVE TypeOK
    OBVIOUS
<1>1. ASSUME NEW p \in Peer, p \in Configured PROVE Seed(p) \in Record
    BY <1>1, ConfigurationTyped, LimitsTyped
       DEF Seed, Record, Levels, AnyLevel, Unspecified
<1>2. dir \in [Peer -> Record \cup {NoRecord}]
    BY <1>1 DEF Init
<1>3. task \in [Call -> Task \cup {Idle}]
    BY DEF Init
<1> QED BY <1>2, <1>3, NobodyTyped, LimitsTyped DEF Init, TypeOK

LEMMA TypeStep == TypeOK /\ [Next]_vars => TypeOK'
<1> SUFFICES ASSUME TypeOK, [Next]_vars PROVE TypeOK'
    OBVIOUS
<1> USE DEF At
<1>e. \A step \in {"announce", "observe", "weigh", "vouch", "deliver", "handshake", "refresh"} :
         step \in Steps
    BY DEF Steps
<1>1. ASSUME NEW c \in Call, NEW p \in Active, AnnounceRead(c, p) PROVE TypeOK'
  <2> DEFINE r == Announced(p)
             level == evaluateTrust(Admin[p], r, standing, now, ProbationPeriod)
  <2>1. p \in Peer
      BY ConfigurationTyped
  <2>2. [r EXCEPT !.trust = level] \in Record
      BY <2>1, AnnouncedDraft, EvaluateLevel, LevelledRecord
  <2>3. Begin(c, p, [r EXCEPT !.trust = level], "announce")
      BY <1>1 DEF AnnounceRead
  <2>4. task' \in [Call -> Task \cup {Idle}]
      BY <1>e, <2>1, <2>2, <2>3, BeginType
  <2> QED BY <1>1, <2>4 DEF AnnounceRead, TypeOK
<1>2. ASSUME NEW c \in Call, AnnounceWrite(c) PROVE TypeOK'
  <2>1. task[c] # Idle /\ task[c].record \in Record
      BY <1>2, TaskRecord DEF AnnounceWrite
  <2>2. dir' \in [Peer -> Record \cup {NoRecord}]
      BY <1>2, <2>1, UpsertType DEF AnnounceWrite
  <2>3. task' \in [Call -> Task \cup {Idle}]
      BY <1>2, <1>e, <2>1, GotoType DEF AnnounceWrite
  <2> QED BY <1>2, <2>2, <2>3 DEF AnnounceWrite, TypeOK
<1>3. ASSUME NEW c \in Call, NEW p \in Active, GossipRead(c, p) PROVE TypeOK'
  <2>1. p \in Peer /\ dir[p] \in Record
      BY <1>3, ConfigurationTyped, KnownRecord DEF GossipRead
  <2>2. task' \in [Call -> Task \cup {Idle}]
      BY <1>3, <1>e, <2>1, BeginType DEF GossipRead
  <2> QED BY <1>3, <2>2 DEF GossipRead, TypeOK
<1>4. ASSUME NEW c \in Call, ObserveFits(c) PROVE TypeOK'
  <2>1. task[c] # Idle /\ task[c].peer \in Peer
      BY <1>4, TaskRecord DEF ObserveFits
  <2>2. task' \in [Call -> Task \cup {Idle}]
      BY <1>4, <1>e, <2>1, GotoType DEF ObserveFits
  <2>3. attested' \subseteq Peer
      BY <1>4, <2>1 DEF ObserveFits, TypeOK
  <2> QED BY <1>4, <2>2, <2>3 DEF ObserveFits, TypeOK
<1>5. ASSUME NEW c \in Call, ObserveFork(c) PROVE TypeOK'
  <2>1. task[c] # Idle /\ task[c].record \in Record
      BY <1>5, TaskRecord DEF ObserveFork
  <2>2. dir' \in [Peer -> Record \cup {NoRecord}]
      BY <1>5, <2>1, UpsertType, ForkRecord DEF ObserveFork
  <2>3. task' \in [Call -> Task \cup {Idle}]
      BY <1>5, <1>e, <2>1, GotoType DEF ObserveFork
  <2> QED BY <1>5, <2>2, <2>3 DEF ObserveFork, TypeOK
<1>6. ASSUME NEW c \in Call, NEW v \in Vouch, VouchRead(c, v) PROVE TypeOK'
  <2>1. v.peer \in Peer /\ dir[v.peer] \in Record
      BY <1>6, KnownRecord, ConfigurationTyped DEF VouchRead
  <2>2. WithVouch(dir[v.peer].vouches, v) \in SUBSET Given
      BY <2>1, WithVouchTyped DEF Record
  <2>3. [dir[v.peer] EXCEPT !.vouches = WithVouch(@, v)] \in Record
      BY <2>1, <2>2 DEF Record
  <2>4. task' \in [Call -> Task \cup {Idle}]
      BY <1>6, <1>e, <2>1, <2>3, BeginType DEF VouchRead
  <2> QED BY <1>6, <2>4, NobodyTyped DEF VouchRead, TypeOK
<1>7. ASSUME NEW c \in Call, VouchWeigh(c) PROVE TypeOK'
  <2> DEFINE level == evaluateTrust(Admin[task[c].peer], task[c].record, TrustNow, now,
                                    ProbationPeriod)
  <2>1. task[c] \in Task /\ task[c].peer \in Peer /\ task[c].record \in Record
      BY <1>7, TaskRecord DEF VouchWeigh
  <2>2. level \in Levels
      BY <2>1, RecordIsDraft, EvaluateLevel
  <2>3. [task[c].record EXCEPT !.trust = level] \in Record
      BY <2>1, <2>2, RecordIsDraft, LevelledRecord
  <2>4. task'[c] = [step |-> "vouch", peer |-> task[c].peer,
                    record |-> [task[c].record EXCEPT !.trust = level]]
      BY <1>7, <2>1 DEF VouchWeigh, Task, TypeOK
  <2>5. task'[c] \in Task
      BY <1>e, <2>1, <2>3, <2>4 DEF Task
  <2>6. task' \in [Call -> Task \cup {Idle}]
      BY <1>7, <2>5 DEF VouchWeigh, TypeOK
  <2> QED BY <1>7, <2>6, TrustNowTyped DEF VouchWeigh, TypeOK
<1>8. ASSUME NEW c \in Call, VouchWrite(c) PROVE TypeOK'
  <2>1. task[c] # Idle /\ task[c].record \in Record
      BY <1>8, TaskRecord DEF VouchWrite
  <2>2. dir' \in [Peer -> Record \cup {NoRecord}]
      BY <1>8, <2>1, UpsertType DEF VouchWrite
  <2>3. task' \in [Call -> Task \cup {Idle}]
      BY <1>8, <1>e, <2>1, GotoType DEF VouchWrite
  <2> QED BY <1>8, <2>2, <2>3 DEF VouchWrite, TypeOK
<1>9. ASSUME NEW c \in Call, NEW p \in Active, DeliverRead(c, p) PROVE TypeOK'
  <2>1. p \in Peer /\ dir[p] \in Record
      BY <1>9, ConfigurationTyped, KnownRecord DEF DeliverRead
  <2>2. task' \in [Call -> Task \cup {Idle}]
      BY <1>9, <1>e, <2>1, BeginType DEF DeliverRead
  <2> QED BY <1>9, <2>2 DEF DeliverRead, TypeOK
<1>10. ASSUME NEW c \in Call, DeliverInQuota(c) PROVE TypeOK'
  <2>1. task' \in [Call -> Task \cup {Idle}]
      BY <1>10, <1>e, GotoType DEF DeliverInQuota
  <2> QED BY <1>10, <2>1 DEF DeliverInQuota, TypeOK
<1>11. ASSUME NEW c \in Call, noteQuotaBreach(c) PROVE TypeOK'
  <2>1. task[c] # Idle /\ task[c].record \in Record
      BY <1>11, TaskRecord DEF noteQuotaBreach
  <2>2. dir' \in [Peer -> Record \cup {NoRecord}]
      BY <1>11, <2>1, UpsertType, BreachRecord DEF noteQuotaBreach
  <2>3. task' \in [Call -> Task \cup {Idle}]
      BY <1>11, <1>e, <2>1, GotoType DEF noteQuotaBreach
  <2> QED BY <1>11, <2>2, <2>3 DEF noteQuotaBreach, TypeOK
<1>12. ASSUME NEW c \in Call, NEW p \in Active, HandshakeRead(c, p) PROVE TypeOK'
  <2>1. p \in Peer /\ dir[p] \in Record
      BY <1>12, ConfigurationTyped, KnownRecord DEF HandshakeRead
  <2>2. task' \in [Call -> Task \cup {Idle}]
      BY <1>12, <1>e, <2>1, BeginType DEF HandshakeRead
  <2> QED BY <1>12, <2>2 DEF HandshakeRead, TypeOK
<1>13. ASSUME NEW c \in Call, HandshakeWrite(c) PROVE TypeOK'
  <2>1. task[c] # Idle /\ task[c].record \in Record
      BY <1>13, TaskRecord DEF HandshakeWrite
  <2>2. dir' \in [Peer -> Record \cup {NoRecord}]
      BY <1>13, <2>1, UpsertType DEF HandshakeWrite, TypeOK
  <2>3. task' \in [Call -> Task \cup {Idle}]
      BY <1>13, <1>e, <2>1, GotoType DEF HandshakeWrite
  <2> QED BY <1>13, <2>2, <2>3 DEF HandshakeWrite, TypeOK
<1>14. ASSUME NEW c \in Call, NEW p \in Active, RefreshRead(c, p) PROVE TypeOK'
  <2>1. p \in Peer /\ Heard(p) \in Record
      BY ConfigurationTyped, HeardRecord
  <2>2. task' \in [Call -> Task \cup {Idle}]
      BY <1>14, <1>e, <2>1, BeginType DEF RefreshRead
  <2> QED BY <1>14, <2>2 DEF RefreshRead, TypeOK
<1>15. ASSUME NEW c \in Call, RefreshWrite(c) PROVE TypeOK'
  <2>1. task[c] # Idle /\ task[c].record \in Record
      BY <1>15, TaskRecord DEF RefreshWrite
  <2>2. dir' \in [Peer -> Record \cup {NoRecord}]
      BY <1>15, <2>1, UpsertType DEF RefreshWrite
  <2>3. task' \in [Call -> Task \cup {Idle}]
      BY <1>15, <1>e, <2>1, GotoType DEF RefreshWrite
  <2> QED BY <1>15, <2>2, <2>3 DEF RefreshWrite, TypeOK
<1>16. CASE Tick
    BY <1>16 DEF Tick, TypeOK
<1>17. CASE Restart
    BY <1>17, NobodyTyped DEF Restart, TypeOK
<1>18. CASE UNCHANGED vars
    BY <1>18 DEF vars, TypeOK
<1> QED
    BY <1>1, <1>2, <1>3, <1>4, <1>5, <1>6, <1>7, <1>8, <1>9, <1>10, <1>11, <1>12, <1>13,
       <1>14, <1>15, <1>16, <1>17, <1>18 DEF Next, Unbreached

-----------------------------------------------------------------------------
\* How the two shapes of step keep RecordInv.
LEMMA BeginSound ==
    ASSUME RecordInv, NEW c \in Call, NEW p \in Peer, NEW r, NEW step, Sound(p, r),
           TypeOK, Begin(c, p, r, step), dir' = dir
    PROVE  /\ \A q \in Peer : Known(q)' => Sound(q, dir'[q])
           /\ \A b \in Call : task'[b] # Idle => Sound(task'[b].peer, task'[b].record)
<1>1. \A b \in Call : task'[b] = IF b = c THEN [step |-> step, peer |-> p, record |-> r]
                                          ELSE task[b]
    BY DEF Begin, TypeOK
<1>2. \A b \in Call : task'[b] # Idle => Sound(task'[b].peer, task'[b].record)
    BY <1>1 DEF RecordInv
<1>3. \A q \in Peer : Known(q)' => Sound(q, dir'[q])
    BY DEF RecordInv, Known
<1> QED BY <1>2, <1>3

LEMMA GotoSound ==
    ASSUME RecordInv, TypeOK, NEW c \in Call, task[c] # Idle, NEW step,
           Goto(c, step) \/ Return(c)
    PROVE  \A b \in Call : task'[b] # Idle => Sound(task'[b].peer, task'[b].record)
<1>1. task[c] \in Task
    BY TaskRecord
<1>2. CASE Goto(c, step)
  <2>1. \A b \in Call : b # c => task'[b] = task[b]
      BY <1>2 DEF Goto, TypeOK
  <2>2. task'[c].peer = task[c].peer /\ task'[c].record = task[c].record
      BY <1>1, <1>2 DEF Goto, TypeOK, Task
  <2> QED BY <2>1, <2>2 DEF RecordInv
<1>3. CASE Return(c)
    BY <1>3 DEF Return, TypeOK, RecordInv
<1> QED BY <1>2, <1>3

LEMMA UpsertSound ==
    ASSUME RecordInv, TypeOK, NEW c \in Call, task[c] # Idle,
           NEW r, Sound(task[c].peer, r), upsert(c, r)
    PROVE  \A q \in Peer : Known(q)' => Sound(q, dir'[q])
<1>1. \A q \in Peer : dir'[q] = IF q = task[c].peer THEN r ELSE dir[q]
    BY TaskRecord DEF upsert, TypeOK
<1> QED BY <1>1 DEF RecordInv, Known

LEMMA StandingRooted ==
    ASSUME RecordInv, TypeOK
    PROVE  /\ Cardinality(Roots) < 3 => \A q \in Peer : standing[q] = "TRUSTED" => q \in Roots
           /\ Cardinality(Roots) < 3 => \A q \in Peer : TrustNow[q] = "TRUSTED" => q \in Roots
           /\ \A q \in Peer : Nobody[q] # "TRUSTED"
BY DEF RecordInv, TrustNow, Nobody, Unspecified, Sound

LEMMA SoundInit == Init => RecordInv
<1> SUFFICES ASSUME Init PROVE RecordInv
    OBVIOUS
<1>1. \A p \in Peer : Known(p) => dir[p] = Seed(p)
    BY DEF Init, Known
<1>2. ASSUME NEW p \in Peer PROVE Sound(p, Seed(p))
    BY DEF Sound, Seed, Roots
<1>3. \A c \in Call : task[c] = Idle
    BY DEF Init
<1>4. \A p \in Peer : standing[p] # "TRUSTED"
    BY DEF Init, Nobody, Unspecified
<1> QED BY <1>1, <1>2, <1>3, <1>4 DEF RecordInv

LEMMA SoundStep == TypeOK /\ RecordInv /\ [Next]_vars => RecordInv'
<1> SUFFICES ASSUME TypeOK, RecordInv, [Next]_vars PROVE RecordInv'
    OBVIOUS
<1> USE DEF At
<1>s. ASSUME standing' = standing \/ standing' = Nobody \/ standing' = TrustNow
      PROVE  \A p \in Peer : Cardinality(Roots) < 3 /\ standing'[p] = "TRUSTED" => p \in Roots
    BY <1>s, StandingRooted DEF RecordInv
<1>k. ASSUME NEW p \in Peer, Known(p) PROVE Sound(p, dir[p]) /\ dir[p] \in Record
    BY <1>k, KnownRecord DEF RecordInv
<1>t. ASSUME NEW c \in Call, task[c] # Idle
      PROVE  /\ Sound(task[c].peer, task[c].record)
             /\ task[c] \in Task /\ task[c].peer \in Peer /\ task[c].record \in Record
    BY <1>t, TaskRecord DEF RecordInv
<1>r. ASSUME standing' = standing \/ standing' = Nobody \/ standing' = TrustNow,
             \A q \in Peer : Known(q)' => Sound(q, dir'[q]),
             \A b \in Call : task'[b] # Idle => Sound(task'[b].peer, task'[b].record)
      PROVE  RecordInv'
    BY <1>r, <1>s DEF RecordInv, Sound, Roots
<1>1. ASSUME NEW c \in Call, NEW p \in Active, AnnounceRead(c, p) PROVE RecordInv'
  <2> DEFINE r == Announced(p)
             level == evaluateTrust(Admin[p], r, standing, now, ProbationPeriod)
  <2>1. p \in Peer /\ r \in Draft
      BY ConfigurationTyped, AnnouncedDraft
  <2>2. Sound(p, r)
      BY <1>k, <2>1 DEF Announced, Sound, Unspecified
  <2>3. /\ r.blocked /\ Admin[p] = Unspecified => level = "BLOCKED"
        /\ Cardinality(Roots) < 3 /\ level = "TRUSTED" => p \in Roots
      BY <2>1, <2>2, EvaluateSound, StandingRooted DEF TypeOK
  <2>4. Sound(p, [r EXCEPT !.trust = level])
      BY <2>1, <2>3 DEF Sound, Draft
  <2>5. Begin(c, p, [r EXCEPT !.trust = level], "announce") /\ dir' = dir
      BY <1>1 DEF AnnounceRead
  <2>6. standing' = standing
      BY <1>1 DEF AnnounceRead
  <2> HIDE DEF r, level
  <2>7. /\ \A q \in Peer : Known(q)' => Sound(q, dir'[q])
        /\ \A b \in Call : task'[b] # Idle => Sound(task'[b].peer, task'[b].record)
      BY <2>1, <2>4, <2>5, BeginSound
  <2> QED BY <1>r, <2>6, <2>7
<1>2. ASSUME NEW c \in Call, AnnounceWrite(c) PROVE RecordInv'
    BY <1>2, <1>t, <1>r, UpsertSound, GotoSound DEF AnnounceWrite
<1>3. ASSUME NEW c \in Call, NEW p \in Active, GossipRead(c, p) PROVE RecordInv'
    BY <1>3, <1>k, <1>r, BeginSound, ConfigurationTyped DEF GossipRead
<1>4. ASSUME NEW c \in Call, ObserveFits(c) PROVE RecordInv'
    BY <1>4, <1>t, <1>r, GotoSound DEF ObserveFits, RecordInv, Known
<1>5. ASSUME NEW c \in Call, ObserveFork(c) PROVE RecordInv'
  <2> DEFINE r == [task[c].record EXCEPT !.trust = "BLOCKED", !.blocked = TRUE]
  <2>1. Sound(task[c].peer, r)
      BY <1>5, <1>t DEF Sound, ObserveFork, Record
  <2> QED BY <1>5, <1>r, <2>1, UpsertSound, GotoSound DEF ObserveFork
<1>6. ASSUME NEW c \in Call, NEW v \in Vouch, VouchRead(c, v) PROVE RecordInv'
  <2> DEFINE r == [dir[v.peer] EXCEPT !.vouches = WithVouch(@, v)]
  <2>1. v.peer \in Peer /\ Known(v.peer)
      BY <1>6, ConfigurationTyped DEF VouchRead
  <2>2. Sound(v.peer, r)
      BY <1>k, <2>1 DEF Sound, Record
  <2> QED BY <1>6, <1>r, <2>1, <2>2, BeginSound DEF VouchRead
<1>7. ASSUME NEW c \in Call, VouchWeigh(c) PROVE RecordInv'
  <2> DEFINE p == task[c].peer
             level == evaluateTrust(Admin[p], task[c].record, TrustNow, now, ProbationPeriod)
  <2>1. task[c] \in Task /\ p \in Peer /\ task[c].record \in Record /\ Sound(p, task[c].record)
      BY <1>7, <1>t DEF VouchWeigh
  <2>2. /\ task[c].record.blocked /\ Admin[p] = Unspecified => level = "BLOCKED"
        /\ Cardinality(Roots) < 3 /\ level = "TRUSTED" => p \in Roots
      BY <2>1, RecordIsDraft, EvaluateSound, StandingRooted, TrustNowTyped
  <2>3. Sound(p, [task[c].record EXCEPT !.trust = level])
      BY <2>1, <2>2 DEF Sound, Record
  <2>4. \A b \in Call : b # c => task'[b] = task[b]
      BY <1>7 DEF VouchWeigh, TypeOK
  <2>5. task'[c].peer = p /\ task'[c].record = [task[c].record EXCEPT !.trust = level]
      BY <1>7, <2>1 DEF VouchWeigh, Task, TypeOK
  <2>6. \A b \in Call : task'[b] # Idle => Sound(task'[b].peer, task'[b].record)
      BY <2>3, <2>4, <2>5 DEF RecordInv
  <2>7. \A q \in Peer : Known(q)' => Sound(q, dir'[q])
      BY <1>7 DEF VouchWeigh, RecordInv, Known
  <2> QED BY <1>7, <1>r, <2>6, <2>7 DEF VouchWeigh
<1>8. ASSUME NEW c \in Call, VouchWrite(c) PROVE RecordInv'
    BY <1>8, <1>t, <1>r, UpsertSound, GotoSound DEF VouchWrite
<1>9. ASSUME NEW c \in Call, NEW p \in Active, DeliverRead(c, p) PROVE RecordInv'
    BY <1>9, <1>k, <1>r, BeginSound, ConfigurationTyped DEF DeliverRead
<1>10. ASSUME NEW c \in Call, DeliverInQuota(c) PROVE RecordInv'
    BY <1>10, <1>t, <1>r, GotoSound DEF DeliverInQuota, RecordInv, Known
<1>11. ASSUME NEW c \in Call, noteQuotaBreach(c) PROVE RecordInv'
  <2> DEFINE r == task[c].record
  <2>1. task[c] # Idle /\ r \in Record /\ Sound(task[c].peer, r)
      BY <1>11, <1>t DEF noteQuotaBreach
  <2>2. Sound(task[c].peer, [r EXCEPT !.breaches = 0, !.trust = demoteOne(@)])
      BY <2>1 DEF Sound, Record, demoteOne
  <2>3. Sound(task[c].peer, [r EXCEPT !.breaches = @ + 1])
      BY <2>1 DEF Sound, Record
  <2> QED BY <1>11, <1>r, <2>1, <2>2, <2>3, UpsertSound, GotoSound DEF noteQuotaBreach
<1>12. ASSUME NEW c \in Call, NEW p \in Active, HandshakeRead(c, p) PROVE RecordInv'
    BY <1>12, <1>k, <1>r, BeginSound, ConfigurationTyped DEF HandshakeRead
<1>13. ASSUME NEW c \in Call, HandshakeWrite(c) PROVE RecordInv'
  <2>1. task[c] # Idle /\ Sound(task[c].peer, task[c].record) /\ standing' = standing
      BY <1>13, <1>t DEF HandshakeWrite
  <2>2. \A b \in Call : task'[b] # Idle => Sound(task'[b].peer, task'[b].record)
      BY <1>13, <2>1, GotoSound DEF HandshakeWrite
  <2>3. \A q \in Peer : Known(q)' => Sound(q, dir'[q])
      BY <1>13, <2>1, UpsertSound DEF HandshakeWrite, RecordInv, Known
  <2> QED BY <1>r, <2>1, <2>2, <2>3
<1>14. ASSUME NEW c \in Call, NEW p \in Active, RefreshRead(c, p) PROVE RecordInv'
  <2>1. p \in Peer
      BY ConfigurationTyped
  <2>2. Sound(p, Heard(p))
      BY <1>k, <2>1 DEF Heard, Sound
  <2> QED BY <1>14, <1>r, <2>1, <2>2, BeginSound DEF RefreshRead
<1>15. ASSUME NEW c \in Call, RefreshWrite(c) PROVE RecordInv'
    BY <1>15, <1>t, <1>r, UpsertSound, GotoSound DEF RefreshWrite
<1>16. CASE Tick
    BY <1>16 DEF Tick, RecordInv, Known, Sound, Roots
<1>17. CASE Restart
  <2>1. \A b \in Call : task'[b] = Idle
      BY <1>17 DEF Restart
  <2>2. \A q \in Peer : Known(q)' => Sound(q, dir'[q])
      BY <1>17 DEF Restart, RecordInv, Known
  <2> QED BY <1>17, <1>r, <2>1, <2>2 DEF Restart
<1>18. CASE UNCHANGED vars
    BY <1>18 DEF vars, RecordInv, Known, Sound, Roots
<1> QED
    BY <1>1, <1>2, <1>3, <1>4, <1>5, <1>6, <1>7, <1>8, <1>9, <1>10, <1>11, <1>12, <1>13,
       <1>14, <1>15, <1>16, <1>17, <1>18 DEF Next, Unbreached

-----------------------------------------------------------------------------
\* The directory, the vouch cache and the records calls hold are well typed;
\* in particular no level derived by evaluateTrust is the absent one.
THEOREM TypeCorrect == Spec => []TypeOK
BY TypeInit, TypeStep, PTL DEF Spec

LEMMA RecordInvariant == Spec => [](TypeOK /\ RecordInv)
<1>1. TypeOK /\ RecordInv /\ [Next]_vars => (TypeOK /\ RecordInv)'
    BY TypeStep, SoundStep
<1>2. Init => TypeOK /\ RecordInv
    BY TypeInit, SoundInit
<1> QED BY <1>1, <1>2, PTL DEF Spec

\* FD-09: a recorded fork reason and reach never coexist in one record.
THEOREM BlockedCorrect == Spec => []BlockedIsCutOff
<1>1. RecordInv => BlockedIsCutOff
    BY DEF RecordInv, Sound, BlockedIsCutOff
<1> QED BY <1>1, RecordInvariant, PTL

\* With fewer than three operator-trusted peers, vouching makes no peer
\* TRUSTED, whoever vouches for whom and however the calls interleave.
THEOREM TrustedNeedsRootsCorrect == Spec => []TrustedNeedsRoots
<1>1. RecordInv => TrustedNeedsRoots
    BY DEF RecordInv, Sound, TrustedNeedsRoots
<1> QED BY <1>1, RecordInvariant, PTL

-----------------------------------------------------------------------------
(***************************************************************************)
(* A peer that stamps its heads in the order of their sizes is never       *)
(* blocked, for every log, every number of observers and every reordering  *)
(* and repetition of its heads. Its heads form a chain: an earlier stamp   *)
(* never shows a larger tree. The verdict only compares heads of the chain.*)
(***************************************************************************)
Own == {h \in heads : h.key = "peer"}

\* The heads an honest, orderly peer has signed.
Chain ==
    /\ \A h \in Own : h.root = "honest" /\ h.size <= leaves /\ h.time <= clock
    /\ \A g, h \in Own : g.time < h.time => g.size <= h.size
    /\ \A g, h \in Own : g.time = h.time => g = h
    /\ \A s \in Signer : signing[s] # Resting =>
          signing[s] <= leaves /\ \A h \in Own : h.size <= signing[s]

\* Only heads of the chain are compared or kept.
Compared ==
    /\ ledger \in Own \cup {NoHead}
    /\ \A o \in Observer : checking[o] # Resting =>
          checking[o].head \in Own /\ checking[o].previous \in Own \cup {NoHead}

OrderlyInv == OrderlyStamps /\ lies = 0 => Chain /\ Compared /\ ~blocked

-----------------------------------------------------------------------------
LEMMA HeadsTypeStep == HeadsTypeOK /\ [HeadsNext]_headVars => HeadsTypeOK'
<1> SUFFICES ASSUME HeadsTypeOK, [HeadsNext]_headVars PROVE HeadsTypeOK'
    OBVIOUS
<1> USE DEF HeadsTypeOK
<1>1. CASE Grow
    BY <1>1 DEF Grow
<1>2. CASE ClockTick
    BY <1>2 DEF ClockTick
<1>3. ASSUME NEW s \in Signer, ReadTree(s) PROVE HeadsTypeOK'
    BY <1>3 DEF ReadTree
<1>4. ASSUME NEW s \in Signer, Stamp(s) PROVE HeadsTypeOK'
  <2>1. [key |-> "peer", size |-> signing[s], root |-> "honest", time |-> clock] \in Head
      BY <1>4 DEF Stamp, Head, Keys, TreeRoots
  <2> QED BY <1>4, <2>1 DEF Stamp
<1>5. CASE Lie
  <2>1. \A n \in 0 .. MaxSize, root \in TreeRoots :
           [key |-> "peer", size |-> n, root |-> root, time |-> clock] \in Head
      BY BoundsTyped DEF Head, Keys
  <2> QED BY <1>5, <2>1 DEF Lie
<1>6. CASE Misattribute
  <2>1. \A n \in 0 .. MaxSize :
           [key |-> "other", size |-> n, root |-> "rewritten", time |-> clock] \in Head
      BY BoundsTyped DEF Head, Keys, TreeRoots
  <2> QED BY <1>6, <2>1 DEF Misattribute
<1>7. ASSUME NEW o \in Observer, Observe(o) PROVE HeadsTypeOK'
    BY <1>7 DEF Observe
<1>8. ASSUME NEW o \in Observer, Conclude(o) PROVE HeadsTypeOK'
  <2>1. checking[o].head \in Head
      BY <1>8 DEF Conclude
  <2> QED BY <1>8, <2>1 DEF Conclude
<1>9. CASE ObserverRestart
    BY <1>9 DEF ObserverRestart
<1>10. CASE UNCHANGED headVars
    BY <1>10 DEF headVars
<1> QED
    BY <1>1, <1>2, <1>3, <1>4, <1>5, <1>6, <1>7, <1>8, <1>9, <1>10 DEF HeadsNext

\* A step that leaves the peer's own heads, the comparisons and the verdict
\* alone, and lets the log and the clock only grow, keeps the invariant.
LEMMA OrderlyFrame ==
    ASSUME HeadsTypeOK, OrderlyStamps, Chain, Compared, ~blocked,
           Own' = Own, signing' = signing, leaves' \in Nat, leaves' >= leaves,
           clock' \in Nat, clock' >= clock,
           UNCHANGED <<ledger, checking, blocked>>
    PROVE  Chain' /\ Compared' /\ ~blocked'
<1>1. \A h \in Own : h.size \in Nat /\ h.time \in Nat
    BY DEF Own, HeadsTypeOK, Head
<1>2. \A s \in Signer : signing[s] # Resting => signing[s] \in Nat
    BY DEF HeadsTypeOK
<1>3. Chain'
    BY <1>1, <1>2 DEF Chain, HeadsTypeOK
<1>4. Compared'
    BY DEF Compared
<1> QED BY <1>3, <1>4

LEMMA OrderlyStep == HeadsTypeOK /\ OrderlyInv /\ [HeadsNext]_headVars => OrderlyInv'
<1> SUFFICES ASSUME HeadsTypeOK, OrderlyInv, [HeadsNext]_headVars, OrderlyStamps, lies' = 0
             PROVE  Chain' /\ Compared' /\ ~blocked'
    BY DEF OrderlyInv, OrderlyStamps
<1>l. lies = 0 /\ ~Lie
    BY DEF HeadsNext, headVars, Grow, ClockTick, ReadTree, Stamp, Lie, Misattribute, Observe, Conclude,
           ObserverRestart, HeadsTypeOK
<1>i. Chain /\ Compared /\ ~blocked
    BY <1>l DEF OrderlyInv
<1>t. \A h \in Own : h \in Head /\ h.size \in Nat /\ h.time \in Nat
    BY DEF Own, HeadsTypeOK, Head
<1>1. CASE Grow
    BY <1>1, <1>i, OrderlyFrame DEF Grow, HeadsTypeOK, Own
<1>2. CASE ClockTick
    BY <1>2, <1>i, OrderlyFrame DEF ClockTick, HeadsTypeOK, Own
<1>3. ASSUME NEW s \in Signer, ReadTree(s) PROVE Chain' /\ Compared' /\ ~blocked'
  <2>1. Own' = Own /\ \A t \in Signer : t = s
      BY <1>3 DEF ReadTree, Own, OrderlyStamps
  <2>2. signing'[s] = leaves
      BY <1>3 DEF ReadTree, HeadsTypeOK
  <2>3. Chain'
      BY <1>3, <1>i, <1>t, <2>1, <2>2 DEF Chain, ReadTree, HeadsTypeOK
  <2> QED BY <1>3, <1>i, <2>1, <2>3 DEF Compared, ReadTree
<1>4. ASSUME NEW s \in Signer, Stamp(s) PROVE Chain' /\ Compared' /\ ~blocked'
  <2> DEFINE new == [key |-> "peer", size |-> signing[s], root |-> "honest", time |-> clock]
  <2>1. Own' = Own \cup {new}
      BY <1>4 DEF Stamp, Own
  <2>2. signing'[s] = Resting /\ \A t \in Signer : t = s
      BY <1>4 DEF Stamp, HeadsTypeOK, OrderlyStamps
  <2>3. signing[s] \in Nat /\ signing[s] <= leaves /\ \A h \in Own : h.size <= signing[s]
      BY <1>4, <1>i DEF Chain, Stamp, HeadsTypeOK
  <2>4. \A h \in Own : h.time < clock
      BY <1>4, <1>i, <1>t DEF Chain, Stamp, OrderlyStamps, Own, HeadsTypeOK
  <2>5. \A h \in Own' : h.root = "honest" /\ h.size <= leaves /\ h.time <= clock
      BY <1>i, <2>1, <2>3 DEF Chain, HeadsTypeOK
  <2>6. \A g, h \in Own' : g.time < h.time => g.size <= h.size
      BY <1>i, <1>t, <2>1, <2>3, <2>4 DEF Chain, HeadsTypeOK
  <2>7. \A g, h \in Own' : g.time = h.time => g = h
      BY <1>i, <1>t, <2>1, <2>4 DEF Chain, HeadsTypeOK
  <2>8. Chain'
      BY <1>4, <2>2, <2>5, <2>6, <2>7 DEF Chain, Stamp
  <2>9. Compared' /\ ~blocked'
      BY <1>4, <1>i, <2>1 DEF Compared, Stamp
  <2> QED BY <2>8, <2>9
<1>5. CASE Misattribute
  <2>1. Own' = Own
      BY <1>5 DEF Misattribute, Own
  <2> QED BY <1>5, <1>i, <2>1, OrderlyFrame DEF Misattribute, HeadsTypeOK
<1>6. ASSUME NEW o \in Observer, Observe(o) PROVE Chain' /\ Compared' /\ ~blocked'
  <2>1. PICK h \in heads : OwnKey(h)
                           /\ checking' = [checking EXCEPT ![o] = [head |-> h, previous |-> ledger]]
      BY <1>6 DEF Observe
  <2>2. h \in Own /\ Own' = Own
      BY <1>6, <2>1 DEF OwnKey, Own, Observe
  <2>3. Compared'
      BY <1>6, <1>i, <2>1, <2>2 DEF Compared, Observe, HeadsTypeOK
  <2>4. Chain'
      BY <1>6, <1>i, <2>2 DEF Chain, Observe
  <2> QED BY <1>6, <1>i, <2>3, <2>4 DEF Observe
<1>7. ASSUME NEW o \in Observer, Conclude(o) PROVE Chain' /\ Compared' /\ ~blocked'
  <2> DEFINE head == checking[o].head
             previous == checking[o].previous
  <2>1. head \in Own /\ previous \in Own \cup {NoHead} /\ Own' = Own
      BY <1>7, <1>i DEF Compared, Conclude, Own
  <2>2. previous # NoHead /\ ~(head.time < previous.time) =>
           ~(head.size < previous.size) /\ head.root = previous.root
      BY <1>i, <1>t, <2>1 DEF Chain
  <2>3. ~(~Stale(head, previous) /\ Contradicts(head, previous))
      BY <2>2 DEF Stale, Contradicts
  <2>4. blocked' = blocked /\ ledger' \in Own \cup {NoHead}
      BY <1>7, <1>i, <2>1, <2>3 DEF Conclude, Compared
  <2>5. \A p \in Observer : checking'[p] # Resting => p # o /\ checking'[p] = checking[p]
      BY <1>7 DEF Conclude, HeadsTypeOK
  <2>6. Compared'
      BY <1>i, <2>1, <2>4, <2>5 DEF Compared
  <2>7. Chain'
      BY <1>7, <1>i, <2>1 DEF Chain, Conclude
  <2> QED BY <1>i, <2>4, <2>6, <2>7
<1>8. CASE ObserverRestart
    BY <1>8, <1>i DEF ObserverRestart, Chain, Compared, Own
<1>9. CASE UNCHANGED headVars
    BY <1>9, <1>i DEF headVars, Chain, Compared, Own
<1> QED
    BY <1>l, <1>1, <1>2, <1>3, <1>4, <1>5, <1>6, <1>7, <1>8, <1>9 DEF HeadsNext

-----------------------------------------------------------------------------
LEMMA OrderlyInit == HeadsInit => HeadsTypeOK /\ OrderlyInv
<1> SUFFICES ASSUME HeadsInit PROVE HeadsTypeOK /\ OrderlyInv
    OBVIOUS
<1>1. HeadsTypeOK
    BY DEF HeadsInit, HeadsTypeOK
<1>2. Own = {}
    BY DEF HeadsInit, Own
<1>3. (\A s \in Signer : signing[s] = Resting) /\ (\A o \in Observer : checking[o] = Resting)
    BY DEF HeadsInit
<1>4. Chain
    BY <1>2, <1>3 DEF Chain
<1>5. Compared
    BY <1>3 DEF HeadsInit, Compared
<1> QED BY <1>1, <1>4, <1>5 DEF HeadsInit, OrderlyInv

\* The honest peer whose heads are stamped one at a time, in distinct
\* milliseconds, is never found to have forked.
THEOREM OrderlyNeverBlockedCorrect == HeadsSpec => []OrderlyNeverBlocked
<1>1. HeadsTypeOK /\ OrderlyInv /\ [HeadsNext]_headVars => (HeadsTypeOK /\ OrderlyInv)'
    BY HeadsTypeStep, OrderlyStep
<1>2. OrderlyInv => OrderlyNeverBlocked
    BY DEF OrderlyInv, OrderlyNeverBlocked
<1> QED BY <1>1, <1>2, OrderlyInit, PTL DEF HeadsSpec

-----------------------------------------------------------------------------
\* What the peer signed itself. A head of its own, once sent, stays sent.
Signed == {h \in heads : h.key = "peer"}

\* Whatever is compared or kept is a head the peer signed, and a block has two.
EvidenceInv ==
    /\ ledger \in Signed \cup {NoHead}
    /\ \A o \in Observer : checking[o] # Resting =>
          checking[o].head \in Signed /\ checking[o].previous \in Signed \cup {NoHead}
    /\ BlockedOnEvidence

LEMMA EvidenceFrame ==
    ASSUME EvidenceInv, Signed \subseteq Signed', UNCHANGED <<ledger, blocked>>,
           \A o \in Observer : checking'[o] \in {checking[o], Resting}
    PROVE  EvidenceInv'
BY DEF EvidenceInv, BlockedOnEvidence, Signed

LEMMA EvidenceStep == HeadsTypeOK /\ EvidenceInv /\ [HeadsNext]_headVars => EvidenceInv'
<1> SUFFICES ASSUME HeadsTypeOK, EvidenceInv, [HeadsNext]_headVars PROVE EvidenceInv'
    OBVIOUS
<1>1. ASSUME heads \subseteq heads', UNCHANGED <<ledger, blocked, checking>> PROVE EvidenceInv'
    BY <1>1, EvidenceFrame DEF Signed
<1>2. CASE Grow \/ ClockTick \/ Lie \/ Misattribute \/ UNCHANGED headVars
    BY <1>1, <1>2 DEF Grow, ClockTick, Lie, Misattribute, headVars
<1>3. ASSUME NEW s \in Signer, ReadTree(s) \/ Stamp(s) PROVE EvidenceInv'
    BY <1>1, <1>3 DEF ReadTree, Stamp
<1>4. CASE ObserverRestart
  <2>1. UNCHANGED <<heads, ledger, blocked>> /\ \A o \in Observer : checking'[o] = Resting
      BY <1>4 DEF ObserverRestart
  <2> QED BY <2>1, EvidenceFrame DEF Signed
<1>5. ASSUME NEW o \in Observer, Observe(o) PROVE EvidenceInv'
  <2>1. PICK h \in heads :
           OwnKey(h) /\ checking' = [checking EXCEPT ![o] = [head |-> h, previous |-> ledger]]
      BY <1>5 DEF Observe
  <2>2. h \in Signed /\ UNCHANGED <<heads, ledger, blocked>>
      BY <1>5, <2>1 DEF Observe, OwnKey, Signed
  <2> QED BY <2>1, <2>2 DEF EvidenceInv, BlockedOnEvidence, Signed, HeadsTypeOK
<1>6. ASSUME NEW o \in Observer, Conclude(o) PROVE EvidenceInv'
  <2> DEFINE head == checking[o].head
             previous == checking[o].previous
  <2>1. /\ head \in Signed /\ previous \in Signed \cup {NoHead} /\ UNCHANGED heads
        /\ checking' = [checking EXCEPT ![o] = Resting]
      BY <1>6 DEF Conclude, EvidenceInv
  <2>2. \A p \in Observer : checking'[p] \in {checking[p], Resting}
      BY <2>1 DEF HeadsTypeOK
  <2>3. CASE UNCHANGED <<ledger, blocked>>
      BY <2>1, <2>2, <2>3, EvidenceFrame DEF Signed
  <2>4. CASE ~Stale(head, previous) /\ Contradicts(head, previous) /\ UNCHANGED ledger
    <3>1. previous \in Signed /\ head \in Head /\ previous \in Head
        BY <2>1, <2>4 DEF Contradicts, Signed, HeadsTypeOK
    <3>2. head.time >= previous.time /\ ~Follows(head, previous)
        BY <2>4, <3>1, NoHeadIsNone DEF Stale, Contradicts, Follows, Head
    <3>3. BlockedOnEvidence'
        BY <2>1, <3>1, <3>2 DEF BlockedOnEvidence, Signed, Follows
    <3> QED BY <2>1, <2>2, <2>4, <3>3 DEF EvidenceInv, Signed
  <2>5. CASE ledger' = head /\ UNCHANGED blocked
      BY <2>1, <2>2, <2>5 DEF EvidenceInv, BlockedOnEvidence, Signed
  <2> QED BY <1>6, <2>3, <2>4, <2>5 DEF Conclude
<1> QED BY <1>2, <1>3, <1>4, <1>5, <1>6 DEF HeadsNext

\* A peer is blocked only on two heads that it signed itself and that no log
\* can have had one after the other, for any number of observations that
\* overlap, whatever is relayed and whatever the peer signs.
THEOREM BlockedOnEvidenceCorrect == HeadsSpec => []BlockedOnEvidence
<1>1. HeadsInit => HeadsTypeOK /\ EvidenceInv
    BY OrderlyInit DEF HeadsInit, EvidenceInv, BlockedOnEvidence
<1>2. HeadsTypeOK /\ EvidenceInv /\ [HeadsNext]_headVars => (HeadsTypeOK /\ EvidenceInv)'
    BY HeadsTypeStep, EvidenceStep
<1>3. EvidenceInv => BlockedOnEvidence
    BY DEF EvidenceInv
<1> QED BY <1>1, <1>2, <1>3, PTL DEF HeadsSpec
=============================================================================
