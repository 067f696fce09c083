--------------------------- MODULE PeerDirectory ---------------------------
(***************************************************************************)
(* The peer directory of one node and every operation that writes a peer's *)
(* record: announce, recordVouch, deliver's quota breach, the tree-head    *)
(* check, the outbound handshake, path outcomes and directory exchange.    *)
(* Each reads the record, awaits, and upserts the WHOLE record back, so    *)
(* operations on one peer interleave between the read and the write.       *)
(*                                                                         *)
(* A record keeps what trust depends on; endpoints, planes and names are   *)
(* left out. A signature that does not verify ends a call without a write. *)
(* Whether a tree head contradicts the ledger is decided by the peer; here *)
(* it is a choice (module TreeHeads models the comparison).                *)
(***************************************************************************)
EXTENDS PeerTrust

CONSTANTS
    Call,               \* concurrent calls, each reused when it has returned
    Peer,               \* server ids, known or not
    Configured,         \* peers in the operator's configuration
    Admin,              \* adminTrust: the configured level, or Unspecified
    Vouch,              \* the signed vouches that exist
    QuotaBreachLimit,   \* QUOTA_BREACH_LIMIT
    ProbationPeriod,    \* PROBATION_PERIOD_MS, in days
    Active,             \* bound: the peers calls are about
    MaxDay,             \* bound on the clock, in days
    NoRecord,           \* the directory has no such peer
    Idle                \* a call that has returned

Given == [asserter : Peer, level : AnyLevel]
Record == [trust : Levels, breaches : 0 .. QuotaBreachLimit - 1, blocked : BOOLEAN,
           vouches : SUBSET Given, since : Nat]

ASSUME ConfigurationTyped ==
    /\ Configured \subseteq Peer /\ Active \subseteq Peer
    /\ Admin \in [Peer -> AnyLevel]
    /\ \A p \in Peer : Admin[p] # Unspecified => p \in Configured
ASSUME PeersFinite == IsFiniteSet(Peer)
ASSUME VouchTyped == Vouch \subseteq [asserter : Peer, peer : Peer, level : AnyLevel]
ASSUME LimitsTyped ==
    QuotaBreachLimit \in Nat \ {0} /\ ProbationPeriod \in Nat /\ MaxDay \in Nat
ASSUME NoRecordIsNone == NoRecord \notin Record

VARIABLES
    dir,        \* the peers collection
    standing,   \* FederationInbox.asserterTrustCache
    now,        \* the clock, in days
    attested,   \* peers with a tree head in the ledger
    task        \* what each call is doing, with the record it holds

vars == <<dir, standing, now, attested, task>>

Steps == {"announce", "observe", "weigh", "vouch", "deliver", "handshake", "refresh"}

\* A call that has awaited: the peer it is about and the record it read, or
\* computed and has yet to write.
Task == [step : Steps, peer : Peer, record : Record]

ASSUME IdleIsNoTask == Idle \notin Task

TypeOK ==
    /\ dir \in [Peer -> Record \cup {NoRecord}]
    /\ standing \in [Peer -> AnyLevel]
    /\ now \in Nat
    /\ attested \subseteq Peer
    /\ task \in [Call -> Task \cup {Idle}]

Known(p) == dir[p] # NoRecord

\* FederationRuntime seeds the configured peers, firstSeenMs 0.
Seed(p) ==
    [trust |-> IF Admin[p] = Unspecified THEN "PROBATION" ELSE Admin[p],
     breaches |-> 0, blocked |-> FALSE, vouches |-> {}, since |-> 0]

Nobody == [p \in Peer |-> Unspecified]

\* The epoch is longer ago than the probation period.
Init ==
    /\ dir = [p \in Peer |-> IF p \in Configured THEN Seed(p) ELSE NoRecord]
    /\ standing = Nobody
    /\ now = ProbationPeriod
    /\ attested = {}
    /\ task = [c \in Call |-> Idle]

\* A call reads the directory and continues, at step, with a record.
Begin(c, p, record, step) ==
    /\ task[c] = Idle
    /\ task' = [task EXCEPT ![c] = [step |-> step, peer |-> p, record |-> record]]

At(c, step) == task[c] # Idle /\ task[c].step = step

\* PeerDirectory.upsert: the whole record, whatever the directory holds now.
upsert(c, record) == dir' = [dir EXCEPT ![task[c].peer] = record]

Goto(c, step) == task' = [task EXCEPT ![c].step = step]
Return(c) == task' = [task EXCEPT ![c] = Idle]

-----------------------------------------------------------------------------
\* FederationInbox.announce. The level is derived when the read returns,
\* from the cache recordVouch last filled.
Announced(p) ==
    IF Known(p) THEN dir[p]
    ELSE [trust |-> Unspecified, breaches |-> 0, blocked |-> FALSE, vouches |-> {}, since |-> now]

AnnounceRead(c, p) ==
    LET r == Announced(p) IN
    /\ Begin(c, p,
             [r EXCEPT !.trust = evaluateTrust(Admin[p], r, standing, now, ProbationPeriod)],
             "announce")
    /\ UNCHANGED <<dir, standing, now, attested>>

\* A handshake may carry a tree head, which observePeerSth then examines.
AnnounceWrite(c) ==
    /\ At(c, "announce")
    /\ upsert(c, task[c].record)
    /\ (Goto(c, "observe") \/ Return(c))
    /\ UNCHANGED <<standing, now, attested>>

\* gossip, exchangeTreeHeads: a head arrives about a peer just looked up.
GossipRead(c, p) ==
    /\ Known(p)
    /\ Begin(c, p, dir[p], "observe")
    /\ UNCHANGED <<dir, standing, now, attested>>

\* observePeerSth: the head is stale, or fits and is recorded, or it is a
\* fork of the head recorded before.
ObserveFits(c) ==
    /\ At(c, "observe")
    /\ attested' \in {attested, attested \cup {task[c].peer}}
    /\ Return(c)
    /\ UNCHANGED <<dir, standing, now>>

ObserveFork(c) ==
    /\ At(c, "observe")
    /\ task[c].peer \in attested
    /\ upsert(c, [task[c].record EXCEPT !.trust = "BLOCKED", !.blocked = TRUE])
    /\ Return(c)
    /\ UNCHANGED <<standing, now, attested>>

\* recordVouch: one vouch per asserter is kept, the latest. The refresh
\* clears the cache before it awaits the directory.
WithVouch(vouches, v) ==
    {w \in vouches : w.asserter # v.asserter} \cup {[asserter |-> v.asserter, level |-> v.level]}

VouchRead(c, v) ==
    /\ v.peer \in Active /\ Known(v.peer)
    /\ Begin(c, v.peer, [dir[v.peer] EXCEPT !.vouches = WithVouch(@, v)], "weigh")
    /\ standing' = Nobody
    /\ UNCHANGED <<dir, now, attested>>

TrustNow == [p \in Peer |-> IF Known(p) THEN dir[p].trust ELSE Unspecified]

VouchWeigh(c) ==
    LET p == task[c].peer IN
    /\ At(c, "weigh")
    /\ standing' = TrustNow
    /\ task' = [task EXCEPT ![c].step = "vouch", ![c].record.trust =
                  evaluateTrust(Admin[p], task[c].record, TrustNow, now, ProbationPeriod)]
    /\ UNCHANGED <<dir, now, attested>>

VouchWrite(c) ==
    /\ At(c, "vouch")
    /\ upsert(c, task[c].record)
    /\ Return(c)
    /\ UNCHANGED <<standing, now, attested>>

\* deliver: requirePeer, then the frames; the quota is breached or not.
DeliverRead(c, p) ==
    /\ Known(p)
    /\ atLeast(dir[p].trust, "PROBATION")
    /\ Begin(c, p, dir[p], "deliver")
    /\ UNCHANGED <<dir, standing, now, attested>>

DeliverInQuota(c) ==
    /\ At(c, "deliver")
    /\ Return(c)
    /\ UNCHANGED <<dir, standing, now, attested>>

OneTooLate(breaches) == breaches + 1 > QuotaBreachLimit

\* FD-16: the breach that reaches the limit demotes.
LastStrike(breaches) == breaches + 1 >= QuotaBreachLimit

noteQuotaBreach(c) ==
    LET r == task[c].record IN
    /\ At(c, "deliver")
    /\ \/ /\ LastStrike(r.breaches)
          /\ upsert(c, [r EXCEPT !.breaches = 0, !.trust = demoteOne(@)])
       \/ /\ ~LastStrike(r.breaches)
          /\ upsert(c, [r EXCEPT !.breaches = @ + 1])
    /\ Return(c)
    /\ UNCHANGED <<standing, now, attested>>

\* FederationSync.handshake: the read is the caller's, the announce call to
\* the peer lies between it and the write, and may fail.
HandshakeRead(c, p) ==
    /\ Known(p)
    /\ Begin(c, p, dir[p], "handshake")
    /\ UNCHANGED <<dir, standing, now, attested>>

HandshakeWrite(c) ==
    /\ At(c, "handshake")
    /\ \/ Return(c) /\ UNCHANGED dir
       \/ upsert(c, task[c].record) /\ (Goto(c, "observe") \/ Return(c))
    /\ UNCHANGED <<standing, now, attested>>

\* recordOutcome, exchangeDirectories and the seeding of a known peer write
\* back what they read; a peer only heard of is written at PROBATION.
Heard(p) ==
    IF Known(p) THEN dir[p]
    ELSE [trust |-> "PROBATION", breaches |-> 0, blocked |-> FALSE, vouches |-> {}, since |-> now]

RefreshRead(c, p) ==
    /\ Begin(c, p, Heard(p), "refresh")
    /\ UNCHANGED <<dir, standing, now, attested>>

RefreshWrite(c) ==
    /\ At(c, "refresh")
    /\ upsert(c, task[c].record)
    /\ Return(c)
    /\ UNCHANGED <<standing, now, attested>>

-----------------------------------------------------------------------------
Tick ==
    /\ now < MaxDay
    /\ now' = now + 1
    /\ UNCHANGED <<dir, standing, task, attested>>

\* The process restarts: pending calls and the cache are gone.
Restart ==
    /\ task' = [c \in Call |-> Idle]
    /\ standing' = Nobody
    /\ UNCHANGED <<dir, now, attested>>

\* Every step but the one that counts a breach.
Unbreached ==
    \/ \E c \in Call, p \in Active :
          AnnounceRead(c, p) \/ GossipRead(c, p) \/ DeliverRead(c, p)
          \/ HandshakeRead(c, p) \/ RefreshRead(c, p)
    \/ \E c \in Call, v \in Vouch : VouchRead(c, v)
    \/ \E c \in Call :
          AnnounceWrite(c) \/ ObserveFits(c) \/ ObserveFork(c) \/ VouchWeigh(c)
          \/ VouchWrite(c) \/ DeliverInQuota(c) \/ HandshakeWrite(c) \/ RefreshWrite(c)
    \/ Tick
    \/ Restart

Next == Unbreached \/ \E c \in Call : noteQuotaBreach(c)

Spec == Init /\ [][Next]_vars

-----------------------------------------------------------------------------
\* A recorded fork keeps the peer out (FD-09): while the reason stands, no
\* handshake, vouch, breach or stale write leaves the peer any reach, unless
\* the operator configured a level for it.
BlockedIsCutOff ==
    \A p \in Peer :
        Known(p) /\ dir[p].blocked /\ Admin[p] = Unspecified => dir[p].trust = "BLOCKED"

\* Strangers cannot bootstrap the web of trust: with fewer than three peers
\* the operator made TRUSTED, no amount of vouching among the others, in any
\* interleaving, makes one of them TRUSTED.
Roots == {p \in Peer : Admin[p] = "TRUSTED"}

TrustedNeedsRoots ==
    Cardinality(Roots) < 3 =>
        \A p \in Peer : Known(p) /\ dir[p].trust = "TRUSTED" => p \in Roots

\* federation-inbox.ts:444: "Demotion to BLOCKED is unrecoverable without an
\* operator"; trust.ts:69: "only an operator lifts it". No step of the code
\* may clear a recorded reason.
ForkBlockSticks ==
    [][\A p \in Peer : Known(p) /\ dir[p].blocked => dir'[p].blocked]_vars
=============================================================================
