------------------------------ MODULE PeerTrust ------------------------------
(***************************************************************************)
(* The trust arithmetic of core/domain/federation/trust.ts: an ordered     *)
(* scale of levels, FD-16 demotion, and the level a peer's record and the  *)
(* vouches about it derive.  A vouch is a claim of one asserter; standing  *)
(* gives the trust THIS node assigns each asserter.                        *)
(***************************************************************************)
EXTENDS Naturals, FiniteSets

\* Also what an unknown asserter, an absent operator decision and an
\* absent current level are.
Unspecified == "UNSPECIFIED"
Levels == {"BLOCKED", "PROBATION", "NORMAL", "TRUSTED"}
AnyLevel == Levels \cup {Unspecified}

trustRank ==
    [BLOCKED |-> 0, UNSPECIFIED |-> 1, PROBATION |-> 2, NORMAL |-> 3, TRUSTED |-> 4]

atLeast(level, minimum) == trustRank[level] >= trustRank[minimum]

demoteOne(level) ==
    CASE level = "TRUSTED" -> "NORMAL"
      [] level = "NORMAL" -> "PROBATION"
      [] OTHER -> "BLOCKED"

AnyVouch(vouches, standing, level) ==
    {v.asserter : v \in {w \in vouches : atLeast(w.level, level)}}

\* Distinct asserters whose vouch, and whose own standing, reach a level.
For(vouches, standing, level) ==
    {v.asserter : v \in {w \in vouches :
        atLeast(w.level, level) /\ atLeast(standing[w.asserter], level)}}

Against(vouches, standing) ==
    {v.asserter : v \in {w \in vouches :
        w.level = "BLOCKED" /\ standing[w.asserter] = "TRUSTED"}}

\* Seven days at PROBATION, as the code counts them: since first sight.
Aged(record, now, period) ==
    record.trust = "PROBATION" /\ record.breaches = 0 /\ now - record.since >= period

IgnoreBlock(admin, record, standing, now, period) ==
    IF admin # Unspecified THEN admin
    ELSE IF Cardinality(Against(record.vouches, standing)) >= 2 THEN "BLOCKED"
    ELSE IF Cardinality(For(record.vouches, standing, "TRUSTED")) >= 3 THEN "TRUSTED"
    ELSE IF Cardinality(For(record.vouches, standing, "NORMAL")) >= 2 THEN "NORMAL"
    ELSE record.trust

\* The rules in the order they are tried; the first that applies decides.
evaluateTrust(admin, record, standing, now, period) ==
    IF admin # Unspecified THEN admin
    ELSE IF record.blocked THEN "BLOCKED"
    ELSE IF Cardinality(Against(record.vouches, standing)) >= 2 THEN "BLOCKED"
    ELSE IF Cardinality(For(record.vouches, standing, "TRUSTED")) >= 3 THEN "TRUSTED"
    ELSE IF Cardinality(For(record.vouches, standing, "NORMAL")) >= 2 THEN "NORMAL"
    ELSE IF record.trust = Unspecified THEN "PROBATION"
    ELSE IF Aged(record, now, period) THEN "NORMAL"
    ELSE record.trust
=============================================================================
