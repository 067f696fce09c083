---------------------------- MODULE PeerHistory ----------------------------
(***************************************************************************)
(* PeerDirectory with two history variables that no code reads: since when *)
(* a peer has been at PROBATION without a breach, and how many of its      *)
(* deliveries breached the quota since a breach last demoted it.           *)
(***************************************************************************)
EXTENDS PeerDirectory, Integers

VARIABLES clean, strikes

hvars == <<vars, clean, strikes>>

HInit ==
    /\ Init
    /\ clean = [p \in Peer |-> now]
    /\ strikes = [p \in Peer |-> 0]

AtProbation(directory, p) ==
    directory[p] # NoRecord /\ directory[p].trust = "PROBATION"

Entered(p) == AtProbation(dir', p) /\ ~AtProbation(dir, p)

HNext ==
    \/ /\ Unbreached
       /\ clean' = [p \in Peer |-> IF ~Entered(p) THEN clean[p]
                                ELSE IF Known(p) THEN now ELSE dir'[p].since]
       /\ UNCHANGED strikes
    \/ \E c \in Call :
          /\ noteQuotaBreach(c)
          /\ clean' = [clean EXCEPT ![task[c].peer] = now]
          /\ strikes' = [strikes EXCEPT ![task[c].peer] =
                            IF LastStrike(task[c].record.breaches) THEN 0 ELSE @ + 1]

HSpec == HInit /\ [][HNext]_hvars

\* trust.ts:50: "7 days at PROBATION with no quota breach promotes to
\* NORMAL". A step from PROBATION to NORMAL that neither the operator nor two
\* vouches account for comes after that many clean days at PROBATION.
PromotionIsEarned ==
    [][\A p \in Peer :
        /\ AtProbation(dir, p) /\ dir'[p].trust = "NORMAL"
        /\ Admin[p] = Unspecified
        /\ Cardinality(dir'[p].vouches) < 2
        => now - clean[p] >= ProbationPeriod]_hvars

\* trust.ts:53: FD-16, "a peer that breaches quota this many times is
\* demoted one level": the limit is never reached without the demotion.
BreachesDemote == \A p \in Peer : strikes[p] < QuotaBreachLimit
=============================================================================
