---------------------------- MODULE ForumContent ----------------------------
(***************************************************************************)
(* Forum content on several nodes. Clients sign envelopes; each reaches    *)
(* each node in its own time and order, from a client or a peer. A node    *)
(* authorizes an envelope against its collections, and projects it later,  *)
(* in a transaction: others commit in between, and transactions are        *)
(* serial, for each of them writes the state of the Merkle log.            *)
(*                                                                         *)
(* A refused envelope may come again, from another peer or its client; a   *)
(* committed one does not (module Ingress). The communities exist on every *)
(* node from the start.                                                    *)
(***************************************************************************)
EXTENDS ForumProjection, FiniteSets, Functions

CONSTANTS
    Workload,   \* the sets of envelopes clients may sign
    MaxOpen     \* bound on the calls of one node

ASSUME WorkloadTyped ==
    \A work \in Workload :
        /\ IsFiniteSet(work)
        /\ \A e \in work : e \in Envelope /\ e.kind # "community"
        /\ \A e \in work : e.kind \notin {"post", "community"} => e.target \in Id
        /\ \A e \in work : e.kind = "verb" => e.verb # None
        /\ \A e, f \in work : e.id = f.id => e = f

VARIABLES
    work,   \* what the clients sign in this behaviour
    open,   \* authorized at a node and not yet committed
    done,   \* committed at a node
    db      \* the collections of each node

contentVars == <<work, open, done, db>>

Node == Server

ContentTypeOK ==
    /\ work \in Workload
    /\ open \in [Node -> SUBSET work] /\ done \in [Node -> SUBSET work]
    /\ db \in [Node -> Collections]

ContentInit ==
    /\ work \in Workload
    /\ open = [n \in Node |-> {}] /\ done = [n \in Node |-> {}]
    /\ db = [n \in Node |-> [Empty EXCEPT !.communities = [c \in CommunityId |-> 0]]]

\* A client answers only a comment some node has shown it.
SeenParent(e) == e.parent = None \/ \E n \in Node : \E f \in done[n] : f.id = e.parent

\* Step 14 of the pipeline, outside the transaction.
Accept(n, e) ==
    /\ Cardinality(open[n]) < MaxOpen
    /\ e \in work \ (open[n] \cup done[n])
    /\ SeenParent(e)
    /\ Authorized(db[n], e, n)
    /\ open' = [open EXCEPT ![n] = @ \cup {e}]
    /\ UNCHANGED <<work, done, db>>

\* Steps 16 and 17.
Apply(n, e) ==
    /\ e \in open[n]
    /\ open' = [open EXCEPT ![n] = @ \ {e}]
    /\ done' = [done EXCEPT ![n] = @ \cup {e}]
    /\ db' = [db EXCEPT ![n] = Project(@, e, n)]
    /\ UNCHANGED work

\* The process dies, or the transactions fail.
DropCalls(n) ==
    /\ open' = [open EXCEPT ![n] = {}]
    /\ UNCHANGED <<work, done, db>>

ContentNext ==
    \E n \in Node : DropCalls(n) \/ \E e \in work : Accept(n, e) \/ Apply(n, e)

ContentSpec == ContentInit /\ [][ContentNext]_contentVars

-----------------------------------------------------------------------------
Cast(n, k, i) == {e \in done[n] : e.kind = "vote" /\ e.by = k /\ e.target = i}

\* vote-cast.handler.ts:49: federation "gives no delivery-order guarantee".
\* Whatever the order in which a key's votes on one target are committed, the
\* one that stands is the latest by its author's clock, then by its id.
NewestVoteStands ==
    \A n \in Node, k \in Key, i \in Id :
        LET stored == db[n].votes[k][i] IN
        IF Cast(n, k, i) = {} THEN stored = NoVote
        ELSE /\ stored \in Cast(n, k, i)
             /\ \A e \in Cast(n, k, i) : e = stored \/ Supersedes(stored, e)

\* Who has a vote on a document, and what it says; whose documents, and what
\* they score; the comments or awards of a document.
Voters(coll, i) == {k \in Key : coll.votes[k][i] # NoVote}
VotesOn(coll, i) == [k \in Voters(coll, i) |-> coll.votes[k][i].value]
DocsBy(coll, k) == {i \in Id : coll.docs[i] # NoDoc /\ coll.docs[i].by = k}
ScoresBy(coll, k) == [i \in DocsBy(coll, k) |-> coll.docs[i].score]
Made(committed, kind, i) == {e \in committed : e.kind = kind /\ e.target = i}

\* vote-cast.handler.ts:9: the score is the sum of the votes that stand, a
\* key's karma the sum of its scores, and each count the number of what was
\* committed, through votes replaced, late or never applied.
TalliesMatch ==
    \A n \in Node :
        /\ \A i \in Id : db[n].docs[i] # NoDoc =>
              /\ db[n].docs[i].score = SumFunctionOnSet(VotesOn(db[n], i), Voters(db[n], i))
              /\ db[n].docs[i].comments = Cardinality(Made(done[n], "comment", i))
              /\ db[n].docs[i].awards = Cardinality(Made(done[n], "award", i))
        /\ \A k \in Key :
              db[n].karma[k] = SumFunctionOnSet(ScoresBy(db[n], k), DocsBy(db[n], k))

\* What every order of the same envelopes leaves alike.
OrderFree(doc) ==
    IF doc = NoDoc THEN NoDoc
    ELSE [kind |-> doc.kind, by |-> doc.by, post |-> doc.post, scope |-> doc.scope,
          score |-> doc.score, comments |-> doc.comments, awards |-> doc.awards]

\* vote-cast.handler.ts:55: "identical bytes must produce identical
\* projections everywhere". Nodes that committed the same envelopes, in any
\* two orders, agree on votes, karma, tallies, and who wrote what where.
ReplicasAgree ==
    \A n, m \in Node : done[n] = done[m] =>
        /\ db[n].votes = db[m].votes /\ db[n].karma = db[m].karma
        /\ db[n].communities = db[m].communities
        /\ \A i \in Id : OrderFree(db[n].docs[i]) = OrderFree(db[m].docs[i])

\* The same, for everything a reader of a post or comment is shown.
SameLogSameDocs ==
    \A n, m \in Node : done[n] = done[m] => db[n].docs = db[m].docs

\* post-edit.handlers.ts:56: "A removed post stays removed." What is removed
\* is shown again only by a moderator's RESTORE or APPROVE: not by an edit or
\* a vote that was authorized before, nor by anything its author does.
Removed(store, n, i) == store[n].docs[i] # NoDoc /\ "removed" \in store[n].docs[i].marks

RemovedStaysRemoved ==
    [][\A n \in Node, i \in Id : Removed(db, n, i) /\ ~Removed(db', n, i) =>
          \E e \in done'[n] \ done[n] :
              e.kind = "verb" /\ e.by \in Moderator /\ e.verb \in {"RESTORE", "APPROVE"}]_contentVars
=============================================================================
