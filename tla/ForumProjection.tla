-------------------------- MODULE ForumProjection --------------------------
(***************************************************************************)
(* What the Forum handlers for content answer (authorize) and write        *)
(* (project), as functions of the collections they read. Both are pure:    *)
(* authorize reads the collections before the transaction, project inside  *)
(* it, and a rebuild calls project alone.                                  *)
(*                                                                         *)
(* An envelope keeps what these functions read. Text is the envelope that  *)
(* wrote it; validation, attachments, settings, notifications and the      *)
(* wording of reasons are left out. Who belongs to and who moderates a     *)
(* community is fixed here (module Community has those handlers), and the  *)
(* two kinds of karma are added up, as authorize does.                     *)
(***************************************************************************)
EXTENDS Integers, Sequences

CONSTANTS
    Id,         \* content ids: hashes, here numbers for their order
    Key,        \* author keys
    Name,       \* community names
    Server,     \* server ids
    Member,     \* keys that may post in a community
    Moderator,  \* keys that hold post.moderate and comment.moderate
    MaxDepth,   \* MAX_DEPTH
    MinKarma,   \* minimumKarmaToPost
    None,       \* a field an envelope does not have
    NoDoc, NoVote, Unknown

ASSUME IdsTyped == Id \subseteq Nat /\ None \notin Id
ASSUME StandingTyped == Member \subseteq Key /\ Moderator \subseteq Key
ASSUME LimitsTyped == MaxDepth \in Nat /\ MinKarma \in Int

Kinds == {"community", "post", "comment", "vote", "update", "delete", "award", "verb"}
Marks == {"removed", "approved", "locked", "pinned", "flagged", "collapsed"}

\* What each moderation verb sets and clears (contentPatch).
Verbs ==
    [REMOVE |-> [set |-> {"removed"}, clear |-> {}],
     RESTORE |-> [set |-> {}, clear |-> {"removed"}],
     APPROVE |-> [set |-> {"approved"}, clear |-> {"removed"}],
     LOCK |-> [set |-> {"locked"}, clear |-> {}],
     UNLOCK |-> [set |-> {}, clear |-> {"locked"}],
     PIN |-> [set |-> {"pinned"}, clear |-> {}],
     UNPIN |-> [set |-> {}, clear |-> {"pinned"}],
     FLAG |-> [set |-> {"flagged"}, clear |-> {}],
     UNFLAG |-> [set |-> {}, clear |-> {"flagged"}],
     COLLAPSE |-> [set |-> {"collapsed"}, clear |-> {}],
     UNCOLLAPSE |-> [set |-> {}, clear |-> {"collapsed"}]]

CommunityId == Name \X Server

\* at: created_at_ms. target: the post commented on, or what is voted on,
\* edited, awarded or moderated. scope: the community a post names.
Envelope ==
    [kind : Kinds, id : Id, by : Key, at : Nat, target : Id \cup {None},
     parent : Id \cup {None}, value : {-1, 0, 1}, verb : DOMAIN Verbs \cup {None},
     scope : CommunityId \cup {None}, name : Name \cup {None}]

Doc ==
    [kind : {"post", "comment"}, by : Key, post : Id, scope : CommunityId \cup {None},
     depth : Nat, marks : SUBSET Marks, text : Id, score : Int, comments : Nat,
     replies : Nat, awards : Nat]

\* The collections: forum_posts and forum_comments, forum_votes,
\* forum_identities, forum_communities (its postCount), forum_mod_events.
Collections ==
    [docs : [Id -> Doc \cup {NoDoc}],
     votes : [Key -> [Id -> Envelope \cup {NoVote}]],
     karma : [Key -> Int],
     communities : [CommunityId -> Nat \cup {Unknown}],
     modlog : Seq(Id)]

ASSUME SentinelsAreNone == NoDoc \notin Doc /\ NoVote \notin Envelope /\ Unknown \notin Nat

Empty ==
    [docs |-> [i \in Id |-> NoDoc], votes |-> [k \in Key |-> [i \in Id |-> NoVote]],
     karma |-> [k \in Key |-> 0], communities |-> [c \in CommunityId |-> Unknown],
     modlog |-> <<>>]

KnownAs(db, i, kind) == i \in Id /\ db.docs[i] # NoDoc /\ db.docs[i].kind = kind
KnownDoc(db, i) == i \in Id /\ db.docs[i] # NoDoc
KnownCommunity(db, c) == c \in CommunityId /\ db.communities[c] # Unknown

\* The community of a post or comment, through its post.
ScopeOf(db, i) == db.docs[db.docs[i].post].scope
BelongsTo(db, k, scope) == KnownCommunity(db, scope) => k \in Member

-----------------------------------------------------------------------------
(* authorize                                                               *)

\* origin: the server a community created here would be named after.
Authorized(db, e, origin) ==
    CASE e.kind = "community" -> ~KnownCommunity(db, <<e.name, origin>>)
      [] e.kind = "post" ->
            KnownCommunity(db, e.scope) => e.by \in Member /\ db.karma[e.by] >= MinKarma
      [] e.kind = "comment" ->
            /\ KnownAs(db, e.target, "post")
            /\ BelongsTo(db, e.by, db.docs[e.target].scope)
            /\ "locked" \notin db.docs[e.target].marks
      [] e.kind \in {"vote", "award"} ->
            /\ KnownDoc(db, e.target) /\ KnownAs(db, db.docs[e.target].post, "post")
            /\ BelongsTo(db, e.by, ScopeOf(db, e.target))
      [] e.kind = "update" ->
            /\ KnownDoc(db, e.target) /\ db.docs[e.target].by = e.by
            /\ "removed" \notin db.docs[e.target].marks
      [] e.kind = "delete" -> KnownDoc(db, e.target) /\ db.docs[e.target].by = e.by
      [] e.kind = "verb" ->
            /\ KnownDoc(db, e.target) /\ e.by \in Moderator /\ KnownCommunity(db, e.scope)
            /\ e.verb \in {"PIN", "UNPIN"} => db.docs[e.target].kind = "post"
            /\ e.verb \in {"COLLAPSE", "UNCOLLAPSE"} => db.docs[e.target].kind = "comment"

-----------------------------------------------------------------------------
(* project                                                                 *)

Fresh(e, kind, post, depth) ==
    [kind |-> kind, by |-> e.by, post |-> post, scope |-> e.scope, depth |-> depth,
     marks |-> {}, text |-> e.id, score |-> 0, comments |-> 0, replies |-> 0, awards |-> 0]

\* put writes a document that is there and no other.
Patched(db, i, doc) == IF KnownDoc(db, i) THEN [db EXCEPT !.docs[i] = doc] ELSE db

ProjectPost(db, e) ==
    LET new == [db EXCEPT !.docs[e.id] = Fresh(e, "post", e.id, 0)]
    IN  IF KnownCommunity(db, e.scope) THEN [new EXCEPT !.communities[e.scope] = @ + 1] ELSE new

\* The depth and the parent's replies depend on whether the parent is known.
DepthUnder(db, parent) ==
    IF ~KnownAs(db, parent, "comment") THEN 0
    ELSE IF db.docs[parent].depth < MaxDepth THEN db.docs[parent].depth + 1 ELSE MaxDepth

ProjectComment(db, e) ==
    LET new == Fresh(e, "comment", e.target, DepthUnder(db, e.parent))
        Counted(i, doc) ==
            IF ~KnownAs(db, e.target, "post") THEN doc
            ELSE IF i = e.target THEN [doc EXCEPT !.comments = @ + 1]
            ELSE IF i = e.parent /\ KnownAs(db, i, "comment")
                 THEN [doc EXCEPT !.replies = @ + 1] ELSE doc
    IN  [db EXCEPT !.docs = [i \in Id |-> IF i = e.id THEN new ELSE Counted(i, @[i])]]

ArrivesLast(e, stored) == TRUE
LaterOnly(e, stored) == stored = NoVote \/ e.at > stored.at

\* voteSupersedes: by the author's clock, then by content id.
Supersedes(e, stored) ==
    \/ stored = NoVote
    \/ e.at > stored.at
    \/ e.at = stored.at /\ e.id > stored.id

ValueOf(vote) == IF vote = NoVote THEN 0 ELSE vote.value

Undiscounted(e, previous) == e.value
Delta(e, previous) == e.value - ValueOf(previous)

ProjectVote(db, e) ==
    LET previous == db.votes[e.by][e.target]
        delta == Delta(e, previous)
        cast == [db EXCEPT !.votes[e.by][e.target] = e]
    IN  IF ~Supersedes(e, previous) THEN db
        ELSE IF ~KnownDoc(db, e.target) THEN cast
        ELSE [cast EXCEPT !.docs[e.target].score = @ + delta,
                          !.karma[db.docs[e.target].by] = @ + delta]

PutAfresh(db, e) ==
    Patched(db, e.target, [db.docs[e.target] EXCEPT !.text = e.id, !.marks = {}])

\* An edit replaces the text, whatever its date; a delete is a tombstone.
ProjectUpdate(db, e) == Patched(db, e.target, [db.docs[e.target] EXCEPT !.text = e.id])
ProjectDelete(db, e) ==
    Patched(db, e.target, [db.docs[e.target] EXCEPT !.marks = @ \cup {"removed"}])
ProjectAward(db, e) == Patched(db, e.target, [db.docs[e.target] EXCEPT !.awards = @ + 1])

ProjectVerb(db, e) ==
    Patched([db EXCEPT !.modlog = Append(@, e.id)], e.target,
            [db.docs[e.target] EXCEPT
                !.marks = (@ \cup Verbs[e.verb].set) \ Verbs[e.verb].clear])

\* origin: the peer that delivered the envelope, or this server.
Project(db, e, origin) ==
    CASE e.kind = "community" -> [db EXCEPT !.communities[<<e.name, origin>>] = 0]
      [] e.kind = "post" -> ProjectPost(db, e)
      [] e.kind = "comment" -> ProjectComment(db, e)
      [] e.kind = "vote" -> ProjectVote(db, e)
      [] e.kind = "update" -> ProjectUpdate(db, e)
      [] e.kind = "delete" -> ProjectDelete(db, e)
      [] e.kind = "award" -> ProjectAward(db, e)
      [] e.kind = "verb" -> ProjectVerb(db, e)
=============================================================================
