----------------------------- MODULE ForumProofs -----------------------------
(***************************************************************************)
(* What several nodes make of the same envelopes, for every set of         *)
(* envelopes, keys and nodes.                                              *)
(***************************************************************************)
EXTENDS ForumContent, Rebuild, Sums

\* An envelope as clients sign it.
Wellformed(e) ==
    /\ e \in Envelope /\ e.kind # "community"
    /\ e.kind # "post" => e.target \in Id
    /\ e.kind = "verb" => e.verb # None

-----------------------------------------------------------------------------
\* Writing a document keeps the collections well formed.
LEMMA PatchedTyped ==
    ASSUME NEW coll \in Collections, NEW i \in Id, NEW doc \in Doc
    PROVE  /\ Patched(coll, i, doc) \in Collections
           /\ Patched(coll, i, doc).votes = coll.votes
           /\ Patched(coll, i, doc).karma = coll.karma
           /\ Patched(coll, i, doc).communities = coll.communities
           /\ Patched(coll, i, doc).docs =
                 IF coll.docs[i] # NoDoc THEN [coll.docs EXCEPT ![i] = doc] ELSE coll.docs
BY DEF Patched, KnownDoc, Collections

\* A new post or comment is a document.
LEMMA FreshTyped ==
    ASSUME NEW e \in Envelope, NEW kind \in {"post", "comment"}, NEW post \in Id, NEW depth \in Nat
    PROVE  Fresh(e, kind, post, depth) \in Doc
BY DEF Fresh, Doc, Envelope

\* Writing one collection leaves the others.
LEMMA WriteField ==
    ASSUME NEW coll \in Collections, NEW new
    PROVE  /\ [coll EXCEPT !.docs = new] =
                 [docs |-> new, votes |-> coll.votes, karma |-> coll.karma,
                  communities |-> coll.communities, modlog |-> coll.modlog]
           /\ [coll EXCEPT !.votes = new] =
                 [docs |-> coll.docs, votes |-> new, karma |-> coll.karma,
                  communities |-> coll.communities, modlog |-> coll.modlog]
           /\ [coll EXCEPT !.modlog = new] =
                 [docs |-> coll.docs, votes |-> coll.votes, karma |-> coll.karma,
                  communities |-> coll.communities, modlog |-> new]
<1> DEFINE D == [Id -> Doc \cup {NoDoc}]
           V == [Key -> [Id -> Envelope \cup {NoVote}]]
           K == [Key -> Int]
           C == [CommunityId -> Nat \cup {Unknown}]
           L == Seq(Id)
<1>1. coll \in [docs : D, votes : V, karma : K, communities : C, modlog : L]
    BY DEF Collections
<1> HIDE DEF D, V, K, C, L
<1> QED BY <1>1

\* A post adds its document, and counts in a community the node knows.
LEMMA PostTyped ==
    ASSUME NEW coll \in Collections, NEW e \in Envelope
    PROVE  /\ ProjectPost(coll, e) \in Collections
           /\ ProjectPost(coll, e).votes = coll.votes
           /\ ProjectPost(coll, e).karma = coll.karma
           /\ ProjectPost(coll, e).docs =
                 [coll.docs EXCEPT ![e.id] = Fresh(e, "post", e.id, 0)]
           /\ ProjectPost(coll, e).communities =
                 IF KnownCommunity(coll, e.scope)
                 THEN [coll.communities EXCEPT ![e.scope] = @ + 1] ELSE coll.communities
<1>1. e.id \in Id /\ Fresh(e, "post", e.id, 0) \in Doc
    BY FreshTyped DEF Envelope
<1> DEFINE counts == IF KnownCommunity(coll, e.scope)
                     THEN [coll.communities EXCEPT ![e.scope] = @ + 1] ELSE coll.communities
           new == Fresh(e, "post", e.id, 0)
           docs == [coll.docs EXCEPT ![e.id] = new]
<1>2. counts \in [CommunityId -> Nat \cup {Unknown}]
    BY DEF Collections, KnownCommunity
<1>3. docs \in [Id -> Doc \cup {NoDoc}]
    BY <1>1 DEF Collections
<1>4. [coll EXCEPT !.docs[e.id] = new] =
        [docs |-> docs, votes |-> coll.votes, karma |-> coll.karma,
         communities |-> coll.communities, modlog |-> coll.modlog]
  <2>1. [coll EXCEPT !.docs[e.id] = new] = [coll EXCEPT !.docs = docs]
      OBVIOUS
  <2> HIDE DEF docs, new
  <2> QED BY <2>1, WriteField
<1> HIDE DEF docs
<1>5. \A c, k : [[docs |-> docs, votes |-> coll.votes, karma |-> coll.karma,
                  communities |-> k, modlog |-> coll.modlog] EXCEPT !.communities[c] = @ + 1] =
                 [docs |-> docs, votes |-> coll.votes, karma |-> coll.karma,
                  communities |-> [k EXCEPT ![c] = @ + 1], modlog |-> coll.modlog]
    OBVIOUS
<1>6. ProjectPost(coll, e) =
        [docs |-> docs, votes |-> coll.votes, karma |-> coll.karma,
         communities |-> counts, modlog |-> coll.modlog]
    BY <1>4, <1>5 DEF ProjectPost
<1>7. ProjectPost(coll, e) \in Collections
    BY <1>2, <1>3, <1>6 DEF Collections
<1> QED BY <1>6, <1>7 DEF docs, counts

LEMMA CommentTyped ==
    ASSUME NEW coll \in Collections, NEW e \in Envelope, e.target \in Id
    PROVE  /\ ProjectComment(coll, e) \in Collections
           /\ ProjectComment(coll, e).votes = coll.votes
           /\ ProjectComment(coll, e).karma = coll.karma
           /\ ProjectComment(coll, e).communities = coll.communities
           /\ ProjectComment(coll, e).docs \in [Id -> Doc \cup {NoDoc}]
           /\ \E depth \in Nat :
                 ProjectComment(coll, e).docs[e.id] = Fresh(e, "comment", e.target, depth)
           /\ \A i \in Id \ {e.id} :
                 LET doc == coll.docs[i]
                     new == ProjectComment(coll, e).docs[i] IN
                 \/ ~KnownAs(coll, e.target, "post") /\ new = doc
                 \/ /\ KnownAs(coll, e.target, "post") /\ i = e.target
                    /\ new = [doc EXCEPT !.comments = @ + 1]
                 \/ KnownAs(coll, e.target, "post") /\ i # e.target /\ new = doc
                 \/ /\ KnownAs(coll, e.target, "post") /\ i # e.target
                    /\ KnownAs(coll, i, "comment")
                    /\ new = [doc EXCEPT !.replies = @ + 1]
<1> DEFINE depth == DepthUnder(coll, e.parent)
           new == Fresh(e, "comment", e.target, depth)
           Counted(i, doc) ==
            IF ~KnownAs(coll, e.target, "post") THEN doc
            ELSE IF i = e.target THEN [doc EXCEPT !.comments = @ + 1]
            ELSE IF i = e.parent /\ KnownAs(coll, i, "comment")
                 THEN [doc EXCEPT !.replies = @ + 1] ELSE doc
           docs == [i \in Id |-> IF i = e.id THEN new ELSE Counted(i, coll.docs[i])]
<1>1. depth \in Nat
    BY LimitsTyped DEF DepthUnder, KnownAs, Collections, Doc
<1>2. new \in Doc
    BY <1>1, FreshTyped
<1>3. ProjectComment(coll, e) = [coll EXCEPT !.docs = docs]
    BY DEF ProjectComment
<1>4. \A i \in Id : Counted(i, coll.docs[i]) \in Doc \cup {NoDoc}
  <2> TAKE i \in Id
  <2>1. coll.docs[i] \in Doc \cup {NoDoc}
      BY DEF Collections
  <2>2. \A doc \in Doc : [doc EXCEPT !.comments = @ + 1] \in Doc /\ [doc EXCEPT !.replies = @ + 1] \in Doc
      BY DEF Doc
  <2>3. KnownAs(coll, i, "comment") \/ KnownAs(coll, i, "post") => coll.docs[i] \in Doc
      BY <2>1 DEF KnownAs
  <2> QED BY <2>1, <2>2, <2>3
<1>5. docs \in [Id -> Doc \cup {NoDoc}]
    BY <1>2, <1>4
<1>6. e.id \in Id
    BY DEF Envelope
<1>7. /\ docs[e.id] = new
      /\ \A i \in Id \ {e.id} : docs[i] = Counted(i, coll.docs[i])
    BY <1>6
<1> HIDE DEF docs
<1>8. ProjectComment(coll, e) =
        [docs |-> docs, votes |-> coll.votes, karma |-> coll.karma,
         communities |-> coll.communities, modlog |-> coll.modlog]
    BY <1>3 DEF Collections
<1>9. ProjectComment(coll, e) \in Collections
    BY <1>5, <1>8 DEF Collections
<1>10. ProjectComment(coll, e).docs = docs
    BY <1>8
<1>11. ASSUME NEW i \in Id \ {e.id}
       PROVE  LET doc == coll.docs[i] IN
                 \/ ~KnownAs(coll, e.target, "post") /\ docs[i] = doc
                 \/ /\ KnownAs(coll, e.target, "post") /\ i = e.target
                    /\ docs[i] = [doc EXCEPT !.comments = @ + 1]
                 \/ KnownAs(coll, e.target, "post") /\ i # e.target /\ docs[i] = doc
                 \/ /\ KnownAs(coll, e.target, "post") /\ i # e.target
                    /\ KnownAs(coll, i, "comment")
                    /\ docs[i] = [doc EXCEPT !.replies = @ + 1]
  <2>1. docs[i] = Counted(i, coll.docs[i])
      BY <1>7
  <2> QED BY <2>1
<1> QED BY <1>1, <1>5, <1>7, <1>8, <1>9, <1>10, <1>11

\* A vote replaces the key's vote on its target if it supersedes it, and then
\* moves the score of a known target and its author's karma by the difference.
LEMMA VoteTyped ==
    ASSUME NEW coll \in Collections, NEW e \in Envelope, e.target \in Id
    PROVE  LET after == ProjectVote(coll, e)
               previous == coll.votes[e.by][e.target]
               delta == e.value - ValueOf(previous)
               author == coll.docs[e.target].by IN
           /\ after \in Collections
           /\ after.communities = coll.communities
           /\ delta \in Int
           /\ ~Supersedes(e, previous) => after = coll
           /\ Supersedes(e, previous) =>
                 /\ after.votes = [coll.votes EXCEPT ![e.by][e.target] = e]
                 /\ IF KnownDoc(coll, e.target)
                    THEN /\ author \in Key
                         /\ after.docs = [coll.docs EXCEPT ![e.target].score = @ + delta]
                         /\ after.karma = [coll.karma EXCEPT ![author] = @ + delta]
                    ELSE after.docs = coll.docs /\ after.karma = coll.karma
<1> DEFINE after == ProjectVote(coll, e)
           previous == coll.votes[e.by][e.target]
           delta == e.value - ValueOf(previous)
           author == coll.docs[e.target].by
           votes == [coll.votes EXCEPT ![e.by][e.target] = e]
           docs == [coll.docs EXCEPT ![e.target].score = @ + delta]
           karma == [coll.karma EXCEPT ![author] = @ + delta]
           cast == [coll EXCEPT !.votes[e.by][e.target] = e]
<1>1. e.by \in Key /\ previous \in Envelope \cup {NoVote}
    BY DEF Collections, Envelope
<1>2. delta \in Int
    BY <1>1 DEF ValueOf, Envelope
<1>3. votes \in [Key -> [Id -> Envelope \cup {NoVote}]]
    BY <1>1 DEF Collections
<1>4. cast = [docs |-> coll.docs, votes |-> votes, karma |-> coll.karma,
              communities |-> coll.communities, modlog |-> coll.modlog]
    BY WriteField
<1> HIDE DEF delta, votes, previous
<1>5. CASE ~Supersedes(e, previous)
    BY <1>2, <1>5 DEF ProjectVote, previous, delta
<1>6. CASE Supersedes(e, previous) /\ ~KnownDoc(coll, e.target)
  <2>1. after = cast
      BY <1>6 DEF ProjectVote, previous
  <2>2. after \in Collections
      BY <2>1, <1>3, <1>4 DEF Collections
  <2> HIDE DEF cast, after
  <2> QED BY <2>1, <2>2, <1>4, <1>6, <1>2 DEF after, votes, delta, previous
<1>7. CASE Supersedes(e, previous) /\ KnownDoc(coll, e.target)
  <2>1. coll.docs[e.target] \in Doc /\ author \in Key
      BY <1>7 DEF KnownDoc, Collections, Doc
  <2>2. docs \in [Id -> Doc \cup {NoDoc}] /\ karma \in [Key -> Int]
    <3>1. [coll.docs[e.target] EXCEPT !.score = @ + delta] \in Doc
        BY <2>1, <1>2 DEF Doc
    <3> QED BY <2>1, <3>1, <1>2 DEF Collections
  <2>3. after = [[cast EXCEPT !.docs[e.target].score = @ + delta]
                    EXCEPT !.karma[author] = @ + delta]
      BY <1>4, <1>7 DEF ProjectVote, previous, delta, Delta
  <2>4. after = [docs |-> docs, votes |-> votes, karma |-> karma,
                 communities |-> coll.communities, modlog |-> coll.modlog]
      BY <2>3, <1>4
  <2> HIDE DEF docs, karma, cast, after, author
  <2>5. after \in Collections
      BY <2>2, <2>4, <1>3 DEF Collections
  <2> QED BY <2>1, <2>4, <2>5, <1>7, <1>2 DEF docs, karma, votes, delta, previous, after, author
<1> QED BY <1>5, <1>6, <1>7 DEF delta, votes, previous

\* What projecting an envelope makes of the document i, was doc and is new.
Carries(e, i, doc, new) ==
    IF e.kind \in {"post", "comment"} /\ i = e.id
    THEN /\ new # NoDoc
         /\ new.kind = e.kind /\ new.by = e.by /\ new.scope = e.scope
         /\ new.post = (IF e.kind = "post" THEN e.id ELSE e.target)
         /\ new.marks = {} /\ new.score = 0 /\ new.comments = 0 /\ new.awards = 0
    ELSE IF doc = NoDoc THEN new = NoDoc
    ELSE /\ new # NoDoc
         /\ new.kind = doc.kind /\ new.by = doc.by /\ new.scope = doc.scope
         /\ new.post = doc.post
         /\ new.score = doc.score \/ (e.kind = "vote" /\ i = e.target)
         /\ new.comments = (IF e.kind = "comment" /\ i = e.target /\ doc.kind = "post"
                            THEN doc.comments + 1 ELSE doc.comments)
         /\ new.awards = (IF e.kind = "award" /\ i = e.target
                          THEN doc.awards + 1 ELSE doc.awards)
         /\ "removed" \in doc.marks /\ "removed" \notin new.marks =>
               e.kind = "verb" /\ e.verb \in {"RESTORE", "APPROVE"}

\* A document with other marks, another text or more awards.
Kept(doc, marks, text, more) ==
    [kind |-> doc.kind, by |-> doc.by, post |-> doc.post, scope |-> doc.scope,
     depth |-> doc.depth, marks |-> marks, text |-> text, score |-> doc.score,
     comments |-> doc.comments, replies |-> doc.replies, awards |-> doc.awards + more]

LEMMA KeptForms ==
    ASSUME NEW doc \in Doc, NEW new
    PROVE  /\ [doc EXCEPT !.text = new] = Kept(doc, doc.marks, new, 0)
           /\ [doc EXCEPT !.marks = new] = Kept(doc, new, doc.text, 0)
           /\ [doc EXCEPT !.awards = @ + 1] = Kept(doc, doc.marks, doc.text, 1)
           /\ doc.marks \in SUBSET Marks /\ doc.text \in Id
<1> DEFINE S == CommunityId \cup {None}
           M == SUBSET Marks
           P == {"post", "comment"}
<1>1. /\ doc \in [kind : P, by : Key, post : Id, scope : S,
                  depth : Nat, marks : M, text : Id, score : Int, comments : Nat,
                  replies : Nat, awards : Nat]
      /\ doc.awards + 0 = doc.awards
      /\ doc.marks \in SUBSET Marks /\ doc.text \in Id
    BY DEF Doc
<1> HIDE DEF S, M, P
<1>2. /\ [doc EXCEPT !.text = new] = Kept(doc, doc.marks, new, 0)
      /\ [doc EXCEPT !.awards = @ + 1] = Kept(doc, doc.marks, doc.text, 1)
    BY <1>1 DEF Kept
<1>3. [doc EXCEPT !.marks = new] = Kept(doc, new, doc.text, 0)
    BY <1>1 DEF Kept
<1> QED BY <1>1, <1>2, <1>3

\* A change to one document that keeps who wrote it, where, and its tallies.
LEMMA PatchCarries ==
    ASSUME NEW e \in Envelope, NEW coll \in Collections, NEW marks \in SUBSET Marks,
           NEW text \in Id, NEW more \in Nat, e.target \in Id,
           e.kind \in {"update", "delete", "award", "verb"},
           NEW doc, doc = coll.docs[e.target],
           more = (IF e.kind = "award" THEN 1 ELSE 0),
           doc # NoDoc =>
               ("removed" \in doc.marks /\ "removed" \notin marks =>
                   e.kind = "verb" /\ e.verb \in {"RESTORE", "APPROVE"}),
           NEW after,
           after = Patched(coll, e.target, Kept(doc, marks, text, more))
    PROVE  /\ after \in Collections
           /\ after.votes = coll.votes /\ after.karma = coll.karma
           /\ after.communities = coll.communities
           /\ \A i \in Id : Carries(e, i, coll.docs[i], after.docs[i])
<1> DEFINE new == Kept(doc, marks, text, more)
<1>0. doc \in Doc \cup {NoDoc}
    BY DEF Collections
<1>1. CASE doc = NoDoc
  <2>1. after = coll
      BY <1>1 DEF Patched, KnownDoc
  <2> QED BY <2>1, <1>1 DEF Carries, Collections
<1>2. CASE doc # NoDoc
  <2>1. doc \in Doc /\ new \in Doc
      BY <1>0, <1>2 DEF Doc, Kept
  <2>2. /\ after \in Collections
        /\ after.votes = coll.votes /\ after.karma = coll.karma
        /\ after.communities = coll.communities
        /\ after.docs = [coll.docs EXCEPT ![e.target] = new]
      BY <1>2, <2>1, PatchedTyped
  <2>3. ASSUME NEW i \in Id
        PROVE  Carries(e, i, coll.docs[i], after.docs[i])
    <3>0. DOMAIN coll.docs = Id
        BY DEF Collections
    <3>1. new # NoDoc
        BY <2>1, SentinelsAreNone
    <3>2. CASE i = e.target
      <4>1. coll.docs[i] = doc /\ after.docs[i] = new
        <5> HIDE DEF new
        <5> QED BY <2>2, <3>0, <3>2
      <4>2. /\ new.kind = doc.kind /\ new.by = doc.by /\ new.scope = doc.scope
            /\ new.post = doc.post /\ new.score = doc.score /\ new.comments = doc.comments
            /\ new.awards = doc.awards + more /\ new.marks = marks
          BY <2>1 DEF Doc, Kept
      <4>3. doc.awards \in Nat
          BY <2>1 DEF Doc
      <4> HIDE DEF new
      <4>4. new.awards = (IF e.kind = "award" /\ i = e.target THEN doc.awards + 1 ELSE doc.awards)
          BY <4>2, <4>3, <3>2
      <4>5. /\ e.kind \notin {"post", "comment"}
            /\ "removed" \in doc.marks /\ "removed" \notin new.marks =>
                  e.kind = "verb" /\ e.verb \in {"RESTORE", "APPROVE"}
          BY <1>2, <4>2
      <4> QED BY <1>2, <3>1, <4>1, <4>2, <4>4, <4>5 DEF Carries
    <3>3. CASE i # e.target
      <4>1. after.docs[i] = coll.docs[i]
        <5> HIDE DEF new
        <5> QED BY <2>2, <3>0, <3>3
      <4>2. e.kind \notin {"post", "comment"}
          OBVIOUS
      <4> HIDE DEF new
      <4> QED BY <4>1, <4>2, <3>3 DEF Carries
    <3> QED BY <3>2, <3>3
  <2> QED BY <2>2, <2>3
<1> QED BY <1>1, <1>2

LEMMA PostCarries ==
    ASSUME NEW coll \in Collections, NEW e \in Envelope, e.kind = "post"
    PROVE  \A i \in Id : Carries(e, i, coll.docs[i], ProjectPost(coll, e).docs[i])
<1> DEFINE new == Fresh(e, "post", e.id, 0)
<1>1. e.id \in Id /\ new \in Doc /\ new # NoDoc
    BY FreshTyped, SentinelsAreNone DEF Envelope
<1>2. ProjectPost(coll, e).docs = [coll.docs EXCEPT ![e.id] = new]
    BY PostTyped
<1>3. /\ new.kind = "post" /\ new.by = e.by /\ new.scope = e.scope /\ new.post = e.id
      /\ new.marks = {} /\ new.score = 0 /\ new.comments = 0 /\ new.awards = 0
    BY DEF Fresh
<1>4. DOMAIN coll.docs = Id
    BY DEF Collections
<1> HIDE DEF new
<1> TAKE i \in Id
<1>5. CASE i = e.id
    BY <1>1, <1>2, <1>3, <1>4, <1>5 DEF Carries
<1>6. CASE i # e.id
  <2>1. ProjectPost(coll, e).docs[i] = coll.docs[i]
      BY <1>2, <1>4, <1>6
  <2> QED BY <2>1, <1>6 DEF Carries
<1> QED BY <1>5, <1>6

LEMMA CommentCarries ==
    ASSUME NEW coll \in Collections, NEW e \in Envelope, e.target \in Id, e.kind = "comment"
    PROVE  \A i \in Id : Carries(e, i, coll.docs[i], ProjectComment(coll, e).docs[i])
<1> TAKE i \in Id
<1>1. CASE i = e.id
  <2>1. PICK depth \in Nat :
            ProjectComment(coll, e).docs[e.id] = Fresh(e, "comment", e.target, depth)
      BY CommentTyped
  <2> DEFINE new == Fresh(e, "comment", e.target, depth)
  <2>2. new \in Doc /\ new # NoDoc
      BY FreshTyped, SentinelsAreNone
  <2>3. /\ new.kind = "comment" /\ new.by = e.by /\ new.scope = e.scope /\ new.post = e.target
        /\ new.marks = {} /\ new.score = 0 /\ new.comments = 0 /\ new.awards = 0
      BY DEF Fresh
  <2> HIDE DEF new
  <2> QED BY <1>1, <2>1, <2>2, <2>3 DEF Carries, new
<1>2. CASE i # e.id
  <2>1. PICK doc : doc = coll.docs[i]
      OBVIOUS
  <2>2. PICK new : new = ProjectComment(coll, e).docs[i]
      OBVIOUS
  <2>3. doc \in Doc \cup {NoDoc} /\ new \in Doc \cup {NoDoc}
      BY <2>1, <2>2, CommentTyped DEF Collections
  <2>4. KnownAs(coll, e.target, "post") /\ i = e.target => doc # NoDoc /\ doc.kind = "post"
      BY <2>1 DEF KnownAs
  <2>5. KnownAs(coll, i, "comment") => doc # NoDoc
      BY <2>1 DEF KnownAs
  <2>6. ASSUME i = e.target, doc # NoDoc, doc.kind = "post"
        PROVE  KnownAs(coll, e.target, "post")
      BY <2>1, <2>6 DEF KnownAs
  <2>7. \/ new = doc /\ (i = e.target /\ doc # NoDoc => doc.kind # "post")
        \/ i = e.target /\ doc # NoDoc /\ doc.kind = "post" /\ new = [doc EXCEPT !.comments = @ + 1]
        \/ i # e.target /\ doc # NoDoc /\ new = [doc EXCEPT !.replies = @ + 1]
      BY CommentTyped, <1>2, <2>1, <2>2, <2>4, <2>5, <2>6
  <2>8. doc # NoDoc => new # NoDoc
    <3>1. ASSUME doc # NoDoc
          PROVE  /\ [doc EXCEPT !.comments = @ + 1] \in Doc
                 /\ [doc EXCEPT !.replies = @ + 1] \in Doc
        BY <2>3, <3>1 DEF Doc
    <3> QED BY <2>7, <3>1, SentinelsAreNone
  <2>9. doc # NoDoc =>
           /\ new.kind = doc.kind /\ new.by = doc.by /\ new.scope = doc.scope
           /\ new.post = doc.post /\ new.score = doc.score /\ new.marks = doc.marks
           /\ new.awards = doc.awards
           /\ new.comments = (IF i = e.target /\ doc.kind = "post"
                              THEN doc.comments + 1 ELSE doc.comments)
      BY <2>3, <2>7 DEF Doc
  <2>10. doc = NoDoc => new = NoDoc
      BY <2>7
  <2>11. Carries(e, i, doc, new)
      BY <1>2, <2>8, <2>9, <2>10 DEF Carries
  <2> QED BY <2>1, <2>2, <2>11
<1> QED BY <1>1, <1>2

LEMMA VoteCarries ==
    ASSUME NEW coll \in Collections, NEW e \in Envelope, e.target \in Id, e.kind = "vote"
    PROVE  \A i \in Id : Carries(e, i, coll.docs[i], ProjectVote(coll, e).docs[i])
<1> TAKE i \in Id
<1>1. PICK doc, new : doc = coll.docs[i] /\ new = ProjectVote(coll, e).docs[i]
    OBVIOUS
<1>2. doc \in Doc \cup {NoDoc} /\ DOMAIN coll.docs = Id
    BY <1>1 DEF Collections
<1>3. \/ new = doc
      \/ \E delta \in Int : i = e.target /\ doc # NoDoc /\ new = [doc EXCEPT !.score = @ + delta]
  <2> DEFINE delta == e.value - ValueOf(coll.votes[e.by][e.target])
  <2>1. delta \in Int
      BY VoteTyped
  <2>2. \/ ProjectVote(coll, e).docs = coll.docs
        \/ /\ KnownDoc(coll, e.target)
           /\ ProjectVote(coll, e).docs = [coll.docs EXCEPT ![e.target].score = @ + delta]
      BY VoteTyped
  <2> HIDE DEF delta
  <2> QED BY <1>1, <1>2, <2>1, <2>2 DEF KnownDoc
<1>4. ASSUME NEW delta \in Int, doc # NoDoc, new = [doc EXCEPT !.score = @ + delta]
      PROVE  /\ new # NoDoc
             /\ new.kind = doc.kind /\ new.by = doc.by /\ new.scope = doc.scope
             /\ new.post = doc.post /\ new.comments = doc.comments /\ new.marks = doc.marks
             /\ new.awards = doc.awards
  <2>1. doc \in Doc
      BY <1>2, <1>4
  <2>2. [doc EXCEPT !.score = @ + delta] \in Doc
      BY <2>1 DEF Doc
  <2> QED BY <1>4, <2>1, <2>2, SentinelsAreNone DEF Doc
<1>5. Carries(e, i, doc, new)
    BY <1>3, <1>4 DEF Carries
<1> QED BY <1>1, <1>5

LEMMA RewriteCarries ==
    ASSUME NEW coll \in Collections, NEW e \in Envelope, NEW n, e.target \in Id,
           e.kind \in {"update", "delete", "award", "verb"},
           e.kind = "verb" => e.verb # None
    PROVE  LET after == Project(coll, e, n) IN
           /\ after \in Collections
           /\ after.votes = coll.votes /\ after.karma = coll.karma
           /\ after.communities = coll.communities
           /\ \A i \in Id : Carries(e, i, coll.docs[i], after.docs[i])
<1>0. PICK doc : doc = coll.docs[e.target]
    OBVIOUS
<1>1. doc \in Doc \cup {NoDoc} /\ e.id \in Id
    BY <1>0 DEF Collections, Envelope
<1>2. ASSUME doc = NoDoc, NEW base \in Collections, base.docs = coll.docs,
             base.votes = coll.votes, base.karma = coll.karma,
             base.communities = coll.communities
      PROVE  /\ \A new : Patched(base, e.target, new) = base
             /\ \A i \in Id : Carries(e, i, coll.docs[i], base.docs[i])
  <2>1. e.kind \notin {"post", "comment", "vote"}
      OBVIOUS
  <2>2. ASSUME NEW i \in Id PROVE Carries(e, i, coll.docs[i], base.docs[i])
    <3>1. i = e.target => coll.docs[i] = NoDoc
        BY <1>0, <1>2
    <3> QED BY <1>2, <2>1, <3>1 DEF Carries
  <2> QED BY <1>0, <1>2, <2>2 DEF Patched, KnownDoc
<1>3. CASE e.kind = "update"
  <2>1. Project(coll, e, n) = Patched(coll, e.target, [doc EXCEPT !.text = e.id])
      BY <1>0, <1>3 DEF Project, ProjectUpdate
  <2>2. CASE doc = NoDoc
      BY <1>2, <2>1, <2>2
  <2>3. CASE doc # NoDoc
    <3>1. doc \in Doc
        BY <1>1, <2>3
    <3>2. PICK marks \in SUBSET Marks, text \in Id, more \in Nat :
             marks = doc.marks /\ text = e.id /\ more = 0
        BY <1>1, <3>1, KeptForms DEF Marks
    <3>3. "removed" \in doc.marks /\ "removed" \notin marks =>
              e.kind = "verb" /\ e.verb \in {"RESTORE", "APPROVE"}
        BY <3>2
    <3>4. Project(coll, e, n) = Patched(coll, e.target, Kept(doc, marks, text, more))
        BY <2>1, <3>1, <3>2, KeptForms
    <3>5. PICK after : after = Project(coll, e, n)
        OBVIOUS
    <3>6. more = (IF e.kind = "award" THEN 1 ELSE 0)
        BY <3>2, <1>3
    <3>7. e.kind \in {"update", "delete", "award", "verb"} /\ doc = coll.docs[e.target]
        BY <1>0, <1>3
    <3>8. PICK base \in Collections :
             base = coll /\ after = Patched(base, e.target, Kept(doc, marks, text, more))
        BY <3>4, <3>5
    <3>9. /\ after \in Collections
          /\ after.votes = base.votes /\ after.karma = base.karma
          /\ after.communities = base.communities
          /\ \A i \in Id : Carries(e, i, base.docs[i], after.docs[i])
        BY <3>3, <3>6, <3>7, <3>8, PatchCarries
    <3> QED BY <3>5, <3>8, <3>9
  <2> QED BY <2>2, <2>3
<1>4. CASE e.kind = "delete"
  <2>1. Project(coll, e, n) = Patched(coll, e.target, [doc EXCEPT !.marks = @ \cup {"removed"}])
      BY <1>0, <1>4 DEF Project, ProjectDelete
  <2>2. CASE doc = NoDoc
      BY <1>2, <2>1, <2>2
  <2>3. CASE doc # NoDoc
    <3>1. doc \in Doc
        BY <1>1, <2>3
    <3>2. PICK marks \in SUBSET Marks, text \in Id, more \in Nat :
             marks = doc.marks \cup {"removed"} /\ text = doc.text /\ more = 0
        BY <1>1, <3>1, KeptForms DEF Marks
    <3>3. "removed" \in doc.marks /\ "removed" \notin marks =>
              e.kind = "verb" /\ e.verb \in {"RESTORE", "APPROVE"}
        BY <3>2
    <3>4. Project(coll, e, n) = Patched(coll, e.target, Kept(doc, marks, text, more))
        BY <2>1, <3>1, <3>2, KeptForms
    <3>5. PICK after : after = Project(coll, e, n)
        OBVIOUS
    <3>6. more = (IF e.kind = "award" THEN 1 ELSE 0)
        BY <3>2, <1>4
    <3>7. e.kind \in {"update", "delete", "award", "verb"} /\ doc = coll.docs[e.target]
        BY <1>0, <1>4
    <3>8. PICK base \in Collections :
             base = coll /\ after = Patched(base, e.target, Kept(doc, marks, text, more))
        BY <3>4, <3>5
    <3>9. /\ after \in Collections
          /\ after.votes = base.votes /\ after.karma = base.karma
          /\ after.communities = base.communities
          /\ \A i \in Id : Carries(e, i, base.docs[i], after.docs[i])
        BY <3>3, <3>6, <3>7, <3>8, PatchCarries
    <3> QED BY <3>5, <3>8, <3>9
  <2> QED BY <2>2, <2>3
<1>5. CASE e.kind = "award"
  <2>1. Project(coll, e, n) = Patched(coll, e.target, [doc EXCEPT !.awards = @ + 1])
      BY <1>0, <1>5 DEF Project, ProjectAward
  <2>2. CASE doc = NoDoc
      BY <1>2, <2>1, <2>2
  <2>3. CASE doc # NoDoc
    <3>1. doc \in Doc
        BY <1>1, <2>3
    <3>2. PICK marks \in SUBSET Marks, text \in Id, more \in Nat :
             marks = doc.marks /\ text = doc.text /\ more = 1
        BY <1>1, <3>1, KeptForms DEF Marks
    <3>3. "removed" \in doc.marks /\ "removed" \notin marks =>
              e.kind = "verb" /\ e.verb \in {"RESTORE", "APPROVE"}
        BY <3>2
    <3>4. Project(coll, e, n) = Patched(coll, e.target, Kept(doc, marks, text, more))
        BY <2>1, <3>1, <3>2, KeptForms
    <3>5. PICK after : after = Project(coll, e, n)
        OBVIOUS
    <3>6. more = (IF e.kind = "award" THEN 1 ELSE 0)
        BY <3>2, <1>5
    <3>7. e.kind \in {"update", "delete", "award", "verb"} /\ doc = coll.docs[e.target]
        BY <1>0, <1>5
    <3>8. PICK base \in Collections :
             base = coll /\ after = Patched(base, e.target, Kept(doc, marks, text, more))
        BY <3>4, <3>5
    <3>9. /\ after \in Collections
          /\ after.votes = base.votes /\ after.karma = base.karma
          /\ after.communities = base.communities
          /\ \A i \in Id : Carries(e, i, base.docs[i], after.docs[i])
        BY <3>3, <3>6, <3>7, <3>8, PatchCarries
    <3> QED BY <3>5, <3>8, <3>9
  <2> QED BY <2>2, <2>3
<1>6. CASE e.kind = "verb"
  <2> DEFINE base == [coll EXCEPT !.modlog = Append(@, e.id)]
  <2>0. /\ base \in Collections /\ base.docs = coll.docs /\ base.votes = coll.votes
        /\ base.karma = coll.karma /\ base.communities = coll.communities
    <3>1. Append(coll.modlog, e.id) \in Seq(Id)
        BY <1>1 DEF Collections
    <3> QED BY <3>1, WriteField DEF Collections
  <2>00. Verbs[e.verb].set \in SUBSET Marks /\ Verbs[e.verb].clear \in SUBSET Marks
      BY <1>6 DEF Verbs, Marks, Envelope
  <2>01. "removed" \in Verbs[e.verb].clear => e.verb \in {"RESTORE", "APPROVE"}
      BY <1>6 DEF Verbs, Envelope
  <2> HIDE DEF base
  <2>1. Project(coll, e, n) = Patched(base, e.target, [doc EXCEPT !.marks = (@ \cup Verbs[e.verb].set) \ Verbs[e.verb].clear])
      BY <1>0, <1>6 DEF Project, ProjectVerb, base
  <2>2. CASE doc = NoDoc
      BY <1>2, <2>1, <2>2, <2>0
  <2>3. CASE doc # NoDoc
    <3>1. doc \in Doc
        BY <1>1, <2>3
    <3>2. PICK marks \in SUBSET Marks, text \in Id, more \in Nat :
             marks = (doc.marks \cup Verbs[e.verb].set) \ Verbs[e.verb].clear /\ text = doc.text /\ more = 0
        BY <1>1, <3>1, KeptForms, <2>00 DEF Marks
    <3>3. "removed" \in doc.marks /\ "removed" \notin marks =>
              e.kind = "verb" /\ e.verb \in {"RESTORE", "APPROVE"}
        BY <3>2, <2>01, <1>6
    <3>4. Project(coll, e, n) = Patched(base, e.target, Kept(doc, marks, text, more))
        BY <2>1, <3>1, <3>2, KeptForms
    <3>5. PICK after : after = Project(coll, e, n)
        OBVIOUS
    <3>6. more = (IF e.kind = "award" THEN 1 ELSE 0)
        BY <3>2, <1>6
    <3> QED BY <1>0, <1>1, <1>6, <2>0, <3>3, <3>4, <3>5, <3>6, PatchCarries
  <2> QED BY <2>2, <2>3
<1> QED BY <1>3, <1>4, <1>5, <1>6

\* Whatever is projected leaves the collections well formed, and each
\* document what it was but for what its kind of envelope changes.
LEMMA ProjectHolds ==
    ASSUME NEW coll \in Collections, NEW e, Wellformed(e), NEW n
    PROVE  LET after == Project(coll, e, n) IN
           /\ after \in Collections
           /\ e.kind # "vote" => after.votes = coll.votes /\ after.karma = coll.karma
           /\ e.kind # "post" => after.communities = coll.communities
           /\ \A i \in Id : Carries(e, i, coll.docs[i], after.docs[i])
<1>1. /\ e \in Envelope /\ e.kind \in Kinds \ {"community"}
      /\ e.kind # "post" => e.target \in Id
      /\ e.kind = "verb" => e.verb # None
    BY DEF Wellformed, Envelope
<1>2. CASE e.kind = "post"
  <2>1. Project(coll, e, n) = ProjectPost(coll, e)
      BY <1>2 DEF Project
  <2>2. PICK after : after = ProjectPost(coll, e)
      OBVIOUS
  <2>3. after \in Collections /\ after.votes = coll.votes /\ after.karma = coll.karma
      BY <1>1, <2>2, PostTyped
  <2>4. \A i \in Id : Carries(e, i, coll.docs[i], after.docs[i])
      BY <1>1, <1>2, <2>2, PostCarries
  <2> QED BY <1>2, <2>1, <2>2, <2>3, <2>4
<1>3. CASE e.kind = "comment"
  <2>1. Project(coll, e, n) = ProjectComment(coll, e)
      BY <1>3 DEF Project
  <2> QED BY <1>1, <1>3, <2>1, CommentTyped, CommentCarries
<1>4. CASE e.kind = "vote"
  <2>1. Project(coll, e, n) = ProjectVote(coll, e)
      BY <1>4 DEF Project
  <2> QED BY <1>1, <1>4, <2>1, VoteTyped, VoteCarries
<1>5. CASE e.kind \in {"update", "delete", "award", "verb"}
  <2> HIDE DEF Project
  <2> QED BY <1>1, <1>5, RewriteCarries
<1> QED BY <1>1, <1>2, <1>3, <1>4, <1>5 DEF Kinds

-----------------------------------------------------------------------------
(* Every step.                                                             *)

\* What is signed is well formed.
LEMMA WorkWellformed ==
    ASSUME ContentTypeOK, NEW e \in work
    PROVE  Wellformed(e)
BY WorkloadTyped DEF ContentTypeOK, Wellformed, Envelope, Kinds

\* A commit changes one node.
LEMMA ApplyShape ==
    ASSUME ContentTypeOK, NEW n \in Node, NEW e \in work, Apply(n, e)
    PROVE  /\ e \in open[n] /\ db[n] \in Collections /\ Wellformed(e)
           /\ open'[n] = open[n] \ {e} /\ done'[n] = done[n] \cup {e}
           /\ db'[n] = Project(db[n], e, n) /\ db'[n] \in Collections
           /\ \A m \in Node \ {n} : open'[m] = open[m] /\ done'[m] = done[m] /\ db'[m] = db[m]
           /\ work' = work /\ ContentTypeOK'
<1>1. /\ e \in open[n] /\ db[n] \in Collections /\ Wellformed(e)
      /\ open[n] \subseteq work /\ done[n] \subseteq work
    BY WorkWellformed DEF ContentTypeOK, Apply
<1>2. Project(db[n], e, n) \in Collections
  <2>1. PICK coll \in Collections : coll = db[n]
      BY <1>1
  <2> QED BY <1>1, <2>1, ProjectHolds
<1>3. /\ open' = [open EXCEPT ![n] = @ \ {e}] /\ done' = [done EXCEPT ![n] = @ \cup {e}]
      /\ db' = [db EXCEPT ![n] = Project(@, e, n)] /\ work' = work
    BY DEF Apply
<1>4. PICK after : after = Project(db[n], e, n)
    OBVIOUS
<1>5. db' = [db EXCEPT ![n] = after]
    BY <1>3, <1>4
<1>6. ContentTypeOK'
    BY <1>1, <1>2, <1>3, <1>4, <1>5 DEF ContentTypeOK
<1> QED BY <1>1, <1>2, <1>3, <1>4, <1>5, <1>6 DEF ContentTypeOK

\* Accepting or dropping a call changes what is open, and nothing else.
LEMMA OtherShape ==
    ASSUME ContentTypeOK, NEW n \in Node,
           DropCalls(n) \/ \E e \in work : Accept(n, e)
    PROVE  /\ ContentTypeOK'
           /\ work' = work /\ done' = done /\ db' = db
           /\ \A m \in Node : \A f \in open'[m] :
                 \/ f \in open[m]
                 \/ m = n /\ f \in work \ done[n] /\ Authorized(db[n], f, n)
<1>1. CASE DropCalls(n)
    BY <1>1 DEF DropCalls, ContentTypeOK
<1>2. CASE \E e \in work : Accept(n, e)
  <2>1. PICK e \in work : Accept(n, e)
      BY <1>2
  <2>2. /\ open' = [open EXCEPT ![n] = @ \cup {e}] /\ work' = work /\ done' = done /\ db' = db
        /\ e \notin done[n] /\ Authorized(db[n], e, n)
      BY <2>1 DEF Accept
  <2> QED BY <2>2 DEF ContentTypeOK
<1> QED BY <1>1, <1>2

LEMMA EmptyTyped ==
    /\ Empty \in Collections
    /\ [Empty EXCEPT !.communities = [c \in CommunityId |-> 0]] =
          [docs |-> [i \in Id |-> NoDoc], votes |-> [k \in Key |-> [i \in Id |-> NoVote]],
           karma |-> [k \in Key |-> 0], communities |-> [c \in CommunityId |-> 0],
           modlog |-> <<>>]
<1>1. <<>> \in Seq(Id)
    OBVIOUS
<1> QED BY <1>1 DEF Empty, Collections

LEMMA ContentInitTyped == ContentInit => ContentTypeOK
<1> SUFFICES ASSUME ContentInit PROVE ContentTypeOK
    OBVIOUS
<1> DEFINE first == [Empty EXCEPT !.communities = [c \in CommunityId |-> 0]]
<1>1. first \in Collections
    BY EmptyTyped DEF Collections
<1> HIDE DEF first
<1>2. db = [n \in Node |-> first]
    BY DEF ContentInit, first
<1> QED BY <1>1, <1>2 DEF ContentInit, ContentTypeOK

LEMMA ContentStepTyped == ContentTypeOK /\ [ContentNext]_contentVars => ContentTypeOK'
<1> SUFFICES ASSUME ContentTypeOK, [ContentNext]_contentVars PROVE ContentTypeOK'
    OBVIOUS
<1>1. CASE UNCHANGED contentVars
    BY <1>1 DEF contentVars, ContentTypeOK
<1>2. ASSUME NEW n \in Node, DropCalls(n) \/ \E e \in work : Accept(n, e) PROVE ContentTypeOK'
    BY <1>2, OtherShape
<1>3. ASSUME NEW n \in Node, NEW e \in work, Apply(n, e) PROVE ContentTypeOK'
    BY <1>3, ApplyShape
<1> QED BY <1>1, <1>2, <1>3 DEF ContentNext

\* The collections of every node are well formed, in every order of commits.
THEOREM ContentTypeCorrect == ContentSpec => []ContentTypeOK
BY ContentInitTyped, ContentStepTyped, PTL DEF ContentSpec

-----------------------------------------------------------------------------
(* Who wrote what, and where.                                              *)

Writes(e) == e.kind \in {"post", "comment"}

Tells(e, doc) ==
    /\ doc.kind = e.kind /\ doc.by = e.by /\ doc.scope = e.scope
    /\ doc.post = (IF e.kind = "post" THEN e.id ELSE e.target)

\* What was authorized is still in order: a target that was there stays.
Aimed ==
    \A n \in Node :
        /\ open[n] \cap done[n] = {}
        /\ \A e \in open[n] :
              /\ e.kind = "comment" => KnownAs(db[n], e.target, "post")
              /\ e.kind \in {"vote", "award"} => KnownDoc(db[n], e.target)
              /\ e.kind = "verb" => e.by \in Moderator

\* The documents are those that were committed.
Written ==
    \A n \in Node, i \in Id :
        /\ db[n].docs[i] # NoDoc =>
              \E e \in done[n] : e.id = i /\ Writes(e) /\ Tells(e, db[n].docs[i])
        /\ \A e \in done[n] : Writes(e) /\ e.id = i => db[n].docs[i] # NoDoc

DocsInv == ContentTypeOK /\ Aimed /\ Written

\* No two envelopes have one id.
LEMMA OneId ==
    ASSUME ContentTypeOK, NEW e \in work, NEW f \in work, e.id = f.id
    PROVE  e = f
BY WorkloadTyped DEF ContentTypeOK

\* What is being committed has no document yet.
LEMMA NotYetWritten ==
    ASSUME DocsInv, NEW n \in Node, NEW e \in open[n]
    PROVE  db[n].docs[e.id] = NoDoc /\ e \notin done[n]
<1>1. e \in work /\ done[n] \subseteq work /\ e \notin done[n] /\ e.id \in Id
    BY WorkWellformed DEF DocsInv, ContentTypeOK, Aimed, Wellformed, Envelope
<1>2. \A f \in done[n] : f.id # e.id
    BY <1>1, OneId DEF DocsInv
<1> QED BY <1>1, <1>2 DEF DocsInv, Written

\* A document that is there stays the document of its author.
LEMMA ApplyKeepsDocs ==
    ASSUME DocsInv, NEW n \in Node, NEW e \in work, Apply(n, e), NEW i \in Id
    PROVE  /\ Carries(e, i, db[n].docs[i], db'[n].docs[i])
           /\ Writes(e) => e.id \in Id /\ db[n].docs[e.id] = NoDoc
           /\ db[n].docs[i] # NoDoc =>
                 /\ db'[n].docs[i] # NoDoc
                 /\ db'[n].docs[i].kind = db[n].docs[i].kind
                 /\ db'[n].docs[i].by = db[n].docs[i].by
                 /\ db'[n].docs[i].scope = db[n].docs[i].scope
                 /\ db'[n].docs[i].post = db[n].docs[i].post
<1>1. /\ e \in open[n] /\ db[n] \in Collections /\ Wellformed(e)
      /\ db'[n] = Project(db[n], e, n) /\ db'[n] \in Collections
    BY ApplyShape DEF DocsInv
<1>2. PICK before \in Collections, after \in Collections :
          before = db[n] /\ after = Project(before, e, n) /\ after = db'[n]
    BY <1>1
<1>3. Carries(e, i, before.docs[i], after.docs[i])
    BY <1>1, <1>2, ProjectHolds
<1>4. db[n].docs[e.id] = NoDoc /\ e.id \in Id
    BY <1>1, NotYetWritten DEF Wellformed, Envelope
<1> QED BY <1>2, <1>3, <1>4 DEF Carries, Writes

LEMMA DocsInit == ContentInit => DocsInv
<1> SUFFICES ASSUME ContentInit PROVE DocsInv
    OBVIOUS
<1>1. \A n \in Node : open[n] = {} /\ done[n] = {} /\ db[n].docs = [i \in Id |-> NoDoc]
    BY EmptyTyped DEF ContentInit
<1> QED BY <1>1, ContentInitTyped DEF DocsInv, Aimed, Written

LEMMA DocsApply ==
    ASSUME DocsInv, NEW n \in Node, NEW e \in work, Apply(n, e)
    PROVE  DocsInv'
<1>1. /\ e \in open[n] /\ open'[n] = open[n] \ {e} /\ done'[n] = done[n] \cup {e}
      /\ \A m \in Node \ {n} : open'[m] = open[m] /\ done'[m] = done[m] /\ db'[m] = db[m]
      /\ ContentTypeOK'
    BY ApplyShape DEF DocsInv
<1>2. ASSUME NEW i \in Id
      PROVE  /\ KnownDoc(db[n], i) => KnownDoc(db'[n], i)
             /\ KnownAs(db[n], i, "post") => KnownAs(db'[n], i, "post")
    BY ApplyKeepsDocs DEF KnownDoc, KnownAs
<1>3. Aimed'
  <2> SUFFICES ASSUME NEW m \in Node
               PROVE  /\ open'[m] \cap done'[m] = {}
                      /\ \A f \in open'[m] :
                            /\ f.kind = "comment" => KnownAs(db'[m], f.target, "post")
                            /\ f.kind \in {"vote", "award"} => KnownDoc(db'[m], f.target)
                            /\ f.kind = "verb" => f.by \in Moderator
      BY DEF Aimed
  <2>1. CASE m # n
      BY <1>1, <2>1 DEF DocsInv, Aimed
  <2>2. CASE m = n
    <3>1. \A f \in open[n] :
             /\ f.kind = "comment" => KnownAs(db[n], f.target, "post") /\ f.target \in Id
             /\ f.kind \in {"vote", "award"} => KnownDoc(db[n], f.target) /\ f.target \in Id
             /\ f.kind = "verb" => f.by \in Moderator
        BY DEF DocsInv, Aimed, KnownAs, KnownDoc
    <3> QED BY <1>1, <1>2, <2>2, <3>1 DEF DocsInv, Aimed
  <2> QED BY <2>1, <2>2
<1>4. Written'
  <2> SUFFICES ASSUME NEW m \in Node, NEW i \in Id
               PROVE  /\ db'[m].docs[i] # NoDoc =>
                            \E f \in done'[m] : f.id = i /\ Writes(f) /\ Tells(f, db'[m].docs[i])
                      /\ \A f \in done'[m] : Writes(f) /\ f.id = i => db'[m].docs[i] # NoDoc
      BY DEF Written
  <2>1. CASE m # n
      BY <1>1, <2>1 DEF DocsInv, Written
  <2>2. CASE m = n
    <3>1. CASE Writes(e) /\ i = e.id
      <4>1. db'[n].docs[i] # NoDoc /\ Tells(e, db'[n].docs[i])
          BY <3>1, ApplyKeepsDocs DEF Carries, Writes, Tells
      <4> QED BY <1>1, <2>2, <3>1, <4>1
    <3>2. CASE ~(Writes(e) /\ i = e.id)
      <4>1. db[n].docs[i] = NoDoc => db'[n].docs[i] = NoDoc
          BY <3>2, ApplyKeepsDocs DEF Carries, Writes
      <4>2. db[n].docs[i] # NoDoc =>
                \E f \in done[n] : f.id = i /\ Writes(f) /\ Tells(f, db[n].docs[i])
          BY DEF DocsInv, Written
      <4>3. db[n].docs[i] # NoDoc =>
                \E f \in done[n] : f.id = i /\ Writes(f) /\ Tells(f, db'[n].docs[i])
          BY <4>2, ApplyKeepsDocs DEF Tells
      <4>4. \A f \in done[n] : Writes(f) /\ f.id = i => db[n].docs[i] # NoDoc
          BY DEF DocsInv, Written
      <4> QED BY <1>1, <2>2, <3>2, <4>1, <4>3, <4>4, ApplyKeepsDocs
    <3> QED BY <3>1, <3>2
  <2> QED BY <2>1, <2>2
<1> QED BY <1>1, <1>3, <1>4 DEF DocsInv

LEMMA DocsOther ==
    ASSUME DocsInv, NEW n \in Node, DropCalls(n) \/ \E e \in work : Accept(n, e)
    PROVE  DocsInv'
<1>1. /\ ContentTypeOK' /\ done' = done /\ db' = db
      /\ \A m \in Node : \A f \in open'[m] :
            \/ f \in open[m]
            \/ m = n /\ f \in work \ done[n] /\ Authorized(db[n], f, n)
    BY OtherShape DEF DocsInv
<1>2. ASSUME NEW f \in work, Authorized(db[n], f, n)
      PROVE  /\ f.kind = "comment" => KnownAs(db[n], f.target, "post")
             /\ f.kind \in {"vote", "award"} => KnownDoc(db[n], f.target)
             /\ f.kind = "verb" => f.by \in Moderator
    BY <1>2 DEF Authorized
<1>3. Aimed'
    BY <1>1, <1>2 DEF DocsInv, Aimed
<1>4. Written'
    BY <1>1 DEF DocsInv, Written
<1> QED BY <1>1, <1>3, <1>4 DEF DocsInv

LEMMA DocsStep == DocsInv /\ [ContentNext]_contentVars => DocsInv'
<1> SUFFICES ASSUME DocsInv, [ContentNext]_contentVars PROVE DocsInv'
    OBVIOUS
<1>1. CASE UNCHANGED contentVars
    BY <1>1 DEF contentVars, DocsInv, ContentTypeOK, Aimed, Written
<1>2. ASSUME NEW n \in Node, DropCalls(n) \/ \E e \in work : Accept(n, e) PROVE DocsInv'
    BY <1>2, DocsOther
<1>3. ASSUME NEW n \in Node, NEW e \in work, Apply(n, e) PROVE DocsInv'
    BY <1>3, DocsApply
<1> QED BY <1>1, <1>2, <1>3 DEF ContentNext

LEMMA DocsHold == ContentSpec => []DocsInv
BY DocsInit, DocsStep, PTL DEF ContentSpec

\* What is removed is shown again only by a moderator's RESTORE or APPROVE
\* (post-edit.handlers.ts:56), whatever else was authorized before it was
\* removed, for every set of envelopes and number of nodes.
THEOREM RemovedStaysRemovedCorrect == ContentSpec => RemovedStaysRemoved
<1> DEFINE Restored(n, i) ==
        \E e \in done'[n] \ done[n] :
            e.kind = "verb" /\ e.by \in Moderator /\ e.verb \in {"RESTORE", "APPROVE"}
           Stays == \A n \in Node, i \in Id : Removed(db, n, i) /\ ~Removed(db', n, i) => Restored(n, i)
<1>1. DocsInv /\ [ContentNext]_contentVars => [Stays]_contentVars
  <2> SUFFICES ASSUME DocsInv, ContentNext PROVE Stays
      OBVIOUS
  <2>1. ASSUME NEW n \in Node, DropCalls(n) \/ \E e \in work : Accept(n, e) PROVE Stays
    <3>1. db' = db
        BY <2>1, OtherShape DEF DocsInv
    <3> QED BY <3>1 DEF Removed
  <2>2. ASSUME NEW n \in Node, NEW e \in work, Apply(n, e) PROVE Stays
    <3> SUFFICES ASSUME NEW m \in Node, NEW i \in Id, Removed(db, m, i), ~Removed(db', m, i)
                 PROVE  Restored(m, i)
        OBVIOUS
    <3>1. /\ e \in open[n] /\ done'[n] = done[n] \cup {e}
          /\ \A k \in Node \ {n} : db'[k] = db[k]
        BY <2>2, ApplyShape DEF DocsInv
    <3>2. m = n
        BY <3>1 DEF Removed
    <3>3. /\ Carries(e, i, db[n].docs[i], db'[n].docs[i]) /\ db[n].docs[i] # NoDoc
          /\ ~(Writes(e) /\ i = e.id)
          /\ "removed" \in db[n].docs[i].marks /\ db'[n].docs[i] # NoDoc
          /\ "removed" \notin db'[n].docs[i].marks
        BY <2>2, <3>2, ApplyKeepsDocs DEF Removed
    <3>4. e.kind = "verb" /\ e.verb \in {"RESTORE", "APPROVE"}
        BY <3>3 DEF Carries, Writes
    <3>5. e \notin done[n] /\ e.by \in Moderator
        BY <3>1, <3>4 DEF DocsInv, Aimed
    <3> QED BY <3>1, <3>2, <3>4, <3>5
  <2> QED BY <2>1, <2>2 DEF ContentNext
<1> QED BY <1>1, DocsHold, PTL DEF ContentSpec, RemovedStaysRemoved

-----------------------------------------------------------------------------
(* Votes.                                                                  *)

\* What a commit makes of the votes of one key on one target.
LEMMA ApplyVotes ==
    ASSUME ContentTypeOK, NEW n \in Node, NEW e \in work, Apply(n, e),
           NEW k \in Key, NEW i \in Id
    PROVE  db'[n].votes[k][i] =
               IF /\ e.kind = "vote" /\ e.by = k /\ e.target = i
                  /\ Supersedes(e, db[n].votes[k][i])
               THEN e ELSE db[n].votes[k][i]
<1>1. PICK coll \in Collections, after \in Collections :
          /\ coll = db[n] /\ after = Project(coll, e, n) /\ after = db'[n]
          /\ Wellformed(e)
    BY ApplyShape
<1>2. /\ coll.votes \in [Key -> [Id -> Envelope \cup {NoVote}]]
      /\ e \in Envelope /\ e.by \in Key /\ e.kind # "community"
    BY <1>1 DEF Collections, Wellformed, Envelope
<1>3. CASE e.kind # "vote"
  <2>1. PICK origin : origin = n
      OBVIOUS
  <2>2. e.kind # "vote" =>
            /\ Project(coll, e, origin).votes = coll.votes
            /\ Project(coll, e, origin).karma = coll.karma
      BY <1>1, ProjectHolds
  <2> QED BY <1>1, <1>3, <2>1, <2>2
<1>4. CASE e.kind = "vote"
  <2>1. after = ProjectVote(coll, e) /\ e.target \in Id
      BY <1>1, <1>4 DEF Project, Wellformed
  <2>2. CASE ~Supersedes(e, coll.votes[e.by][e.target])
    <3>1. after = coll
        BY <1>2, <2>1, <2>2, VoteTyped
    <3> QED BY <1>1, <2>2, <3>1
  <2>3. CASE Supersedes(e, coll.votes[e.by][e.target])
    <3>1. after.votes = [coll.votes EXCEPT ![e.by][e.target] = e]
        BY <1>2, <2>1, <2>3, VoteTyped
    <3>2. after.votes[k][i] = IF e.by = k /\ e.target = i THEN e ELSE coll.votes[k][i]
        BY <1>2, <2>1, <3>1
    <3> QED BY <1>1, <1>4, <2>3, <3>2
  <2> QED BY <2>2, <2>3
<1> QED BY <1>3, <1>4

\* Of two votes the later one supersedes the other, and only one does.
LEMMA SupersedesOrders ==
    ASSUME NEW e \in Envelope, NEW f \in Envelope, NEW g \in Envelope
    PROVE  /\ Supersedes(e, f) \/ Supersedes(f, e) \/ e.id = f.id
           /\ Supersedes(e, f) /\ Supersedes(f, g) => Supersedes(e, g)
           /\ Supersedes(e, f) => ~Supersedes(f, e) /\ e # f
<1>1. \A h \in {e, f, g} : h.at \in Nat /\ h.id \in Nat /\ h # NoVote
    BY IdsTyped, SentinelsAreNone DEF Envelope
<1>2. PICK a \in Nat, b \in Nat, c \in Nat, i \in Nat, j \in Nat, k \in Nat :
          /\ a = e.at /\ b = f.at /\ c = g.at /\ i = e.id /\ j = f.id /\ k = g.id
    BY <1>1
<1>3. /\ Supersedes(e, f) <=> a > b \/ (a = b /\ i > j)
      /\ Supersedes(f, e) <=> b > a \/ (b = a /\ j > i)
      /\ Supersedes(f, g) <=> b > c \/ (b = c /\ j > k)
      /\ Supersedes(e, g) <=> a > c \/ (a = c /\ i > k)
    BY <1>1, <1>2 DEF Supersedes
<1>4. e = f => a = b /\ i = j
    BY <1>2
<1> QED BY <1>2, <1>3, <1>4

LEMMA NewestApply ==
    ASSUME ContentTypeOK, NewestVoteStands, NEW n \in Node, NEW e \in work, Apply(n, e)
    PROVE  NewestVoteStands'
<1>1. /\ done'[n] = done[n] \cup {e} /\ Wellformed(e) /\ done[n] \subseteq work
      /\ \A m \in Node \ {n} : done'[m] = done[m] /\ db'[m] = db[m]
    BY ApplyShape DEF ContentTypeOK
<1> SUFFICES ASSUME NEW m \in Node, NEW k \in Key, NEW i \in Id
             PROVE  LET stored == db'[m].votes[k][i]
                        cast == Cast(m, k, i)' IN
                    IF cast = {} THEN stored = NoVote
                    ELSE /\ stored \in cast
                         /\ \A f \in cast : f = stored \/ Supersedes(stored, f)
    BY DEF NewestVoteStands
<1> DEFINE stored == db[m].votes[k][i]
           cast == Cast(m, k, i)
<1>2. IF cast = {} THEN stored = NoVote
      ELSE /\ stored \in cast
           /\ \A f \in cast : f = stored \/ Supersedes(stored, f)
    BY DEF NewestVoteStands
<1>3. CASE m # n
    BY <1>1, <1>2, <1>3 DEF Cast
<1>4. CASE m = n /\ ~(e.kind = "vote" /\ e.by = k /\ e.target = i)
  <2>1. Cast(m, k, i)' = cast
      BY <1>1, <1>4 DEF Cast
  <2>2. db'[m].votes[k][i] = stored
      BY <1>4, ApplyVotes
  <2> QED BY <1>2, <2>1, <2>2
<1>5. CASE m = n /\ e.kind = "vote" /\ e.by = k /\ e.target = i
  <2>1. Cast(m, k, i)' = cast \cup {e}
      BY <1>1, <1>5 DEF Cast
  <2>2. \A f \in cast : f \in Envelope /\ f \in work
      BY <1>1, <1>5, WorkWellformed DEF Cast, Wellformed
  <2>3. e \in Envelope
      BY <1>1 DEF Wellformed
  <2>4. db'[m].votes[k][i] = IF Supersedes(e, stored) THEN e ELSE stored
      BY <1>5, ApplyVotes
  <2> HIDE DEF stored, cast
  <2>5. CASE Supersedes(e, stored)
    <3>1. \A f \in cast : Supersedes(e, f)
        BY <1>2, <2>2, <2>3, <2>5, SupersedesOrders
    <3> QED BY <2>1, <2>4, <2>5, <3>1
  <2>6. CASE ~Supersedes(e, stored)
    <3>1. stored # NoVote
        BY <2>6 DEF Supersedes
    <3>2. stored \in cast /\ stored \in Envelope /\ stored \in work
        BY <1>2, <2>2, <3>1
    <3>3. e = stored \/ Supersedes(stored, e)
        BY <2>3, <2>6, <3>2, SupersedesOrders, OneId
    <3> QED BY <1>2, <2>1, <2>4, <2>6, <3>2, <3>3
  <2> QED BY <2>5, <2>6
<1> QED BY <1>3, <1>4, <1>5

LEMMA NewestInit == ContentInit => NewestVoteStands
<1> SUFFICES ASSUME ContentInit PROVE NewestVoteStands
    OBVIOUS
<1>1. \A n \in Node : /\ done[n] = {}
                      /\ db[n].votes = [k \in Key |-> [i \in Id |-> NoVote]]
    BY EmptyTyped DEF ContentInit
<1> QED BY <1>1 DEF NewestVoteStands, Cast

LEMMA NewestStep ==
    ContentTypeOK /\ NewestVoteStands /\ [ContentNext]_contentVars => NewestVoteStands'
<1> SUFFICES ASSUME ContentTypeOK, NewestVoteStands, [ContentNext]_contentVars
             PROVE  NewestVoteStands'
    OBVIOUS
<1>1. ASSUME db' = db, done' = done PROVE NewestVoteStands'
    BY <1>1 DEF NewestVoteStands, Cast
<1>2. ASSUME NEW n \in Node, DropCalls(n) \/ \E e \in work : Accept(n, e)
      PROVE  NewestVoteStands'
    BY <1>1, <1>2, OtherShape
<1>3. ASSUME NEW n \in Node, NEW e \in work, Apply(n, e) PROVE NewestVoteStands'
    BY <1>3, NewestApply
<1> QED BY <1>1, <1>2, <1>3 DEF ContentNext, contentVars

\* However the votes of a key on one target are delivered, at every node the
\* latest of those committed stands (vote-cast.handler.ts:49).
THEOREM NewestVoteCorrect == ContentSpec => []NewestVoteStands
<1>1. ContentInit => ContentTypeOK /\ NewestVoteStands
    BY ContentInitTyped, NewestInit
<1>2. ContentTypeOK /\ NewestVoteStands /\ [ContentNext]_contentVars =>
          (ContentTypeOK /\ NewestVoteStands)'
    BY ContentStepTyped, NewestStep
<1> QED BY <1>1, <1>2, PTL DEF ContentSpec

-----------------------------------------------------------------------------
(* Tallies.                                                                *)

\* What is committed has found its target.
Landed ==
    \A n \in Node : \A e \in done[n] :
        /\ e.kind = "comment" => KnownAs(db[n], e.target, "post")
        /\ e.kind \in {"vote", "award"} => KnownDoc(db[n], e.target)

PostsIn(committed, c) == {e \in committed : e.kind = "post" /\ e.scope = c}

\* The counts are the numbers of what was committed.
Counted ==
    \A n \in Node :
        /\ \A i \in Id : db[n].docs[i] # NoDoc =>
              /\ db[n].docs[i].comments = Cardinality(Made(done[n], "comment", i))
              /\ db[n].docs[i].awards = Cardinality(Made(done[n], "award", i))
        /\ \A c \in CommunityId : db[n].communities[c] = Cardinality(PostsIn(done[n], c))

CountsInv == DocsInv /\ Landed /\ Counted

LEMMA LandedApply ==
    ASSUME DocsInv, Landed, NEW n \in Node, NEW e \in work, Apply(n, e)
    PROVE  Landed'
<1>1. /\ e \in open[n] /\ done'[n] = done[n] \cup {e}
      /\ \A m \in Node \ {n} : done'[m] = done[m] /\ db'[m] = db[m]
    BY ApplyShape DEF DocsInv
<1>2. ASSUME NEW i \in Id
      PROVE  /\ KnownDoc(db[n], i) => KnownDoc(db'[n], i)
             /\ KnownAs(db[n], i, "post") => KnownAs(db'[n], i, "post")
    BY ApplyKeepsDocs DEF KnownDoc, KnownAs
<1> SUFFICES ASSUME NEW m \in Node, NEW f \in done'[m]
             PROVE  /\ f.kind = "comment" => KnownAs(db'[m], f.target, "post")
                    /\ f.kind \in {"vote", "award"} => KnownDoc(db'[m], f.target)
    BY DEF Landed
<1>3. CASE m # n
    BY <1>1, <1>3 DEF Landed
<1>4. CASE m = n
  <2>1. /\ f.kind = "comment" => KnownAs(db[n], f.target, "post") /\ f.target \in Id
        /\ f.kind \in {"vote", "award"} => KnownDoc(db[n], f.target) /\ f.target \in Id
      BY <1>1, <1>4 DEF Landed, DocsInv, Aimed, KnownAs, KnownDoc
  <2> QED BY <1>2, <1>4, <2>1
<1> QED BY <1>3, <1>4

\* The sets that are counted are finite, and grow by what is committed.
LEMMA MadeGrows ==
    ASSUME ContentTypeOK, NEW n \in Node, NEW e, e \notin done[n], NEW kind, NEW i
    PROVE  /\ Cardinality(Made(done[n], kind, i)) \in Nat
           /\ Cardinality(Made(done[n] \cup {e}, kind, i)) =
                 (IF e.kind = kind /\ e.target = i
                  THEN Cardinality(Made(done[n], kind, i)) + 1
                  ELSE Cardinality(Made(done[n], kind, i)))
<1>1. IsFiniteSet(Made(done[n], kind, i))
  <2>1. IsFiniteSet(work) /\ Made(done[n], kind, i) \subseteq work
      BY WorkloadTyped DEF ContentTypeOK, Made
  <2> QED BY <2>1, FS_Subset
<1>2. e \notin Made(done[n], kind, i)
    BY DEF Made
<1>3. Made(done[n] \cup {e}, kind, i) =
          IF e.kind = kind /\ e.target = i THEN Made(done[n], kind, i) \cup {e}
          ELSE Made(done[n], kind, i)
    BY DEF Made
<1> HIDE DEF Made
<1> QED BY <1>1, <1>2, <1>3, FS_AddElement, FS_CardinalityType

LEMMA PostsGrow ==
    ASSUME ContentTypeOK, NEW n \in Node, NEW e, e \notin done[n], NEW c
    PROVE  /\ Cardinality(PostsIn(done[n], c)) \in Nat
           /\ Cardinality(PostsIn(done[n] \cup {e}, c)) =
                 (IF e.kind = "post" /\ e.scope = c
                  THEN Cardinality(PostsIn(done[n], c)) + 1
                  ELSE Cardinality(PostsIn(done[n], c)))
<1>1. IsFiniteSet(PostsIn(done[n], c))
  <2>1. IsFiniteSet(work) /\ PostsIn(done[n], c) \subseteq work
      BY WorkloadTyped DEF ContentTypeOK, PostsIn
  <2> QED BY <2>1, FS_Subset
<1>2. e \notin PostsIn(done[n], c)
    BY DEF PostsIn
<1>3. PostsIn(done[n] \cup {e}, c) =
          IF e.kind = "post" /\ e.scope = c THEN PostsIn(done[n], c) \cup {e}
          ELSE PostsIn(done[n], c)
    BY DEF PostsIn
<1> HIDE DEF PostsIn
<1> QED BY <1>1, <1>2, <1>3, FS_AddElement, FS_CardinalityType

\* A commit counts a post in its community.
LEMMA ApplyCommunities ==
    ASSUME ContentTypeOK, NEW n \in Node, NEW e \in work, Apply(n, e), NEW c \in CommunityId,
           db[n].communities[c] \in Nat
    PROVE  db'[n].communities[c] = IF e.kind = "post" /\ e.scope = c
                                   THEN db[n].communities[c] + 1 ELSE db[n].communities[c]
<1>1. PICK coll \in Collections, after \in Collections :
          /\ coll = db[n] /\ after = Project(coll, e, n) /\ after = db'[n]
          /\ Wellformed(e)
    BY ApplyShape
<1>2. CASE e.kind # "post"
  <2>1. PICK origin : origin = n
      OBVIOUS
  <2>2. e.kind # "post" => Project(coll, e, origin).communities = coll.communities
      BY <1>1, ProjectHolds
  <2> QED BY <1>1, <1>2, <2>1, <2>2
<1>3. CASE e.kind = "post"
  <2>1. after.communities = IF KnownCommunity(coll, e.scope)
                            THEN [coll.communities EXCEPT ![e.scope] = @ + 1]
                            ELSE coll.communities
      BY <1>1, <1>3, PostTyped DEF Project, Wellformed
  <2>2. coll.communities \in [CommunityId -> Nat \cup {Unknown}]
      BY DEF Collections
  <2>3. e.scope = c => KnownCommunity(coll, e.scope)
      BY <1>1, SentinelsAreNone DEF KnownCommunity
  <2> QED BY <1>1, <1>3, <2>1, <2>2, <2>3
<1> QED BY <1>2, <1>3

LEMMA CountsApply ==
    ASSUME CountsInv, NEW n \in Node, NEW e \in work, Apply(n, e)
    PROVE  CountsInv'
<1>1. /\ e \in open[n] /\ done'[n] = done[n] \cup {e} /\ e \notin done[n]
      /\ \A m \in Node \ {n} : done'[m] = done[m] /\ db'[m] = db[m]
    BY ApplyShape, NotYetWritten DEF CountsInv, DocsInv
<1>2. DocsInv' /\ Landed'
    BY DocsApply, LandedApply DEF CountsInv
<1>3. ASSUME NEW i \in Id, db'[n].docs[i] # NoDoc
      PROVE  /\ db'[n].docs[i].comments = Cardinality(Made(done'[n], "comment", i))
             /\ db'[n].docs[i].awards = Cardinality(Made(done'[n], "award", i))
  <2>1. Carries(e, i, db[n].docs[i], db'[n].docs[i])
      BY ApplyKeepsDocs DEF CountsInv
  <2>2. CASE Writes(e) /\ i = e.id
    <3>1. db[n].docs[i] = NoDoc
        BY <1>1, <2>2, NotYetWritten DEF CountsInv
    <3>2. \A f \in done[n] \cup {e} : f.kind \in {"comment", "award"} => f.target # i
        BY <1>1, <3>1 DEF CountsInv, DocsInv, Landed, Aimed, KnownAs, KnownDoc
    <3>3. Made(done'[n], "comment", i) = {} /\ Made(done'[n], "award", i) = {}
        BY <1>1, <3>2 DEF Made
    <3>4. db'[n].docs[i].comments = 0 /\ db'[n].docs[i].awards = 0
        BY <2>1, <2>2 DEF Carries, Writes
    <3> QED BY <3>3, <3>4, FS_EmptySet
  <2>3. CASE ~(Writes(e) /\ i = e.id)
    <3>1. db[n].docs[i] # NoDoc
        BY <1>3, <2>1, <2>3 DEF Carries, Writes
    <3>2. /\ db[n].docs[i].comments = Cardinality(Made(done[n], "comment", i))
          /\ db[n].docs[i].awards = Cardinality(Made(done[n], "award", i))
        BY <3>1 DEF CountsInv, Counted
    <3>3. e.kind = "comment" /\ e.target = i => db[n].docs[i].kind = "post"
        BY <1>1 DEF CountsInv, DocsInv, Aimed, KnownAs
    <3>4. /\ db'[n].docs[i].comments = (IF e.kind = "comment" /\ i = e.target
                                        THEN db[n].docs[i].comments + 1
                                        ELSE db[n].docs[i].comments)
          /\ db'[n].docs[i].awards = (IF e.kind = "award" /\ i = e.target
                                      THEN db[n].docs[i].awards + 1 ELSE db[n].docs[i].awards)
        BY <2>1, <2>3, <3>1, <3>3 DEF Carries, Writes
    <3> QED BY <1>1, <3>2, <3>4, MadeGrows DEF CountsInv, DocsInv
  <2> QED BY <2>2, <2>3
<1>4. ASSUME NEW c \in CommunityId
      PROVE  db'[n].communities[c] = Cardinality(PostsIn(done'[n], c))
  <2>1. ContentTypeOK /\ db[n].communities[c] = Cardinality(PostsIn(done[n], c))
      BY DEF CountsInv, DocsInv, Counted
  <2>2. db[n].communities[c] \in Nat
      BY <1>1, <2>1, PostsGrow
  <2>3. db'[n].communities[c] = IF e.kind = "post" /\ e.scope = c
                                THEN db[n].communities[c] + 1 ELSE db[n].communities[c]
      BY <2>1, <2>2, ApplyCommunities
  <2> QED BY <1>1, <2>1, <2>3, PostsGrow
<1>5. Counted'
  <2> SUFFICES ASSUME NEW m \in Node
               PROVE  /\ \A i \in Id : db'[m].docs[i] # NoDoc =>
                            /\ db'[m].docs[i].comments = Cardinality(Made(done'[m], "comment", i))
                            /\ db'[m].docs[i].awards = Cardinality(Made(done'[m], "award", i))
                      /\ \A c \in CommunityId :
                            db'[m].communities[c] = Cardinality(PostsIn(done'[m], c))
      BY DEF Counted, Made, PostsIn
  <2>1. CASE m # n
      BY <1>1, <2>1 DEF CountsInv, Counted
  <2>2. CASE m = n
      BY <1>3, <1>4, <2>2
  <2> QED BY <2>1, <2>2
<1> QED BY <1>2, <1>5 DEF CountsInv

LEMMA CountsInit == ContentInit => CountsInv
<1> SUFFICES ASSUME ContentInit PROVE CountsInv
    OBVIOUS
<1>1. \A n \in Node :
          /\ done[n] = {} /\ db[n].docs = [i \in Id |-> NoDoc]
          /\ db[n].communities = [c \in CommunityId |-> 0]
    BY EmptyTyped DEF ContentInit
<1>2. \A n \in Node : \A c : PostsIn(done[n], c) = {}
    BY <1>1 DEF PostsIn
<1> QED BY <1>1, <1>2, DocsInit, FS_EmptySet DEF CountsInv, Landed, Counted

LEMMA CountsStep == CountsInv /\ [ContentNext]_contentVars => CountsInv'
<1> SUFFICES ASSUME CountsInv, [ContentNext]_contentVars PROVE CountsInv'
    OBVIOUS
<1>1. ASSUME db' = db, done' = done, DocsInv' PROVE CountsInv'
    BY <1>1 DEF CountsInv, Landed, Counted
<1>2. DocsInv'
    BY DocsStep DEF CountsInv
<1>3. ASSUME NEW n \in Node, DropCalls(n) \/ \E e \in work : Accept(n, e) PROVE CountsInv'
    BY <1>1, <1>2, <1>3, OtherShape DEF CountsInv, DocsInv
<1>4. ASSUME NEW n \in Node, NEW e \in work, Apply(n, e) PROVE CountsInv'
    BY <1>4, CountsApply
<1> QED BY <1>1, <1>2, <1>3, <1>4 DEF ContentNext, contentVars

-----------------------------------------------------------------------------
(* Scores and karma.                                                       *)

\* A score is the sum of the votes that stand, karma that of the scores.
Scored ==
    \A n \in Node :
        /\ \A i \in Id : db[n].docs[i] # NoDoc =>
              /\ IsFiniteSet(Voters(db[n], i))
              /\ db[n].docs[i].score = SumFunctionOnSet(VotesOn(db[n], i), Voters(db[n], i))
        /\ \A k \in Key :
              /\ IsFiniteSet(DocsBy(db[n], k))
              /\ db[n].karma[k] = SumFunctionOnSet(ScoresBy(db[n], k), DocsBy(db[n], k))

ScoresInv == CountsInv /\ NewestVoteStands /\ Scored

\* What is summed are integers.
LEMMA TermsTyped ==
    ASSUME NEW coll \in Collections
    PROVE  /\ \A i \in Id : \A k \in Voters(coll, i) :
                 VotesOn(coll, i)[k] = coll.votes[k][i].value /\ VotesOn(coll, i)[k] \in Int
           /\ \A k \in Key : \A i \in DocsBy(coll, k) :
                 ScoresBy(coll, k)[i] = coll.docs[i].score /\ ScoresBy(coll, k)[i] \in Int
           /\ coll.karma \in [Key -> Int]
<1>1. ASSUME NEW i \in Id, NEW k \in Voters(coll, i) PROVE coll.votes[k][i].value \in Int
  <2>1. coll.votes[k][i] \in Envelope
      BY DEF Voters, Collections
  <2>2. coll.votes[k][i].value \in {-1, 0, 1}
      BY <2>1 DEF Envelope
  <2> QED BY <2>2
<1>2. ASSUME NEW k \in Key, NEW i \in DocsBy(coll, k) PROVE coll.docs[i].score \in Int
    BY DEF DocsBy, Collections, Doc
<1>3. coll.karma \in [Key -> Int]
    BY DEF Collections
<1> QED BY <1>1, <1>2, <1>3 DEF VotesOn, ScoresBy

\* The vote replaces another, or is the first of its key on its target.
Counts(n, e) == e.kind = "vote" /\ Supersedes(e, db[n].votes[e.by][e.target])
Difference(n, e) == e.value - ValueOf(db[n].votes[e.by][e.target])

\* What a commit makes of scores and karma.
LEMMA ApplyScores ==
    ASSUME DocsInv, NEW n \in Node, NEW e \in work, Apply(n, e)
    PROVE  /\ ~Counts(n, e) =>
                 /\ db'[n].karma = db[n].karma
                 /\ \A i \in Id : db[n].docs[i] # NoDoc =>
                       db'[n].docs[i].score = db[n].docs[i].score
           /\ Counts(n, e) =>
                 /\ KnownDoc(db[n], e.target) /\ e.target \in Id /\ Difference(n, e) \in Int
                 /\ db[n].docs[e.target].score \in Int /\ db[n].docs[e.target].by \in Key
                 /\ db'[n].docs[e.target].score = db[n].docs[e.target].score + Difference(n, e)
                 /\ \A i \in Id \ {e.target} : db'[n].docs[i] = db[n].docs[i]
                 /\ db'[n].karma = [db[n].karma EXCEPT ![db[n].docs[e.target].by] =
                                       @ + Difference(n, e)]
<1>1. PICK coll \in Collections, after \in Collections :
          /\ coll = db[n] /\ after = Project(coll, e, n) /\ after = db'[n]
          /\ Wellformed(e) /\ e \in open[n]
    BY ApplyShape DEF DocsInv
<1>2. CASE e.kind # "vote"
  <2>1. PICK origin : origin = n
      OBVIOUS
  <2>2. e.kind # "vote" => Project(coll, e, origin).karma = coll.karma
      BY <1>1, ProjectHolds
  <2>3. \A i \in Id : db[n].docs[i] # NoDoc => db'[n].docs[i].score = db[n].docs[i].score
    <3> SUFFICES ASSUME NEW i \in Id, db[n].docs[i] # NoDoc
                 PROVE  db'[n].docs[i].score = db[n].docs[i].score
        OBVIOUS
    <3>1. ~(e.kind \in {"post", "comment"} /\ i = e.id)
        BY ApplyKeepsDocs DEF Writes
    <3> QED BY <1>2, <3>1, ApplyKeepsDocs DEF Carries
  <2> QED BY <1>1, <1>2, <2>1, <2>2, <2>3 DEF Counts
<1>3. CASE e.kind = "vote"
  <2>1. /\ after = ProjectVote(coll, e) /\ e.target \in Id /\ e \in Envelope
        /\ KnownDoc(coll, e.target)
      BY <1>1, <1>3 DEF Project, Wellformed, DocsInv, Aimed
  <2>2. CASE ~Counts(n, e)
    <3>1. ~Supersedes(e, coll.votes[e.by][e.target])
        BY <1>1, <1>3, <2>2 DEF Counts
    <3>2. after = coll
        BY <2>1, <3>1, VoteTyped
    <3> QED BY <1>1, <2>2, <3>2
  <2>3. CASE Counts(n, e)
    <3> DEFINE delta == e.value - ValueOf(coll.votes[e.by][e.target])
               author == coll.docs[e.target].by
    <3>1. Supersedes(e, coll.votes[e.by][e.target]) /\ Difference(n, e) = delta
        BY <1>1, <2>3 DEF Counts, Difference
    <3>2. /\ delta \in Int /\ author \in Key
          /\ after.docs = [coll.docs EXCEPT ![e.target].score = @ + delta]
          /\ after.karma = [coll.karma EXCEPT ![author] = @ + delta]
        BY <2>1, <3>1, VoteTyped
    <3>3. coll.docs \in [Id -> Doc \cup {NoDoc}] /\ coll.docs[e.target] \in Doc
        BY <2>1 DEF Collections, KnownDoc
    <3>4. coll.docs[e.target].score \in Int
        BY <3>3 DEF Doc
    <3> HIDE DEF delta, author
    <3>5. after.docs[e.target] = [coll.docs[e.target] EXCEPT !.score = @ + delta]
        BY <2>1, <3>2, <3>3
    <3>6. after.docs[e.target].score = coll.docs[e.target].score + delta
        BY <3>3, <3>5 DEF Doc
    <3>7. \A i \in Id \ {e.target} : after.docs[i] = coll.docs[i]
        BY <2>1, <3>2, <3>3
    <3> QED BY <1>1, <2>1, <2>3, <3>1, <3>2, <3>4, <3>6, <3>7 DEF author
  <2> QED BY <2>2, <2>3
<1> QED BY <1>2, <1>3

\* The votes on a document change only by the vote that counts there.
LEMMA ScoreKept ==
    ASSUME DocsInv, NEW n \in Node, NEW e \in work, Apply(n, e), NEW i \in Id,
           ~(Counts(n, e) /\ e.target = i)
    PROVE  Voters(db'[n], i) = Voters(db[n], i) /\ VotesOn(db'[n], i) = VotesOn(db[n], i)
<1>1. \A k \in Key : db'[n].votes[k][i] = db[n].votes[k][i]
    BY ApplyVotes DEF DocsInv, Counts
<1>2. Voters(db'[n], i) = Voters(db[n], i)
    BY <1>1 DEF Voters
<1>3. \A k \in Voters(db[n], i) : db'[n].votes[k][i] = db[n].votes[k][i]
    BY <1>1 DEF Voters
<1> QED BY <1>2, <1>3 DEF VotesOn

\* And by as much as the score.
LEMMA ScoreMoves ==
    ASSUME DocsInv, NEW n \in Node, NEW e \in work, Apply(n, e), Counts(n, e),
           NEW i \in Id, i = e.target, IsFiniteSet(Voters(db[n], i))
    PROVE  /\ IsFiniteSet(Voters(db'[n], i))
           /\ SumFunctionOnSet(VotesOn(db'[n], i), Voters(db'[n], i)) =
                 SumFunctionOnSet(VotesOn(db[n], i), Voters(db[n], i)) + Difference(n, e)
<1>1. Wellformed(e) /\ db[n] \in Collections /\ db'[n] \in Collections
    BY ApplyShape DEF DocsInv
<1>2. PICK before \in Collections, after \in Collections : before = db[n] /\ after = db'[n]
    BY <1>1
<1>3. PICK by \in Key, v \in Int : by = e.by /\ v = e.value
  <2>1. e.by \in Key /\ e.value \in {-1, 0, 1}
      BY <1>1 DEF Wellformed, Envelope
  <2>2. e.value \in Int
      BY <2>1
  <2> QED BY <2>1, <2>2
<1>4. e # NoVote
    BY <1>1, SentinelsAreNone DEF Wellformed
<1>5. \A k \in Key : after.votes[k][i] = IF k = by THEN e ELSE before.votes[k][i]
    BY <1>2, <1>3, ApplyVotes DEF DocsInv, Counts
<1>6. Voters(after, i) = Voters(before, i) \cup {by}
    BY <1>3, <1>4, <1>5 DEF Voters
<1>7. PICK S, T, f, g : /\ S = Voters(before, i) /\ T = Voters(after, i)
                        /\ f = VotesOn(before, i) /\ g = VotesOn(after, i)
    OBVIOUS
<1>8. /\ \A k \in S : f[k] \in Int /\ f[k] = before.votes[k][i].value
      /\ \A k \in S \cup {by} : g[k] \in Int /\ g[k] = after.votes[k][i].value
    BY <1>6, <1>7, TermsTyped
<1>9. \A k \in S \ {by} : g[k] = f[k]
    BY <1>5, <1>7, <1>8 DEF Voters
<1>10. g[by] = v
    BY <1>3, <1>5, <1>8
<1>11. IsFiniteSet(S)
    BY <1>2, <1>7
<1>12. /\ IsFiniteSet(S \cup {by})
       /\ SumFunctionOnSet(g, S \cup {by}) =
             SumFunctionOnSet(f, S) + (g[by] - (IF by \in S THEN f[by] ELSE 0))
    BY <1>8, <1>9, <1>11, SumOfChange
<1>13. Difference(n, e) = v - (IF by \in S THEN f[by] ELSE 0)
  <2>1. Difference(n, e) = v - ValueOf(before.votes[by][i])
      BY <1>2, <1>3 DEF Difference
  <2>2. by \in S <=> before.votes[by][i] # NoVote
      BY <1>7 DEF Voters
  <2>3. ValueOf(before.votes[by][i]) = IF by \in S THEN f[by] ELSE 0
      BY <1>8, <2>2 DEF ValueOf
  <2> QED BY <2>1, <2>3
<1> QED BY <1>2, <1>6, <1>7, <1>10, <1>12, <1>13

\* Karma follows the scores.
LEMMA KarmaApply ==
    ASSUME ScoresInv, NEW n \in Node, NEW e \in work, Apply(n, e), NEW k \in Key
    PROVE  /\ IsFiniteSet(DocsBy(db'[n], k))
           /\ db'[n].karma[k] = SumFunctionOnSet(ScoresBy(db'[n], k), DocsBy(db'[n], k))
<1>1. /\ db[n] \in Collections /\ db'[n] \in Collections
      /\ IsFiniteSet(DocsBy(db[n], k))
      /\ db[n].karma[k] = SumFunctionOnSet(ScoresBy(db[n], k), DocsBy(db[n], k))
    BY ApplyShape DEF ScoresInv, CountsInv, DocsInv, Scored
<1>2. PICK before \in Collections, after \in Collections : before = db[n] /\ after = db'[n]
    BY <1>1
<1>3. PICK S, T, f, g : /\ S = DocsBy(before, k) /\ T = DocsBy(after, k)
                        /\ f = ScoresBy(before, k) /\ g = ScoresBy(after, k)
    OBVIOUS
<1>4. /\ \A i \in S : f[i] \in Int /\ f[i] = before.docs[i].score
      /\ \A i \in T : g[i] \in Int /\ g[i] = after.docs[i].score
      /\ before.karma \in [Key -> Int] /\ after.karma \in [Key -> Int]
    BY <1>3, TermsTyped
<1>5. IsFiniteSet(S) /\ before.karma[k] = SumFunctionOnSet(f, S)
    BY <1>1, <1>2, <1>3
<1>6. ASSUME NEW i \in Id
      PROVE  /\ before.docs[i] # NoDoc =>
                   after.docs[i] # NoDoc /\ after.docs[i].by = before.docs[i].by
             /\ before.docs[i] = NoDoc /\ after.docs[i] # NoDoc =>
                   i = e.id /\ after.docs[i].score = 0
    BY <1>2, ApplyKeepsDocs DEF ScoresInv, CountsInv, Carries
<1>7. SUFFICES IsFiniteSet(T) /\ after.karma[k] = SumFunctionOnSet(g, T)
    BY <1>2, <1>3
<1>8. CASE ~Counts(n, e)
  <2>1. /\ after.karma = before.karma
        /\ \A i \in Id : before.docs[i] # NoDoc => after.docs[i].score = before.docs[i].score
      BY <1>2, <1>8, ApplyScores DEF ScoresInv, CountsInv
  <2>2. \A i \in S : i \in T /\ g[i] = f[i]
    <3>1. \A i \in S : i \in Id /\ before.docs[i] # NoDoc /\ before.docs[i].by = k
        BY <1>3 DEF DocsBy
    <3>2. \A i \in S : i \in T
        BY <1>3, <1>6, <3>1 DEF DocsBy
    <3> QED BY <1>4, <2>1, <3>1, <3>2
  <2>3. \A i \in T \ S : i = e.id /\ g[i] = 0
      BY <1>3, <1>4, <1>6 DEF DocsBy
  <2>4. CASE T = S
    <3>1. SumFunctionOnSet(g, S) = SumFunctionOnSet(f, S)
        BY <1>4, <1>5, <2>2, SumsAlike
    <3> QED BY <1>5, <2>1, <2>4, <3>1
  <2>5. CASE T # S
    <3>1. PICK x \in T : x = e.id /\ x \notin S
        BY <2>2, <2>3, <2>5
    <3>2. T = S \cup {x} /\ x \notin S /\ g[x] = 0
        BY <2>2, <2>3, <2>5, <3>1
    <3>3. /\ IsFiniteSet(S \cup {x}) /\ SumFunctionOnSet(f, S) \in Int
          /\ SumFunctionOnSet(g, S \cup {x}) =
                SumFunctionOnSet(f, S) + (g[x] - (IF x \in S THEN f[x] ELSE 0))
      <4>1. /\ \A i \in S : f[i] \in Int
            /\ \A i \in S \cup {x} : g[i] \in Int
            /\ \A i \in S \ {x} : g[i] = f[i]
          BY <1>4, <2>2, <3>2
      <4>2. IsFiniteSet(S)
          BY <1>5
      <4> QED BY <4>1, <4>2, SumOfChange
    <3>4. SumFunctionOnSet(f, S) + (0 - 0) = SumFunctionOnSet(f, S)
        BY <3>3
    <3> QED BY <1>5, <2>1, <3>2, <3>3, <3>4
  <2> QED BY <2>4, <2>5
<1>9. CASE Counts(n, e)
  <2>1. /\ KnownDoc(db[n], e.target) /\ e.target \in Id /\ Difference(n, e) \in Int
        /\ db[n].docs[e.target].score \in Int /\ db[n].docs[e.target].by \in Key
        /\ db'[n].docs[e.target].score = db[n].docs[e.target].score + Difference(n, e)
        /\ \A i \in Id \ {e.target} : db'[n].docs[i] = db[n].docs[i]
        /\ db'[n].karma = [db[n].karma EXCEPT ![db[n].docs[e.target].by] = @ + Difference(n, e)]
      BY <1>9, ApplyScores DEF ScoresInv, CountsInv
  <2>2. PICK t \in Id, d \in Int, author \in Key, score \in Int :
          /\ t = e.target /\ d = Difference(n, e)
          /\ author = db[n].docs[e.target].by /\ score = db[n].docs[e.target].score
      BY <2>1
  <2>3. /\ before.docs[t] # NoDoc /\ before.docs[t].by = author /\ before.docs[t].score = score
        /\ after.docs[t].score = score + d
        /\ \A i \in Id \ {t} : after.docs[i] = before.docs[i]
        /\ after.karma = [before.karma EXCEPT ![author] = @ + d]
      BY <1>2, <2>1, <2>2 DEF KnownDoc
  <2>4. after.docs[t] # NoDoc /\ after.docs[t].by = author
      BY <1>6, <2>3
  <2>5. T = S
      BY <1>3, <2>3, <2>4 DEF DocsBy
  <2>6. t \in S <=> k = author
      BY <1>3, <2>3 DEF DocsBy
  <2>7. \A i \in S \ {t} : g[i] = f[i]
    <3>1. \A i \in S : i \in Id
        BY <1>3 DEF DocsBy
    <3>2. ASSUME NEW i \in S, i # t PROVE g[i] = f[i]
      <4>1. f[i] = before.docs[i].score /\ g[i] = after.docs[i].score
          BY <1>4, <2>5
      <4>2. after.docs[i] = before.docs[i]
          BY <2>3, <3>1, <3>2
      <4> QED BY <4>1, <4>2
    <3> QED BY <3>2
  <2>8. CASE k # author
    <3>1. after.karma[k] = before.karma[k]
        BY <1>4, <2>3, <2>8
    <3>2. SumFunctionOnSet(g, S) = SumFunctionOnSet(f, S)
      <4>1. \A i \in S : f[i] \in Int /\ g[i] = f[i]
          BY <1>4, <2>6, <2>7, <2>8
      <4> QED BY <1>5, <4>1, SumsAlike
    <3> QED BY <1>5, <2>5, <3>1, <3>2
  <2>9. CASE k = author
    <3>1. t \in S /\ f[t] = score /\ g[t] = score + d
        BY <1>4, <2>3, <2>5, <2>6, <2>9
    <3>2. before.karma[k] \in Int /\ after.karma[k] = before.karma[k] + d
        BY <1>4, <2>3, <2>9
    <3>3. SumFunctionOnSet(g, S) = SumFunctionOnSet(f, S) + (g[t] - f[t])
      <4>1. \A i \in S : f[i] \in Int /\ g[i] \in Int
          BY <1>4, <2>5
      <4> QED BY <1>5, <2>7, <3>1, <4>1, SumMoves
    <3>4. g[t] - f[t] = d
        BY <3>1
    <3> QED BY <1>5, <2>5, <3>2, <3>3, <3>4
  <2> QED BY <2>8, <2>9
<1> QED BY <1>8, <1>9

LEMMA ScoresApply ==
    ASSUME ScoresInv, NEW n \in Node, NEW e \in work, Apply(n, e)
    PROVE  ScoresInv'
<1>1. CountsInv' /\ NewestVoteStands'
    BY CountsApply, NewestApply DEF ScoresInv, CountsInv, DocsInv
<1>2. /\ e \in open[n] /\ done'[n] = done[n] \cup {e}
      /\ \A m \in Node \ {n} : done'[m] = done[m] /\ db'[m] = db[m]
    BY ApplyShape DEF ScoresInv, CountsInv, DocsInv
<1>3. ASSUME NEW i \in Id, db'[n].docs[i] # NoDoc
      PROVE  /\ IsFiniteSet(Voters(db'[n], i))
             /\ db'[n].docs[i].score = SumFunctionOnSet(VotesOn(db'[n], i), Voters(db'[n], i))
  <2>1. CASE db[n].docs[i] = NoDoc
    <3>1. \A f \in done'[n] : ~(f.kind = "vote" /\ f.target = i)
        BY <1>2, <2>1 DEF ScoresInv, CountsInv, DocsInv, Landed, Aimed, KnownDoc
    <3>2. db'[n].docs[i].score = 0
        BY <1>3, <2>1, ApplyKeepsDocs DEF ScoresInv, CountsInv, Carries
    <3>3. \A k \in Key : Cast(n, k, i)' = {}
        BY <3>1 DEF Cast
    <3>4. \A k \in Key : db'[n].votes[k][i] = NoVote
        BY <1>1, <3>3 DEF NewestVoteStands
    <3>5. Voters(db'[n], i) = {}
        BY <3>4 DEF Voters
    <3> QED BY <3>2, <3>5, SumOfNone, FS_EmptySet
  <2>2. CASE db[n].docs[i] # NoDoc
    <3>1. /\ IsFiniteSet(Voters(db[n], i))
          /\ db[n].docs[i].score = SumFunctionOnSet(VotesOn(db[n], i), Voters(db[n], i))
        BY <2>2 DEF ScoresInv, Scored
    <3>2. CASE ~(Counts(n, e) /\ e.target = i)
      <4>1. db'[n].docs[i].score = db[n].docs[i].score
          BY <2>2, <3>2, ApplyScores DEF ScoresInv, CountsInv
      <4> QED BY <3>1, <3>2, <4>1, ScoreKept DEF ScoresInv, CountsInv
    <3>3. CASE Counts(n, e) /\ e.target = i
      <4>1. db'[n].docs[i].score = db[n].docs[i].score + Difference(n, e)
          BY <3>3, ApplyScores DEF ScoresInv, CountsInv
      <4> QED BY <3>1, <3>3, <4>1, ScoreMoves DEF ScoresInv, CountsInv
    <3> QED BY <3>2, <3>3
  <2> QED BY <2>1, <2>2
<1>4. Scored'
  <2> SUFFICES ASSUME NEW m \in Node
               PROVE  /\ \A i \in Id : db'[m].docs[i] # NoDoc =>
                            /\ IsFiniteSet(Voters(db'[m], i))
                            /\ db'[m].docs[i].score =
                                  SumFunctionOnSet(VotesOn(db'[m], i), Voters(db'[m], i))
                      /\ \A k \in Key :
                            /\ IsFiniteSet(DocsBy(db'[m], k))
                            /\ db'[m].karma[k] =
                                  SumFunctionOnSet(ScoresBy(db'[m], k), DocsBy(db'[m], k))
      BY DEF Scored, Voters, VotesOn, DocsBy, ScoresBy
  <2>1. CASE m # n
      BY <1>2, <2>1 DEF ScoresInv, Scored
  <2>2. CASE m = n
      BY <1>3, <2>2, KarmaApply
  <2> QED BY <2>1, <2>2
<1> QED BY <1>1, <1>4 DEF ScoresInv

LEMMA ScoresInit == ContentInit => ScoresInv
<1> SUFFICES ASSUME ContentInit PROVE ScoresInv
    OBVIOUS
<1>1. \A n \in Node : db[n].docs = [i \in Id |-> NoDoc] /\ db[n].karma = [k \in Key |-> 0]
    BY EmptyTyped DEF ContentInit
<1>2. \A n \in Node, k \in Key : DocsBy(db[n], k) = {}
    BY <1>1 DEF DocsBy
<1>3. ASSUME NEW n \in Node, NEW k \in Key
      PROVE  /\ IsFiniteSet(DocsBy(db[n], k))
             /\ db[n].karma[k] = SumFunctionOnSet(ScoresBy(db[n], k), DocsBy(db[n], k))
    BY <1>1, <1>2, SumOfNone, FS_EmptySet
<1> QED BY <1>1, <1>3, CountsInit, NewestInit DEF ScoresInv, Scored

LEMMA ScoresStep == ScoresInv /\ [ContentNext]_contentVars => ScoresInv'
<1> SUFFICES ASSUME ScoresInv, [ContentNext]_contentVars PROVE ScoresInv'
    OBVIOUS
<1>1. CountsInv' /\ NewestVoteStands'
    BY CountsStep, NewestStep DEF ScoresInv, CountsInv, DocsInv
<1>2. ASSUME db' = db, done' = done PROVE ScoresInv'
    BY <1>1, <1>2 DEF ScoresInv, Scored
<1>3. ASSUME NEW n \in Node, DropCalls(n) \/ \E e \in work : Accept(n, e) PROVE ScoresInv'
    BY <1>2, <1>3, OtherShape DEF ScoresInv, CountsInv, DocsInv
<1>4. ASSUME NEW n \in Node, NEW e \in work, Apply(n, e) PROVE ScoresInv'
    BY <1>4, ScoresApply
<1> QED BY <1>2, <1>3, <1>4 DEF ContentNext, contentVars

\* Two nodes that committed the same keep the same votes.
LEMMA SameVotes ==
    ASSUME ContentTypeOK, NewestVoteStands, NEW n \in Node, NEW m \in Node, done[n] = done[m]
    PROVE  db[n].votes = db[m].votes
<1>1. ASSUME NEW k \in Key, NEW i \in Id PROVE db[n].votes[k][i] = db[m].votes[k][i]
  <2> DEFINE cast == Cast(n, k, i)
             one == db[n].votes[k][i]
             other == db[m].votes[k][i]
  <2>1. Cast(m, k, i) = cast
      BY DEF Cast
  <2>2. \A f \in cast : f \in Envelope /\ f \in work
      BY WorkWellformed DEF Cast, Wellformed, ContentTypeOK
  <2>3. CASE cast = {}
      BY <2>1, <2>3 DEF NewestVoteStands
  <2>4. CASE cast # {}
    <3>1. /\ one \in cast /\ other \in cast
          /\ other = one \/ Supersedes(one, other)
          /\ one = other \/ Supersedes(other, one)
        BY <2>1, <2>4 DEF NewestVoteStands
    <3> HIDE DEF cast, one, other
    <3> QED BY <2>2, <3>1, SupersedesOrders DEF one, other
  <2> QED BY <2>3, <2>4
<1>2. /\ db[n].votes \in [Key -> [Id -> Envelope \cup {NoVote}]]
      /\ db[m].votes \in [Key -> [Id -> Envelope \cup {NoVote}]]
    BY DEF ContentTypeOK, Collections
<1>3. \A k \in Key : db[n].votes[k] = db[m].votes[k]
  <2> TAKE k \in Key
  <2> QED BY <1>1, <1>2
<1> QED BY <1>2, <1>3

LEMMA Agreement == ScoresInv => ReplicasAgree
<1> SUFFICES ASSUME ScoresInv, NEW n \in Node, NEW m \in Node, done[n] = done[m]
             PROVE  /\ db[n].votes = db[m].votes /\ db[n].karma = db[m].karma
                    /\ db[n].communities = db[m].communities
                    /\ \A i \in Id : OrderFree(db[n].docs[i]) = OrderFree(db[m].docs[i])
    BY DEF ReplicasAgree
<1>1. ContentTypeOK /\ Written /\ Counted /\ Scored
    BY DEF ScoresInv, CountsInv, DocsInv
<1>2. PICK one \in Collections, other \in Collections : one = db[n] /\ other = db[m]
    BY <1>1 DEF ContentTypeOK
<1>3. one.votes = other.votes
    BY <1>1, <1>2, SameVotes DEF ScoresInv
<1>4. one.communities = other.communities
  <2>1. \A c \in CommunityId : one.communities[c] = other.communities[c]
      BY <1>1, <1>2 DEF Counted
  <2>2. /\ one.communities \in [CommunityId -> Nat \cup {Unknown}]
        /\ other.communities \in [CommunityId -> Nat \cup {Unknown}]
      BY DEF Collections
  <2> QED BY <2>1, <2>2
<1>5. ASSUME NEW i \in Id
      PROVE  \/ one.docs[i] = NoDoc /\ other.docs[i] = NoDoc
             \/ /\ one.docs[i] # NoDoc /\ other.docs[i] # NoDoc
                /\ one.docs[i].kind = other.docs[i].kind /\ one.docs[i].by = other.docs[i].by
                /\ one.docs[i].post = other.docs[i].post
                /\ one.docs[i].scope = other.docs[i].scope
                /\ one.docs[i].score = other.docs[i].score
                /\ one.docs[i].comments = other.docs[i].comments
                /\ one.docs[i].awards = other.docs[i].awards
  <2>1. one.docs[i] # NoDoc <=> other.docs[i] # NoDoc
      BY <1>1, <1>2 DEF Written
  <2>2. CASE one.docs[i] = NoDoc
      BY <2>1, <2>2
  <2>3. CASE one.docs[i] # NoDoc
    <3>1. PICK e \in done[n], f \in done[n] :
              /\ e.id = i /\ Tells(e, one.docs[i]) /\ f.id = i /\ Tells(f, other.docs[i])
        BY <1>1, <1>2, <2>1, <2>3 DEF Written
    <3>2. e = f
        BY <1>1, <3>1, OneId DEF ContentTypeOK
    <3>3. /\ one.docs[i].comments = other.docs[i].comments
          /\ one.docs[i].awards = other.docs[i].awards
        BY <1>1, <1>2, <2>1, <2>3 DEF Counted
    <3>4. one.docs[i].score = other.docs[i].score
      <4>1. Voters(one, i) = Voters(other, i) /\ VotesOn(one, i) = VotesOn(other, i)
          BY <1>3 DEF Voters, VotesOn
      <4> QED BY <1>1, <1>2, <2>1, <2>3, <4>1 DEF Scored
    <3> QED BY <2>1, <2>3, <3>1, <3>2, <3>3, <3>4 DEF Tells
  <2> QED BY <2>2, <2>3
<1>6. one.karma = other.karma
  <2>1. ASSUME NEW k \in Key PROVE one.karma[k] = other.karma[k]
    <3>1. DocsBy(one, k) = DocsBy(other, k)
        BY <1>5 DEF DocsBy
    <3>2. \A i \in DocsBy(one, k) : one.docs[i].score = other.docs[i].score
        BY <1>5 DEF DocsBy
    <3>3. ScoresBy(one, k) = ScoresBy(other, k)
        BY <3>1, <3>2 DEF ScoresBy
    <3> QED BY <1>1, <1>2, <3>1, <3>3 DEF Scored
  <2>2. one.karma \in [Key -> Int] /\ other.karma \in [Key -> Int]
      BY DEF Collections
  <2> QED BY <2>1, <2>2
<1>7. \A i \in Id : OrderFree(one.docs[i]) = OrderFree(other.docs[i])
    BY <1>5 DEF OrderFree
<1> QED BY <1>2, <1>3, <1>4, <1>6, <1>7

\* Scores, karma and counts are the sums and numbers of what was committed,
\* through votes replaced, late or never applied (vote-cast.handler.ts:9), for
\* every set of envelopes, keys and nodes, and every order of commits.
THEOREM TalliesMatchCorrect == ContentSpec => []TalliesMatch
<1>1. ScoresInv => TalliesMatch
    BY DEF ScoresInv, CountsInv, Scored, Counted, TalliesMatch
<1> QED BY <1>1, ScoresInit, ScoresStep, PTL DEF ContentSpec

\* Nodes that committed the same envelopes, in any two orders, agree on votes,
\* karma, tallies, and who wrote what where (vote-cast.handler.ts:55).
THEOREM ReplicasAgreeCorrect == ContentSpec => []ReplicasAgree
BY ScoresInit, ScoresStep, Agreement, PTL DEF ContentSpec

-----------------------------------------------------------------------------
(* The rebuild.                                                            *)

\* Where an envelope came from matters to the founding of a community only.
LEMMA OriginMatters ==
    ASSUME NEW coll, NEW e \in Envelope, e.kind # "community", NEW n, NEW m
    PROVE  Project(coll, e, n) = Project(coll, e, m)
<1>1. e.kind \in Kinds \ {"community"}
    BY DEF Envelope
<1> QED BY <1>1 DEF Project, Kinds

\* Whatever is logged leaves the collections well formed.
LEMMA LoggedProjects ==
    ASSUME NEW coll \in Collections, NEW e \in Incoming, NEW n \in Server
    PROVE  Project(coll, e, n) \in Collections
<1>1. CASE e.kind = "community"
  <2>1. <<e.name, n>> \in CommunityId
      BY <1>1, LoggedTyped DEF Envelope, CommunityId
  <2>2. Project(coll, e, n) = [coll EXCEPT !.communities[<<e.name, n>>] = 0]
      BY <1>1 DEF Project
  <2>3. PICK c \in CommunityId : c = <<e.name, n>>
      BY <2>1
  <2>4. [coll.communities EXCEPT ![c] = 0] \in [CommunityId -> Nat \cup {Unknown}]
      BY DEF Collections
  <2>5. Project(coll, e, n) =
          [docs |-> coll.docs, votes |-> coll.votes, karma |-> coll.karma,
           communities |-> [coll.communities EXCEPT ![c] = 0], modlog |-> coll.modlog]
      BY <2>2, <2>3 DEF Collections
  <2> QED BY <2>4, <2>5 DEF Collections
<1>2. CASE e.kind # "community"
  <2>1. Wellformed(e)
      BY <1>2, LoggedTyped DEF Wellformed
  <2> QED BY <2>1, ProjectHolds
<1> QED BY <1>1, <1>2

\* Dropping one collection leaves the others.
LEMMA DropShape ==
    ASSUME NEW coll \in Collections, NEW f \in Fields
    PROVE  LET after == [coll EXCEPT ![f] = Empty[f]] IN
           /\ after \in Collections /\ after[f] = Empty[f]
           /\ \A g \in Fields \ {f} : after[g] = coll[g]
<1> DEFINE D == [Id -> Doc \cup {NoDoc}]
           V == [Key -> [Id -> Envelope \cup {NoVote}]]
           K == [Key -> Int]
           C == [CommunityId -> Nat \cup {Unknown}]
           L == Seq(Id)
           R == [docs : D, votes : V, karma : K, communities : C, modlog : L]
<1>1. coll \in R /\ Empty \in R
    BY EmptyTyped DEF Collections
<1> HIDE DEF D, V, K, C, L
<1>2. PICK none \in R : none = Empty
    BY <1>1
<1>3. \A g \in Fields : [coll EXCEPT ![g] = none[g]] \in R
    BY <1>1, <1>2 DEF Fields
<1>4. DOMAIN coll = Fields
    BY <1>1 DEF Fields
<1> QED BY <1>1, <1>2, <1>3, <1>4 DEF Collections, D, V, K, C, L

\* Collections that hold nothing are the empty ones.
LEMMA AllDropped ==
    ASSUME NEW coll \in Collections, \A f \in Fields : coll[f] = Empty[f]
    PROVE  coll = Empty
<1> DEFINE D == [Id -> Doc \cup {NoDoc}]
           V == [Key -> [Id -> Envelope \cup {NoVote}]]
           K == [Key -> Int]
           C == [CommunityId -> Nat \cup {Unknown}]
           L == Seq(Id)
           R == [docs : D, votes : V, karma : K, communities : C, modlog : L]
<1>1. coll \in R /\ Empty \in R
    BY EmptyTyped DEF Collections
<1> HIDE DEF D, V, K, C, L
<1>2. PICK none \in R : none = Empty
    BY <1>1
<1>3. \A f \in Fields : coll[f] = none[f]
    BY <1>2
<1>4. coll = none
    BY <1>1, <1>3 DEF Fields
<1> QED BY <1>2, <1>4

\* The premise, and what it gives: an envelope is replayed as it was committed.
LEMMA ReplaysAlike ==
    ASSUME OrderlyRebuild, NEW e \in Incoming, NEW coll
    PROVE  Project(coll, e, Deliverer[e]) = Project(coll, e, Own)
<1>1. CASE e.kind = "community"
    BY <1>1 DEF OrderlyRebuild
<1>2. CASE e.kind # "community"
    BY <1>2, LoggedTyped, OriginMatters
<1> QED BY <1>1, <1>2

\* An index is given once, in the order in which calls commit.
IndicesInOrder ==
    /\ \A c, d \in log : c.index = d.index => c = d
    /\ \A c \in log : c.index \in Nat /\ c.index < nextIndex
    /\ \A c \in opened : c.index # NoIndex =>
          c.index < nextIndex /\ \A d \in log : d.index < c.index
    /\ \A c, d \in opened : c.index # NoIndex /\ c.index = d.index => c = d

\* The batch holds the first of what the cursor has yet to replay.
BatchIsFirst ==
    /\ IsFiniteSet(log) /\ batch \subseteq Ahead
    /\ \A c \in batch, d \in Ahead : d.index < c.index => d \in batch

NoneWithin(i, j) == \A c \in log : ~(i <= c.index /\ c.index < j)

\* f tells what the commits had made of the collections before each index.
IsHistory(f) ==
    /\ f \in [Nat -> Collections] /\ f[0] = Empty
    /\ \A c \in log : f[c.index + 1] = Project(f[c.index], c.envelope, Own)
    /\ \A i, j \in Nat : i <= j /\ NoneWithin(i, j) => f[i] = f[j]
    /\ \A i \in Nat : (\A c \in log : c.index < i) => f[i] = ideal

\* What the rebuild has done by now.
Progress(f) ==
    /\ phase \in {"idle", "done"} => store = ideal
    /\ phase = "drop" =>
          at = 0 /\ batch = {} /\ \A g \in Fields \ left : store[g] = Empty[g]
    /\ phase = "replay" => store = f[at]

RebuildInv ==
    /\ RebuildTypeOK
    /\ OrderlyRebuild =>
          /\ IndicesInOrder /\ BatchIsFirst
          /\ \E f : IsHistory(f) /\ Progress(f)

LEMMA RebuildInitTyped == RebuildInit => RebuildTypeOK
BY EmptyTyped DEF RebuildInit, RebuildTypeOK

LEMMA RebuildStepTyped == RebuildTypeOK /\ [RebuildNext]_rebuildVars => RebuildTypeOK'
<1> SUFFICES ASSUME RebuildTypeOK, [RebuildNext]_rebuildVars PROVE RebuildTypeOK'
    OBVIOUS
<1> USE DEF RebuildTypeOK
<1>1. CASE UNCHANGED rebuildVars
    BY <1>1 DEF rebuildVars
<1>2. ASSUME NEW e \in Incoming, Open(e) PROVE RebuildTypeOK'
    BY <1>2 DEF Open, Call
<1>3. ASSUME NEW c \in opened, TakeIndex(c) PROVE RebuildTypeOK'
    BY <1>3 DEF TakeIndex, Call
<1>4. ASSUME NEW c \in opened, CommitCall(c) PROVE RebuildTypeOK'
  <2> DEFINE index == IF c.index = NoIndex THEN nextIndex ELSE c.index
  <2>1. /\ c.envelope \in Incoming /\ Deliverer[c.envelope] \in Server /\ index \in Nat
        /\ c \in Call
      BY LoggedTyped DEF Call, NoIndex
  <2>2. /\ store' \in Collections /\ ideal' \in Collections
        /\ nextIndex' \in Nat /\ opened' \subseteq Call
    <3>1. PICK here \in Collections, there \in Collections : here = store /\ there = ideal
        OBVIOUS
    <3>2. /\ Project(here, c.envelope, Deliverer[c.envelope]) \in Collections
          /\ Project(there, c.envelope, Deliverer[c.envelope]) \in Collections
        BY <2>1, LoggedProjects
    <3> QED BY <1>4, <3>1, <3>2 DEF CommitCall
  <2>3. log' = log \cup {[c EXCEPT !.index = index]}
      BY <1>4 DEF CommitCall
  <2>4. [c EXCEPT !.index = index] \in Call
      BY <2>1 DEF Call
  <2> HIDE DEF index
  <2> QED BY <1>4, <2>2, <2>3, <2>4 DEF CommitCall
<1>5. CASE StartRebuild
    BY <1>5 DEF StartRebuild, Derived
<1>6. CASE Fetch
    BY <1>6 DEF Fetch, Ahead
<1>7. CASE FinishRebuild \/ TearRebuild
    BY <1>7 DEF FinishRebuild, TearRebuild
<1>8. ASSUME NEW f \in Fields, DropCollection(f) PROVE RebuildTypeOK'
  <2>1. PICK here \in Collections : here = store
      OBVIOUS
  <2>2. [here EXCEPT ![f] = Empty[f]] \in Collections
      BY DropShape
  <2> QED BY <1>8, <2>1, <2>2 DEF DropCollection
<1>9. ASSUME NEW c \in batch, ReplayOne(c) PROVE RebuildTypeOK'
  <2>1. c \in log /\ c.envelope \in Incoming /\ Own \in Server /\ c.index + 1 \in Nat
      BY LoggedTyped DEF Call, NoIndex
  <2>2. store' \in Collections
    <3>1. PICK here \in Collections : here = store
        OBVIOUS
    <3>2. Project(here, c.envelope, Own) \in Collections
        BY <2>1, LoggedProjects
    <3> QED BY <1>9, <3>1, <3>2 DEF ReplayOne
  <2> QED BY <1>9, <2>1, <2>2 DEF ReplayOne
<1> QED BY <1>1, <1>2, <1>3, <1>4, <1>5, <1>6, <1>7, <1>8, <1>9 DEF RebuildNext

\* The transaction that commits has a later index than all before it, and an
\* earlier one than all that will.
LEMMA CommitsLast ==
    ASSUME RebuildTypeOK, IndicesInOrder, OrderlyRebuild, NEW c \in opened, CommitCall(c)
    PROVE  \E entry \in Call :
             /\ log' = log \cup {entry} /\ entry.envelope = c.envelope /\ entry.index \in Nat
             /\ \A d \in log : d.index < entry.index
             /\ entry.index < nextIndex'
             /\ \A d \in opened' : d.index # NoIndex => entry.index < d.index
<1> DEFINE index == IF c.index = NoIndex THEN nextIndex ELSE c.index
<1>1. /\ c \in Call /\ nextIndex \in Nat /\ InOrder /\ opened \subseteq Call
      /\ \A d \in log : d.index \in Nat
    BY DEF RebuildTypeOK, OrderlyRebuild, IndicesInOrder
<1>2. /\ log' = log \cup {[c EXCEPT !.index = index]} /\ opened' = opened \ {c}
      /\ nextIndex' = (IF c.index = NoIndex THEN nextIndex + 1 ELSE nextIndex)
      /\ \A d \in opened : d.index # NoIndex => d.index >= index
    BY <1>1 DEF CommitCall
<1>3. index \in Nat /\ index < nextIndex' /\ \A d \in log : d.index < index
    BY <1>1, <1>2 DEF Call, IndicesInOrder
<1>4. ASSUME NEW d \in opened', d.index # NoIndex PROVE index < d.index
  <2>1. d \in opened /\ d # c /\ d.index \in Nat /\ d.index >= index
      BY <1>1, <1>2, <1>4 DEF Call
  <2>2. CASE c.index = NoIndex
      BY <1>1, <1>4, <2>1, <2>2 DEF IndicesInOrder
  <2>3. CASE c.index # NoIndex
      BY <1>3, <1>4, <2>1, <2>3 DEF IndicesInOrder
  <2> QED BY <2>2, <2>3
<1> HIDE DEF index
<1>5. PICK entry \in Call : entry = [c EXCEPT !.index = index]
    BY <1>1, <1>3 DEF Call
<1>6. entry.envelope = c.envelope /\ entry.index = index
    BY <1>1, <1>5 DEF Call
<1> QED BY <1>2, <1>3, <1>4, <1>5, <1>6

\* Then the history goes on where it had come to.
LEMMA HistoryGrows ==
    ASSUME RebuildTypeOK, RebuildTypeOK', OrderlyRebuild, NEW c \in opened, CommitCall(c),
           NEW f, IsHistory(f), NEW entry \in Call,
           log' = log \cup {entry}, entry.envelope = c.envelope, entry.index \in Nat,
           \A d \in log : d.index \in Nat /\ d.index < entry.index
    PROVE  \E g : IsHistory(g)'
<1> DEFINE x == entry.index
           e == entry.envelope
           g == [i \in Nat |-> IF i <= x THEN f[i] ELSE Project(f[x], e, Own)]
<1>1. f[x] = ideal /\ x \in Nat /\ e \in Incoming
    BY DEF IsHistory, Call
<1>2. Project(f[x], e, Own) = ideal'
  <2>1. ideal' = Project(ideal, e, Deliverer[e])
      BY DEF CommitCall
  <2> QED BY <1>1, <2>1, ReplaysAlike
<1>3. ideal' \in Collections
    BY DEF RebuildTypeOK
<1>4. g = [i \in Nat |-> IF i <= x THEN f[i] ELSE ideal']
    BY <1>2
<1> HIDE DEF g
<1>5. /\ \A i \in Nat : i <= x => g[i] = f[i]
      /\ \A i \in Nat : ~(i <= x) => g[i] = ideal'
      /\ g \in [Nat -> Collections]
    BY <1>3, <1>4 DEF IsHistory
<1>6. g[0] = Empty
    BY <1>1, <1>5 DEF IsHistory
<1>7. ASSUME NEW d \in log' PROVE g[d.index + 1] = Project(g[d.index], d.envelope, Own)
  <2>1. CASE d = entry
    <3>1. d.index + 1 \in Nat /\ ~(d.index + 1 <= x) /\ d.index <= x /\ d.index = x
        BY <1>1, <2>1
    <3>2. g[d.index + 1] = ideal' /\ g[d.index] = f[x]
        BY <1>1, <1>5, <3>1
    <3> QED BY <1>2, <2>1, <3>2
  <2>2. CASE d \in log
    <3>1. d.index + 1 \in Nat /\ d.index \in Nat /\ d.index + 1 <= x /\ d.index <= x
        BY <1>1, <2>2
    <3>2. g[d.index + 1] = f[d.index + 1] /\ g[d.index] = f[d.index]
        BY <1>5, <3>1
    <3> QED BY <2>2, <3>2 DEF IsHistory
  <2> QED BY <2>1, <2>2
<1>8. ASSUME NEW i \in Nat, NEW j \in Nat, i <= j, NoneWithin(i, j)' PROVE g[i] = g[j]
  <2>1. NoneWithin(i, j) /\ ~(i <= x /\ x < j)
      BY <1>8 DEF NoneWithin
  <2>2. CASE j <= x
    <3>1. i <= x
        BY <1>1, <1>8, <2>2
    <3>2. f[i] = f[j]
        BY <1>8, <2>1 DEF IsHistory
    <3> QED BY <1>5, <2>2, <3>1, <3>2
  <2>3. CASE ~(j <= x)
    <3>1. ~(i <= x)
        BY <1>1, <2>1, <2>3
    <3> QED BY <1>5, <2>3, <3>1
  <2> QED BY <2>2, <2>3
<1>9. ASSUME NEW i \in Nat, \A d \in log' : d.index < i PROVE g[i] = ideal'
  <2>1. ~(i <= x)
      BY <1>1, <1>9
  <2> QED BY <1>5, <2>1
<1> QED BY <1>5, <1>6, <1>7, <1>8, <1>9 DEF IsHistory

LEMMA CommitReproduces ==
    ASSUME RebuildInv, RebuildTypeOK', OrderlyRebuild, NEW c \in opened, CommitCall(c)
    PROVE  RebuildInv'
<1>1. /\ RebuildTypeOK /\ IndicesInOrder /\ BatchIsFirst
      /\ UNCHANGED <<phase, left, at, batch>> /\ phase \in {"idle", "done"}
      /\ opened' \subseteq opened /\ nextIndex \in Nat /\ nextIndex' \in Nat
      /\ nextIndex' >= nextIndex
    BY DEF RebuildInv, CommitCall, Running, OrderlyRebuild, RebuildTypeOK
<1>2. PICK f : IsHistory(f) /\ Progress(f)
    BY DEF RebuildInv
<1>3. PICK entry \in Call :
        /\ log' = log \cup {entry} /\ entry.envelope = c.envelope /\ entry.index \in Nat
        /\ \A d \in log : d.index < entry.index
        /\ entry.index < nextIndex'
        /\ \A d \in opened' : d.index # NoIndex => entry.index < d.index
    BY <1>1, CommitsLast
<1>4. PICK g : IsHistory(g)'
    BY <1>1, <1>2, <1>3, HistoryGrows DEF IndicesInOrder
<1>5. Progress(g)'
  <2>1. store = ideal
      BY <1>1, <1>2 DEF Progress
  <2>2. store' = ideal'
      BY <2>1 DEF CommitCall
  <2> QED BY <1>1, <2>2 DEF Progress
<1>6. IndicesInOrder'
  <2>1. \A d \in log' : d.index \in Nat /\ d.index < nextIndex'
      BY <1>1, <1>3 DEF IndicesInOrder
  <2>2. \A d1, d2 \in log' : d1.index = d2.index => d1 = d2
      BY <1>3, <2>1, <1>1 DEF IndicesInOrder
  <2>3. \A d \in opened' : d.index # NoIndex => d.index < nextIndex'
      BY <1>1 DEF IndicesInOrder, RebuildTypeOK, Call
  <2>4. \A d \in opened' : d.index # NoIndex => \A b \in log' : b.index < d.index
      BY <1>1, <1>3 DEF IndicesInOrder
  <2>5. \A d1, d2 \in opened' : d1.index # NoIndex /\ d1.index = d2.index => d1 = d2
      BY <1>1 DEF IndicesInOrder
  <2> QED BY <2>1, <2>2, <2>3, <2>4, <2>5 DEF IndicesInOrder
<1>7. BatchIsFirst'
  <2>1. IsFiniteSet(log')
      BY <1>1, <1>3, FS_AddElement DEF BatchIsFirst
  <2>2. batch' \subseteq Ahead'
      BY <1>1, <1>3 DEF BatchIsFirst, Ahead
  <2>3. ASSUME NEW b \in batch', NEW d \in Ahead', d.index < b.index PROVE d \in batch'
    <3>1. b \in log /\ d \in log' /\ d.index >= at
        BY <1>1, <2>3 DEF BatchIsFirst, Ahead
    <3>2. d # entry
        BY <1>1, <1>3, <2>3, <3>1 DEF IndicesInOrder
    <3>3. d \in Ahead
        BY <1>3, <3>1, <3>2 DEF Ahead
    <3> QED BY <1>1, <2>3, <3>3 DEF BatchIsFirst
  <2> QED BY <2>1, <2>2, <2>3 DEF BatchIsFirst
<1> QED BY <1>4, <1>5, <1>6, <1>7 DEF RebuildInv

\* A step of the rebuild commits nothing, so the history stands.
LEMMA HistoryStands ==
    ASSUME NEW f, log' = log, ideal' = ideal
    PROVE  IsHistory(f)' <=> IsHistory(f)
BY DEF IsHistory, NoneWithin

\* What a replay has come to is what the commits had made there.
LEMMA ReplayReproduces ==
    ASSUME RebuildInv, RebuildTypeOK', OrderlyRebuild, NEW c \in batch, ReplayOne(c)
    PROVE  RebuildInv'
<1>1. /\ RebuildTypeOK /\ IndicesInOrder /\ BatchIsFirst /\ phase = "replay"
      /\ UNCHANGED <<ideal, log, nextIndex, opened, phase, left>>
      /\ store' = Project(store, c.envelope, Own) /\ batch' = batch \ {c}
      /\ at' = c.index + 1 /\ at \in Nat /\ \A d \in batch : c.index <= d.index
    BY DEF RebuildInv, ReplayOne, FirstOf, RebuildTypeOK
<1>2. PICK f : IsHistory(f) /\ Progress(f)
    BY DEF RebuildInv
<1>3. c \in log /\ c.index \in Nat /\ at <= c.index /\ \A d \in log : d.index \in Nat
    BY <1>1 DEF BatchIsFirst, Ahead, IndicesInOrder
<1>4. NoneWithin(at, c.index)
  <2> SUFFICES ASSUME NEW d \in log, at <= d.index, d.index < c.index PROVE FALSE
      BY DEF NoneWithin
  <2>1. d \in batch
      BY <1>1, <1>3 DEF BatchIsFirst, Ahead
  <2> QED BY <1>1, <1>3, <2>1
<1>5. store = f[c.index]
    BY <1>1, <1>2, <1>3, <1>4 DEF IsHistory, Progress
<1>6. store' = f[at']
    BY <1>1, <1>2, <1>3, <1>5 DEF IsHistory
<1>7. IsHistory(f)' /\ Progress(f)'
    BY <1>1, <1>2, <1>6, HistoryStands DEF Progress
<1>8. BatchIsFirst'
  <2>1. batch' \subseteq Ahead'
    <3> SUFFICES ASSUME NEW d \in batch, d # c PROVE d \in log /\ d.index >= c.index + 1
        BY <1>1 DEF Ahead
    <3>1. d \in log /\ c.index <= d.index
        BY <1>1 DEF BatchIsFirst, Ahead
    <3>2. d.index # c.index
        BY <1>1, <1>3, <3>1 DEF IndicesInOrder
    <3> QED BY <1>3, <3>1, <3>2
  <2>2. ASSUME NEW b \in batch', NEW d \in Ahead', d.index < b.index PROVE d \in batch'
    <3>1. d \in log /\ d.index >= c.index + 1
        BY <1>1 DEF Ahead
    <3>2. d \in Ahead /\ d # c
        BY <1>1, <1>3, <3>1 DEF Ahead
    <3> QED BY <1>1, <2>2, <3>2 DEF BatchIsFirst
  <2> QED BY <1>1, <2>1, <2>2 DEF BatchIsFirst
<1>9. IndicesInOrder'
    BY <1>1 DEF IndicesInOrder
<1> QED BY <1>7, <1>8, <1>9 DEF RebuildInv

\* When the last collection is dropped nothing is left, as before the first
\* index.
LEMMA DropReproduces ==
    ASSUME RebuildInv, RebuildTypeOK', OrderlyRebuild, NEW g \in Fields, DropCollection(g)
    PROVE  RebuildInv'
<1>1. /\ RebuildTypeOK /\ IndicesInOrder /\ BatchIsFirst /\ phase = "drop"
      /\ UNCHANGED <<ideal, log, nextIndex, opened, at, batch>>
      /\ store' = [store EXCEPT ![g] = Empty[g]] /\ left' = left \ {g}
      /\ phase' = IF left' = {} THEN "replay" ELSE "drop"
      /\ store \in Collections /\ store' \in Collections /\ left \subseteq Fields
    BY DEF RebuildInv, DropCollection, RebuildTypeOK
<1>2. PICK f : IsHistory(f) /\ Progress(f)
    BY DEF RebuildInv
<1>3. at = 0 /\ batch = {} /\ \A h \in Fields \ left : store[h] = Empty[h]
    BY <1>1, <1>2 DEF Progress
<1>4. \A h \in Fields \ left' : store'[h] = Empty[h]
  <2>1. PICK here \in Collections, there \in Collections :
            here = store /\ there = store' /\ there = [here EXCEPT ![g] = Empty[g]]
      BY <1>1
  <2>2. there[g] = Empty[g] /\ \A h \in Fields \ {g} : there[h] = here[h]
      BY <2>1, DropShape
  <2> QED BY <1>1, <1>3, <2>1, <2>2
<1>5. left' = {} => store' = Empty
  <2>1. PICK there \in Collections : there = store'
      BY <1>1
  <2> QED BY <1>4, <2>1, AllDropped
<1>6. IsHistory(f)' /\ Progress(f)'
  <2>1. IsHistory(f)'
      BY <1>1, <1>2, HistoryStands
  <2>2. phase' = "replay" => store' = f[at']
      BY <1>1, <1>2, <1>3, <1>5 DEF IsHistory
  <2>3. phase' = "drop" =>
            at' = 0 /\ batch' = {} /\ \A h \in Fields \ left' : store'[h] = Empty[h]
      BY <1>1, <1>3, <1>4
  <2> QED BY <1>1, <2>1, <2>2, <2>3 DEF Progress
<1>7. IndicesInOrder' /\ BatchIsFirst'
    BY <1>1 DEF IndicesInOrder, BatchIsFirst, Ahead
<1> QED BY <1>6, <1>7 DEF RebuildInv

\* The cursor fetches the first of what is ahead.
LEMMA FetchesFirst ==
    ASSUME RebuildTypeOK, IndicesInOrder, BatchIsFirst, Fetch
    PROVE  BatchIsFirst'
<1> DEFINE Below(c) == {d \in Ahead : d.index < c.index}
<1>1. /\ batch' = {c \in Ahead : Cardinality(Below(c)) < BatchSize}
      /\ Ahead' = Ahead /\ log' = log
    BY DEF Fetch, Ahead
<1>2. ASSUME NEW b \in batch', NEW d \in Ahead, d.index < b.index PROVE d \in batch'
  <2>1. b \in Ahead /\ \A c \in Ahead : c.index \in Nat
      BY <1>1 DEF Ahead, IndicesInOrder
  <2>2. Below(d) \subseteq Below(b)
      BY <1>2, <2>1
  <2>3. IsFiniteSet(Below(b)) /\ IsFiniteSet(Below(d))
    <3>1. Below(b) \subseteq log /\ Below(d) \subseteq log /\ IsFiniteSet(log)
        BY DEF Ahead, BatchIsFirst
    <3> HIDE DEF Below
    <3> QED BY <3>1, FS_Subset
  <2>4. Cardinality(Below(d)) <= Cardinality(Below(b))
        /\ Cardinality(Below(d)) \in Nat /\ Cardinality(Below(b)) \in Nat
    <3> HIDE DEF Below
    <3> QED BY <2>2, <2>3, FS_Subset, FS_CardinalityType
  <2>5. Cardinality(Below(d)) < BatchSize
    <3>1. Cardinality(Below(b)) < BatchSize
        BY <1>1, <1>2
    <3> HIDE DEF Below
    <3> QED BY <2>4, <3>1, RebuildTyped
  <2> QED BY <1>1, <2>5
<1> QED BY <1>1, <1>2 DEF BatchIsFirst

LEMMA RebuildInitHolds == RebuildInit => RebuildInv
<1> SUFFICES ASSUME RebuildInit PROVE RebuildInv
    OBVIOUS
<1>1. RebuildTypeOK
    BY RebuildInitTyped
<1>2. IndicesInOrder /\ BatchIsFirst
    BY FS_EmptySet DEF RebuildInit, IndicesInOrder, BatchIsFirst, Ahead
<1>3. \E f : IsHistory(f) /\ Progress(f)
  <2> DEFINE f == [i \in Nat |-> Empty]
  <2>1. IsHistory(f)
      BY EmptyTyped DEF RebuildInit, IsHistory
  <2>2. Progress(f)
      BY DEF RebuildInit, Progress
  <2> QED BY <2>1, <2>2
<1> QED BY <1>1, <1>2, <1>3 DEF RebuildInv

LEMMA RebuildStepHolds == RebuildInv /\ [RebuildNext]_rebuildVars => RebuildInv'
<1> SUFFICES ASSUME RebuildInv, [RebuildNext]_rebuildVars PROVE RebuildInv'
    OBVIOUS
<1>t. RebuildTypeOK /\ RebuildTypeOK'
    BY RebuildStepTyped DEF RebuildInv
<1>o. CASE ~OrderlyRebuild
    BY <1>t, <1>o DEF RebuildInv, OrderlyRebuild
<1>p. CASE OrderlyRebuild
  <2>0. /\ IndicesInOrder /\ BatchIsFirst /\ Quiet /\ nextIndex \in Nat /\ opened \subseteq Call
        /\ \A c \in opened : c.index \in Nat \cup {NoIndex}
      BY <1>p, <1>t DEF RebuildInv, OrderlyRebuild, RebuildTypeOK, Call
  <2>f. PICK f : IsHistory(f) /\ Progress(f)
      BY <1>p DEF RebuildInv
  <2>1. CASE UNCHANGED rebuildVars
    <3>1. IsHistory(f)' /\ Progress(f)'
        BY <2>1, <2>f, HistoryStands DEF rebuildVars, Progress
    <3>2. IndicesInOrder' /\ BatchIsFirst'
        BY <2>0, <2>1 DEF rebuildVars, IndicesInOrder, BatchIsFirst, Ahead
    <3> QED BY <1>t, <3>1, <3>2 DEF RebuildInv
  <2>2. ASSUME NEW e \in Incoming, Open(e) PROVE RebuildInv'
    <3>1. IsHistory(f)' /\ Progress(f)'
        BY <2>2, <2>f, HistoryStands DEF Open, Progress
    <3>2. BatchIsFirst'
        BY <2>0, <2>2 DEF Open, BatchIsFirst, Ahead
    <3>3. IndicesInOrder'
        BY <2>0, <2>2 DEF Open, IndicesInOrder
    <3> QED BY <1>t, <3>1, <3>2, <3>3 DEF RebuildInv
  <2>3. ASSUME NEW c \in opened, TakeIndex(c) PROVE RebuildInv'
    <3>1. IsHistory(f)' /\ Progress(f)'
        BY <2>3, <2>f, HistoryStands DEF TakeIndex, Progress
    <3>2. BatchIsFirst'
        BY <2>0, <2>3 DEF TakeIndex, BatchIsFirst, Ahead
    <3>3. PICK taken : taken = [c EXCEPT !.index = nextIndex]
        OBVIOUS
    <3>4. /\ taken.index = nextIndex /\ nextIndex' = nextIndex + 1 /\ log' = log
          /\ opened' = (opened \ {c}) \cup {taken}
        BY <2>0, <2>3, <3>3 DEF TakeIndex, Call
    <3>5. IndicesInOrder'
      <4>1. \A d \in log' : d.index \in Nat /\ d.index < nextIndex'
          BY <2>0, <3>4 DEF IndicesInOrder
      <4>2. \A d \in opened' : d.index # NoIndex =>
                d.index < nextIndex' /\ \A b \in log' : b.index < d.index
          BY <2>0, <3>4 DEF IndicesInOrder
      <4>3. \A d1, d2 \in opened' : d1.index # NoIndex /\ d1.index = d2.index => d1 = d2
          BY <2>0, <3>4 DEF IndicesInOrder
      <4>4. \A d1, d2 \in log' : d1.index = d2.index => d1 = d2
          BY <2>0, <3>4 DEF IndicesInOrder
      <4> QED BY <4>1, <4>2, <4>3, <4>4 DEF IndicesInOrder
    <3> QED BY <1>t, <3>1, <3>2, <3>5 DEF RebuildInv
  <2>4. ASSUME NEW c \in opened, CommitCall(c) PROVE RebuildInv'
      BY <1>p, <1>t, <2>4, CommitReproduces
  <2>5. CASE StartRebuild
    <3>1. IsHistory(f)' /\ Progress(f)'
        BY <2>5, <2>f, HistoryStands DEF StartRebuild, Progress, Derived
    <3>2. IndicesInOrder' /\ BatchIsFirst'
        BY <2>0, <2>5 DEF StartRebuild, IndicesInOrder, BatchIsFirst, Ahead
    <3> QED BY <1>t, <3>1, <3>2 DEF RebuildInv
  <2>6. CASE Fetch
    <3>1. IsHistory(f)' /\ Progress(f)'
        BY <2>6, <2>f, HistoryStands DEF Fetch, Progress
    <3>2. IndicesInOrder'
        BY <2>0, <2>6 DEF Fetch, IndicesInOrder
    <3> QED BY <1>t, <2>0, <2>6, <3>1, <3>2, FetchesFirst DEF RebuildInv
  <2>7. CASE FinishRebuild
    <3>1. \A c \in log : c.index < at
        BY <1>t, <2>0, <2>7 DEF FinishRebuild, Ahead, IndicesInOrder, RebuildTypeOK
    <3>2. store = ideal
        BY <1>t, <2>7, <2>f, <3>1 DEF FinishRebuild, IsHistory, Progress, RebuildTypeOK
    <3>3. IsHistory(f)' /\ Progress(f)'
        BY <2>7, <2>f, <3>2, HistoryStands DEF FinishRebuild, Progress
    <3>4. IndicesInOrder' /\ BatchIsFirst'
        BY <2>0, <2>7 DEF FinishRebuild, IndicesInOrder, BatchIsFirst, Ahead
    <3> QED BY <1>t, <3>3, <3>4 DEF RebuildInv
  <2>8. CASE TearRebuild
    <3>1. IsHistory(f)' /\ Progress(f)'
        BY <2>8, <2>f, HistoryStands DEF TearRebuild, Progress
    <3>2. IndicesInOrder' /\ BatchIsFirst'
        BY <2>0, <2>8 DEF TearRebuild, IndicesInOrder, BatchIsFirst, Ahead
    <3> QED BY <1>t, <3>1, <3>2 DEF RebuildInv
  <2>9. ASSUME NEW g \in Fields, DropCollection(g) PROVE RebuildInv'
      BY <1>p, <1>t, <2>9, DropReproduces
  <2>10. ASSUME NEW c \in batch, ReplayOne(c) PROVE RebuildInv'
      BY <1>p, <1>t, <2>10, ReplayReproduces
  <2> QED BY <2>1, <2>2, <2>3, <2>4, <2>5, <2>6, <2>7, <2>8, <2>9, <2>10 DEF RebuildNext
<1> QED BY <1>o, <1>p

\* The log and the collections are well formed while they are rebuilt.
THEOREM RebuildTypeCorrect == RebuildSpec => []RebuildTypeOK
BY RebuildInitTyped, RebuildStepTyped, PTL DEF RebuildSpec

\* For every log, a rebuild of a stopped node that comes to its end leaves
\* what the commits had made of the collections.
THEOREM RebuildCorrect == RebuildSpec => []OrderlyRebuildReproduces
<1>1. RebuildInv => OrderlyRebuildReproduces
    BY DEF RebuildInv, OrderlyRebuildReproduces, RebuildReproduces, Progress
<1> QED BY <1>1, RebuildInitHolds, RebuildStepHolds, PTL DEF RebuildSpec
=============================================================================
