------------------------------ MODULE MCForum ------------------------------
(***************************************************************************)
(* The Forum's state machines for TLC: content on two nodes, the rebuild   *)
(* of one node's collections, and a community. Each behaviour is one of    *)
(* them while the others rest.                                             *)
(***************************************************************************)
EXTENDS ForumContent, Rebuild, Community, TLC

CONSTANTS n1, n2, ann, bob, mod, forum, staff, crew, Parts

-----------------------------------------------------------------------------
(* What clients sign in four threads.                                      *)

Signed(kind, id, by, when) ==
    [kind |-> kind, id |-> id, by |-> by, at |-> when, target |-> None, parent |-> None,
     value |-> 0, verb |-> None, scope |-> None, name |-> None]

Post(id, by) == [Signed("post", id, by, 1) EXCEPT !.scope = <<forum, n1>>]
Comment(id, by, post, parent) ==
    [Signed("comment", id, by, 2) EXCEPT !.target = post, !.parent = parent]
On(kind, id, by, target) == [Signed(kind, id, by, 2) EXCEPT !.target = target]
Vote(id, by, target, when, value) ==
    [Signed("vote", id, by, when) EXCEPT !.target = target, !.value = value]
Verb(id, target, verb) ==
    [Signed("verb", id, mod, 3) EXCEPT !.target = target, !.verb = verb,
                                       !.scope = <<forum, n1>>]
Found(id, by) == [Signed("community", id, by, 1) EXCEPT !.name = forum]

\* A comment, a reply to it, an award and a vote.
Thread == {Post(1, ann), Comment(2, bob, 1, None), Comment(3, ann, 1, 2),
           On("award", 4, ann, 2), Vote(5, ann, 2, 2, 1)}
\* One key changes its mind twice, twice at the same time by its clock.
Ballot == {Post(1, ann), Vote(2, bob, 1, 1, 1), Vote(3, bob, 1, 2, -1),
           Vote(4, bob, 1, 2, 0), Vote(5, ann, 1, 1, 1)}
\* An edit, the author's own delete, and moderators at odds.
Dispute == {Post(1, ann), On("update", 2, ann, 1), On("delete", 3, ann, 1),
            Verb(4, 1, "APPROVE"), Verb(5, 1, "REMOVE")}
\* A lock that races a comment and an edit of it.
Locked == {Post(1, ann), Verb(2, 1, "LOCK"), Comment(3, bob, 1, None),
           On("update", 4, bob, 3), Verb(5, 3, "COLLAPSE")}

MCWorkload == {Thread, Ballot, Dispute, Locked}

\* A community with a thread of everything.
MCLogged == {Found(1, ann), Post(2, ann), Comment(3, bob, 2, None), Vote(4, bob, 2, 1, 1),
             On("delete", 5, ann, 2)}
OwnDeliverer == [e \in MCLogged |-> n1]
PeerDeliverer == [e \in MCLogged |-> n2]

-----------------------------------------------------------------------------
(* What members of a community sign.                                       *)

Plain(kind, by, when) ==
    [kind |-> kind, by |-> by, at |-> when, subject |-> by, until |-> Never, role |-> staff,
     mask |-> {}, default |-> FALSE, on |-> TRUE]
Mod(kind, by, when, subject, until) ==
    [Plain(kind, by, when) EXCEPT !.subject = subject, !.until = until]
Grant(kind, by, when, role, subject) ==
    [Plain(kind, by, when) EXCEPT !.role = role, !.subject = subject]
Role_(by, when, role, mask, default) ==
    [Plain("define", by, when) EXCEPT !.role = role, !.mask = mask, !.default = default]

\* A member comes and goes around a ban, a mute and their lifting.
Comings == {Plain("create", ann, 1), Plain("join", bob, 2), Mod("BAN", ann, 3, bob, Never),
             Plain("leave", bob, 4), Mod("MUTE", ann, 5, bob, 6), Plain("join", bob, 7),
             Mod("UNBAN", ann, 8, bob, Never), Mod("UNMUTE", ann, 9, bob, Never)}
\* A delegate makes roles while the role it acts by is changed and revoked.
Delegate == {Plain("create", ann, 1), Role_(ann, 2, staff, {"role", "update"}, FALSE),
             Grant("assign", ann, 3, staff, bob), Role_(bob, 4, crew, {"update"}, TRUE),
             Plain("join", mod, 5), Role_(ann, 6, staff, {"role"}, FALSE),
             Grant("revoke", ann, 7, staff, bob), Role_(bob, 8, crew, {"ban", "kick"}, FALSE)}
\* A member is kicked, comes back, leaves twice; the community is archived.
Turnstile == {Plain("create", ann, 1), Plain("join", bob, 2), Mod("KICK", ann, 3, bob, Never),
              Plain("join", bob, 4), Plain("leave", bob, 5), Plain("leave", bob, 6),
              Plain("join", mod, 7), Plain("archive", ann, 8)}
\* A key is rotated, and two found the community.
Handover == {Plain("create", ann, 1), Plain("create", mod, 1), Plain("join", bob, 2),
             Mod("rotate", ann, 3, bob, Never), Mod("BAN", ann, 2, bob, 5),
             Plain("leave", bob, 6)}

MCSessions == {Comings, Delegate, Turnstile, Handover}

-----------------------------------------------------------------------------
VARIABLE part   \* the machine that runs

ForumInit ==
    /\ ContentInit /\ RebuildInit /\ CommunityInit /\ part \in Parts
    /\ part # "content" => work = Thread
    /\ part # "community" => acts = Comings

ForumNext ==
    /\ UNCHANGED part
    /\ \/ part = "content" /\ ContentNext /\ UNCHANGED <<rebuildVars, communityVars>>
       \/ part = "rebuild" /\ RebuildNext /\ UNCHANGED <<contentVars, communityVars>>
       \/ part = "community" /\ CommunityNext /\ UNCHANGED <<contentVars, rebuildVars>>

ForumSpec ==
    ForumInit /\ [][ForumNext]_<<contentVars, rebuildVars, communityVars, part>>
=============================================================================
