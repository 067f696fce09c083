----------------------------- MODULE Community -----------------------------
(***************************************************************************)
(* One community on one node: its founding, membership, moderation of      *)
(* members, roles, and the rotation of keys. An act is a signed envelope.  *)
(* Each is authorized against the collections, then projected by a         *)
(* transaction in which others may have committed in between. Permissions  *)
(* and restrictions are judged at the act's own created_at_ms.             *)
(*                                                                         *)
(* Permissions that no handler here asks for are left out, and so are the  *)
(* instance-wide flags, which no handler grants. What a community's        *)
(* settings hold, and its audit chain, are left out.                       *)
(***************************************************************************)
EXTENDS Naturals, Sequences, FiniteSets

CONSTANTS
    Author,     \* author keys
    Role,       \* role names
    Sessions,   \* the sets of acts that may be signed
    MaxPending, \* bound on the acts authorized and not yet committed
    Nobody,     \* the community is not founded
    NoRow, NoRole,
    Never       \* a restriction without expiry, or none

Permission == {"read", "post", "update", "ban", "unban", "kick", "role", "moderate"}
DefaultPermissions == {"read", "post"}
ModeratorPermissions == {"read", "post", "ban", "unban", "kick", "moderate"}

MembershipFlag == {"MEMBER", "MODERATOR", "BANNED", "MUTED"}
MemberVerbs == {"BAN", "UNBAN", "MUTE", "UNMUTE", "KICK"}

\* VERB_PERMISSION
Requires ==
    [BAN |-> "ban", UNBAN |-> "unban", MUTE |-> "ban", UNMUTE |-> "unban", KICK |-> "kick"]

Kind == {"create", "join", "leave", "define", "assign", "revoke", "archive", "rotate"}
            \cup MemberVerbs

\* subject: who is moderated, assigned, or the replacement key. until: the
\* expiry. mask, default: of the role defined. on: archived or restored.
Act ==
    [kind : Kind, by : Author, at : Nat, subject : Author, until : Nat \cup {Never}, role : Role,
     mask : SUBSET Permission, default : BOOLEAN, on : BOOLEAN]

Row == [flags : SUBSET MembershipFlag, until : Nat \cup {Never}]
RoleDoc == [mask : SUBSET Permission, default : BOOLEAN]

ASSUME SessionsTyped ==
    /\ Sessions \subseteq SUBSET Act /\ MaxPending \in Nat
    /\ \A session \in Sessions :
          /\ IsFiniteSet(session)
          /\ \A a \in session : a.kind \in MemberVerbs /\ a.until # Never => a.until > a.at
ASSUME AuthorsFinite == IsFiniteSet(Author)
ASSUME MembershipSentinels ==
    /\ Nobody \notin Author /\ NoRow \notin Row /\ NoRole \notin RoleDoc /\ Never \notin Nat

VARIABLES
    acts,       \* what is signed in this behaviour
    pending,    \* acts that were authorized
    applied,    \* acts that were committed
    owner,      \* ownerKey
    archived, count,    \* archived, memberCount
    rows,       \* forum_memberships
    roles,      \* forum_roles
    assigned,   \* forum_role_assignments
    modlog      \* forum_mod_events

communityVars ==
    <<acts, pending, applied, owner, archived, count, rows, roles, assigned, modlog>>
records == <<owner, archived, count, rows, roles, assigned, modlog>>

CommunityTypeOK ==
    /\ acts \in Sessions /\ pending \subseteq acts /\ applied \subseteq acts
    /\ owner \in Author \cup {Nobody} /\ archived \in BOOLEAN /\ count \in Nat
    /\ rows \in [Author -> Row \cup {NoRow}]
    /\ roles \in [Role -> RoleDoc \cup {NoRole}]
    /\ assigned \subseteq Author \X Role
    /\ modlog \in Seq(Act)

CommunityInit ==
    /\ acts \in Sessions /\ pending = {} /\ applied = {}
    /\ owner = Nobody /\ archived = FALSE /\ count = 0
    /\ rows = [k \in Author |-> NoRow]
    /\ roles = [r \in Role |-> NoRole]
    /\ assigned = {} /\ modlog = <<>>

-----------------------------------------------------------------------------
(* shared/permissions.ts                                                   *)

RowOf(k) == IF rows[k] = NoRow THEN [flags |-> {}, until |-> Never] ELSE rows[k]

Active(row, at) == row.until = Never \/ row.until > at
BannedAt(k, at) == "BANNED" \in RowOf(k).flags /\ Active(RowOf(k), at)
MutedAt(k, at) == "MUTED" \in RowOf(k).flags /\ Active(RowOf(k), at)

RolesOf(k) == {r \in Role : <<k, r>> \in assigned /\ roles[r] # NoRole}
FromRoles(k) == UNION {roles[r].mask : r \in RolesOf(k)}

\* A ban comes before everything; a mute is no match for a role.
resolvePermissions(k, at) ==
    IF BannedAt(k, at) THEN {}
    ELSE IF k = owner THEN Permission
    ELSE {"read"}
         \cup ((IF "MEMBER" \in RowOf(k).flags THEN DefaultPermissions ELSE {})
                  \ (IF MutedAt(k, at) THEN {"post"} ELSE {}))
         \cup (IF "MODERATOR" \in RowOf(k).flags THEN ModeratorPermissions ELSE {})
         \cup FromRoles(k)

Holds(a) == resolvePermissions(a.by, a.at)
MaskOf(r) == IF roles[r] = NoRole THEN {} ELSE roles[r].mask

UnboundedMask(a) == "role" \in Holds(a)
MayDefine(a) ==
    /\ "role" \in Holds(a)
    /\ a.mask \subseteq Holds(a)
    /\ MaskOf(a.role) \subseteq Holds(a)

\* authorize, and step 10: a rotated key signs nothing more.
Allowed(a) ==
    /\ \A r \in applied : r.kind = "rotate" /\ r.by = a.by => a.at < r.at
    /\ CASE a.kind = "create" -> owner = Nobody
         [] a.kind = "join" -> owner # Nobody /\ ~archived /\ ~BannedAt(a.by, a.at)
         [] a.kind \in {"leave", "rotate"} -> TRUE
         [] a.kind = "archive" -> owner = a.by
         [] a.kind = "define" -> owner # Nobody /\ MayDefine(a)
         [] a.kind \in {"assign", "revoke"} ->
               /\ owner # Nobody /\ "role" \in Holds(a)
               /\ roles[a.role] # NoRole /\ roles[a.role].mask \subseteq Holds(a)
               /\ a.kind = "revoke" => a.subject # owner
         [] a.kind \in MemberVerbs ->
               /\ owner # Nobody /\ Requires[a.kind] \in Holds(a)
               /\ a.subject # owner

Authorize(a) ==
    /\ a \in acts \ (pending \cup applied) /\ Cardinality(pending) < MaxPending
    /\ Allowed(a)
    /\ pending' = pending \cup {a}
    /\ UNCHANGED <<acts, applied, records>>

-----------------------------------------------------------------------------
(* project                                                                 *)

Project1(a, kind) ==
    /\ a \in pending /\ a.kind = kind
    /\ pending' = pending \ {a} /\ applied' = applied \cup {a}
    /\ UNCHANGED acts

Create(a) ==
    /\ Project1(a, "create")
    /\ owner' = a.by /\ archived' = FALSE /\ count' = 1
    /\ rows' = [rows EXCEPT ![a.by] = [flags |-> {"MEMBER", "MODERATOR"}, until |-> Never]]
    /\ UNCHANGED <<roles, assigned, modlog>>

IsMember(k) == "MEMBER" \in RowOf(k).flags

\* A new member is given every default role.
Join(a) ==
    /\ Project1(a, "join")
    /\ rows' = [rows EXCEPT ![a.by] = [RowOf(a.by) EXCEPT !.flags = @ \cup {"MEMBER"}]]
    /\ count' = IF owner = Nobody \/ IsMember(a.by) THEN count ELSE count + 1
    /\ assigned' = assigned \cup
          {<<a.by, r>> : r \in {s \in Role : roles[s] # NoRole /\ roles[s].default}}
    /\ UNCHANGED <<owner, archived, roles, modlog>>

ForgetRow(k) == NoRow
\* The row stays, with the ban, the mute and their expiry.
LeftRow(k) == [rows[k] EXCEPT !.flags = @ \ {"MEMBER", "MODERATOR"}]

AlwaysUncounted(k) == count > 0
Uncounted(k) == IsMember(k) /\ count > 0

Leave(a) ==
    /\ Project1(a, "leave")
    /\ rows' = [rows EXCEPT ![a.by] = IF rows[a.by] = NoRow THEN NoRow ELSE LeftRow(a.by)]
    /\ count' = IF Uncounted(a.by) THEN count - 1 ELSE count
    /\ UNCHANGED <<owner, archived, roles, assigned, modlog>>

\* applyMemberVerb: a ban and a mute share one expiry, and no verb touches
\* memberCount.
Moderated(row, a) ==
    CASE a.kind = "BAN" ->
            [flags |-> (row.flags \cup {"BANNED"}) \ {"MEMBER"}, until |-> a.until]
      [] a.kind = "UNBAN" -> [flags |-> row.flags \ {"BANNED"}, until |-> Never]
      [] a.kind = "MUTE" -> [flags |-> row.flags \cup {"MUTED"}, until |-> a.until]
      [] a.kind = "UNMUTE" -> [flags |-> row.flags \ {"MUTED"}, until |-> Never]
      [] a.kind = "KICK" -> [row EXCEPT !.flags = @ \ {"MEMBER", "MODERATOR"}]

Moderate(a) ==
    /\ a.kind \in MemberVerbs /\ Project1(a, a.kind)
    /\ modlog' = Append(modlog, a)
    /\ rows' = [rows EXCEPT ![a.subject] = Moderated(RowOf(a.subject), a)]
    /\ UNCHANGED <<owner, archived, count, roles, assigned>>

Define(a) ==
    /\ Project1(a, "define")
    /\ roles' = [roles EXCEPT ![a.role] = [mask |-> a.mask, default |-> a.default]]
    /\ UNCHANGED <<owner, archived, count, rows, assigned, modlog>>

Assign(a) ==
    /\ Project1(a, "assign")
    /\ assigned' = assigned \cup {<<a.subject, a.role>>}
    /\ UNCHANGED <<owner, archived, count, rows, roles, modlog>>

Revoke(a) ==
    /\ Project1(a, "revoke")
    /\ assigned' = assigned \ {<<a.subject, a.role>>}
    /\ UNCHANGED <<owner, archived, count, rows, roles, modlog>>

Archive(a) ==
    /\ Project1(a, "archive")
    /\ archived' = IF owner = Nobody THEN archived ELSE a.on
    /\ UNCHANGED <<owner, count, rows, roles, assigned, modlog>>

\* inheritStanding: the replacement's row is the old key's, or stays; it is
\* given the old key's roles.
Rotate(a) ==
    /\ Project1(a, "rotate")
    /\ rows' = [rows EXCEPT ![a.subject] = IF rows[a.by] = NoRow THEN rows[a.subject] ELSE rows[a.by]]
    /\ assigned' = assigned \cup {<<a.subject, r>> : r \in {s \in Role : <<a.by, s>> \in assigned}}
    /\ UNCHANGED <<owner, archived, count, roles, modlog>>

\* The process dies.
LosePending ==
    /\ pending' = {}
    /\ UNCHANGED <<acts, applied, records>>

CommunityNext ==
    \/ \E a \in acts : Authorize(a)
    \/ \E a \in pending :
          \/ Create(a) \/ Join(a) \/ Leave(a) \/ Moderate(a)
          \/ Define(a) \/ Assign(a) \/ Revoke(a) \/ Archive(a) \/ Rotate(a)
    \/ LosePending

CommunitySpec == CommunityInit /\ [][CommunityNext]_communityVars

-----------------------------------------------------------------------------
Rotated(k) == \E a \in acts : a.kind = "rotate" /\ a.subject = k

\* The last event about k among those that set or lift one restriction.
LastOf(kinds, k, a) ==
    \E i \in DOMAIN modlog :
        /\ modlog[i] = a /\ a.kind \in kinds /\ a.subject = k
        /\ \A j \in DOMAIN modlog :
              j > i /\ modlog[j].subject = k => modlog[j].kind \notin kinds

\* Who founded it. A second founding that was in flight gives it a new owner.
Founders == {a.by : a \in {b \in applied : b.kind = "create"}}

\* membership.handlers.ts:5: leaving "preserves the ban, the mute, and their
\* expiry". Whatever a key does, and whatever was in flight when it was
\* moderated, its restrictions are those of the public log and no others. A
\* founding writes its author's row anew.
RestrictionsFollowLog ==
    \A k \in Author : ~Rotated(k) /\ k \notin Founders =>
        /\ "BANNED" \in RowOf(k).flags <=>
              \E a \in applied : a.kind = "BAN" /\ LastOf({"BAN", "UNBAN"}, k, a)
        /\ "MUTED" \in RowOf(k).flags <=>
              \E a \in applied : a.kind = "MUTE" /\ LastOf({"MUTE", "UNMUTE"}, k, a)
        /\ \A a \in applied :
              LastOf(MemberVerbs \ {"KICK"}, k, a) =>
                  RowOf(k).until = IF a.kind \in {"BAN", "MUTE"} THEN a.until ELSE Never

\* role.handlers.ts:73: "a role cannot grant permissions its author does not
\* hold". No chain of delegates, through roles defined, redefined, assigned,
\* inherited or revoked while an act was in flight, gives anybody but the
\* owner a permission no founder put in a role, beside those of moderators.
Granted == UNION {a.mask : a \in {b \in applied : b.kind = "define" /\ b.by \in Founders}}

NoPermissionFromNothing ==
    \A k \in Author \ {owner}, a \in acts :
        resolvePermissions(k, a.at) \subseteq Granted \cup ModeratorPermissions

\* COM-15: the count covers the members. Removals by a moderator leave it
\* too high, but members who join and leave in any order never make it less
\* than the members there are, where no key was rotated and one act founds.
Ordinary == \A a, b \in acts : a.kind # "rotate" /\ (a.kind = "create" /\ b.kind = "create" => a = b)

CountCoversMembers ==
    Ordinary => count >= Cardinality({k \in Author : IsMember(k)})

\* The count is exact.
MemberCountExact == count = Cardinality({k \in Author : IsMember(k)})

\* membership.projection.ts:25: no expiry means permanent. A key whose ban
\* has no expiry holds nothing, at any time, until it is unbanned.
PermanentBanHolds ==
    \A k \in Author, a \in applied :
        a.kind = "BAN" /\ a.until = Never /\ LastOf({"BAN", "UNBAN"}, k, a) =>
            \A b \in acts : resolvePermissions(k, b.at) = {}
=============================================================================
