--------------------------- MODULE CommunityProofs ---------------------------
(***************************************************************************)
(* A community, for every set of acts, keys and roles, and any number of   *)
(* acts in flight: who may do what, who is restricted, and who is counted. *)
(***************************************************************************)
EXTENDS Community, FiniteSetTheorems, TLAPS

-----------------------------------------------------------------------------
\* An act is an act, with the fields of one.
LEMMA ActTyped ==
    ASSUME CommunityTypeOK, NEW a \in acts
    PROVE  /\ a \in Act /\ a.by \in Author /\ a.subject \in Author /\ a.role \in Role
           /\ a.until \in Nat \cup {Never} /\ a.mask \in SUBSET Permission
           /\ a.default \in BOOLEAN /\ a.on \in BOOLEAN /\ a.kind \in Kind
           /\ acts \in SUBSET Act
BY SessionsTyped DEF CommunityTypeOK, Act

\* What is known of a key is a row.
LEMMA RowTyped ==
    ASSUME CommunityTypeOK, NEW k \in Author
    PROVE  RowOf(k) \in Row /\ RowOf(k).flags \in SUBSET MembershipFlag
           /\ RowOf(k).until \in Nat \cup {Never}
           /\ (rows[k] # NoRow => rows[k] \in Row /\ RowOf(k) = rows[k])
BY DEF CommunityTypeOK, RowOf, Row

\* A verb of a moderator leaves a row.
LEMMA ModeratedTyped ==
    ASSUME NEW row \in Row, NEW a \in Act, a.kind \in MemberVerbs
    PROVE  Moderated(row, a) \in Row
<1>1. a.until \in Nat \cup {Never} /\ row.flags \in SUBSET MembershipFlag
      /\ row.until \in Nat \cup {Never}
    BY DEF Act, Row
<1>2. CASE a.kind = "BAN"
    BY <1>1, <1>2 DEF Moderated, Row, MembershipFlag
<1>3. CASE a.kind = "UNBAN"
    BY <1>1, <1>3 DEF Moderated, Row
<1>4. CASE a.kind = "MUTE"
    BY <1>1, <1>4 DEF Moderated, Row, MembershipFlag
<1>5. CASE a.kind = "UNMUTE"
    BY <1>1, <1>5 DEF Moderated, Row
<1>6. CASE a.kind = "KICK"
    BY <1>1, <1>6 DEF Moderated, Row
<1> QED BY <1>2, <1>3, <1>4, <1>5, <1>6 DEF MemberVerbs

LEMMA CommunityInitTyped == CommunityInit => CommunityTypeOK
<1> SUFFICES ASSUME CommunityInit PROVE CommunityTypeOK
    OBVIOUS
<1>1. <<>> \in Seq(Act)
    OBVIOUS
<1> QED BY <1>1 DEF CommunityInit, CommunityTypeOK

\* What every commit does to what is in flight.
LEMMA Taken ==
    ASSUME CommunityTypeOK, NEW a, NEW kind, Project1(a, kind)
    PROVE  /\ a \in acts /\ a \in pending /\ a.kind = kind
           /\ acts' = acts /\ pending' = pending \ {a} /\ applied' = applied \cup {a}
           /\ acts' \in Sessions /\ pending' \subseteq acts' /\ applied' \subseteq acts'
BY DEF CommunityTypeOK, Project1

LEMMA CommunityStepTyped ==
    CommunityTypeOK /\ [CommunityNext]_communityVars => CommunityTypeOK'
<1> SUFFICES ASSUME CommunityTypeOK, [CommunityNext]_communityVars PROVE CommunityTypeOK'
    OBVIOUS
<1> USE DEF CommunityTypeOK
<1>1. CASE UNCHANGED communityVars
    BY <1>1 DEF communityVars
<1>2. ASSUME NEW a \in acts, Authorize(a) PROVE CommunityTypeOK'
    BY <1>2 DEF Authorize, records
<1>3. CASE LosePending
    BY <1>3 DEF LosePending, records
<1>4. ASSUME NEW a \in pending, Create(a) PROVE CommunityTypeOK'
  <2>1. [flags |-> {"MEMBER", "MODERATOR"}, until |-> Never] \in Row
      BY DEF Row, MembershipFlag
  <2> QED BY <1>4, <2>1, Taken, ActTyped DEF Create
<1>5. ASSUME NEW a \in pending, Join(a) PROVE CommunityTypeOK'
  <2>1. [RowOf(a.by) EXCEPT !.flags = @ \cup {"MEMBER"}] \in Row
      BY ActTyped, RowTyped DEF Row, MembershipFlag
  <2>2. assigned' \subseteq Author \X Role
      BY <1>5, ActTyped DEF Join
  <2> QED BY <1>5, <2>1, <2>2, Taken, ActTyped DEF Join
<1>6. ASSUME NEW a \in pending, Leave(a) PROVE CommunityTypeOK'
  <2>1. rows[a.by] # NoRow => LeftRow(a.by) \in Row
      BY ActTyped, RowTyped DEF Row, LeftRow
  <2>2. count' \in Nat
      BY <1>6 DEF Leave, Uncounted
  <2> QED BY <1>6, <2>1, <2>2, Taken, ActTyped DEF Leave
<1>7. ASSUME NEW a \in pending, Moderate(a) PROVE CommunityTypeOK'
  <2>1. Moderated(RowOf(a.subject), a) \in Row /\ a \in Act /\ a.subject \in Author
      BY <1>7, ActTyped, RowTyped, ModeratedTyped DEF Moderate
  <2>2. modlog' \in Seq(Act)
      BY <1>7, <2>1 DEF Moderate
  <2>3. rows' \in [Author -> Row \cup {NoRow}]
      BY <1>7, <2>1 DEF Moderate
  <2> QED BY <1>7, <2>2, <2>3, Taken DEF Moderate
<1>8. ASSUME NEW a \in pending, Define(a) PROVE CommunityTypeOK'
  <2>1. [mask |-> a.mask, default |-> a.default] \in RoleDoc
      BY ActTyped DEF RoleDoc
  <2> QED BY <1>8, <2>1, Taken, ActTyped DEF Define
<1>9. ASSUME NEW a \in pending, Assign(a) PROVE CommunityTypeOK'
    BY <1>9, Taken, ActTyped DEF Assign
<1>10. ASSUME NEW a \in pending, Revoke(a) PROVE CommunityTypeOK'
    BY <1>10, Taken, ActTyped DEF Revoke
<1>11. ASSUME NEW a \in pending, Archive(a) PROVE CommunityTypeOK'
    BY <1>11, Taken, ActTyped DEF Archive
<1>12. ASSUME NEW a \in pending, Rotate(a) PROVE CommunityTypeOK'
  <2>1. a.by \in Author /\ a.subject \in Author
      BY ActTyped
  <2>2. rows' \in [Author -> Row \cup {NoRow}]
      BY <1>12, <2>1 DEF Rotate
  <2>3. assigned' \subseteq Author \X Role
    <3> DEFINE held == {s \in Role : <<a.by, s>> \in assigned}
    <3>1. held \subseteq Role
        OBVIOUS
    <3> HIDE DEF held
    <3>2. {<<a.subject, r>> : r \in held} \subseteq Author \X Role
        BY <2>1, <3>1
    <3>3. assigned' = assigned \cup {<<a.subject, r>> : r \in held}
        BY <1>12 DEF Rotate, held
    <3> QED BY <3>2, <3>3
  <2> QED BY <1>12, <2>2, <2>3, Taken DEF Rotate
<1> QED BY <1>1, <1>2, <1>3, <1>4, <1>5, <1>6, <1>7, <1>8, <1>9, <1>10, <1>11, <1>12
        DEF CommunityNext

\* A community's records are well formed, whatever overlaps.
THEOREM CommunityTypeCorrect == CommunitySpec => []CommunityTypeOK
BY CommunityInitTyped, CommunityStepTyped, PTL DEF CommunitySpec

-----------------------------------------------------------------------------
(* Who may do what.                                                        *)

\* All that anybody but the owner can hold.
Known == Granted \cup ModeratorPermissions

RolesKnown == \A r \in Role : MaskOf(r) \subseteq Known

\* A role in flight was judged by what its author held then.
DefinesKnown ==
    \A a \in pending : a.kind = "define" => a.by \in Founders \/ a.mask \subseteq Known

PowerInv ==
    /\ CommunityTypeOK
    /\ owner \in Founders \cup {Nobody}
    /\ RolesKnown
    /\ DefinesKnown

\* What has been granted is never withdrawn from the record.
LEMMA GrantedGrows ==
    ASSUME applied \subseteq applied'
    PROVE  Founders \subseteq Founders' /\ Known \subseteq Known'
BY DEF Founders, Granted, Known

\* A key that is not the owner holds no more than was granted.
LEMMA HoldsKnown ==
    ASSUME RolesKnown, NEW k, k # owner, NEW at
    PROVE  resolvePermissions(k, at) \subseteq Known
<1>1. FromRoles(k) \subseteq Known
    BY DEF FromRoles, RolesOf, RolesKnown, MaskOf
<1>2. {"read"} \subseteq Known /\ DefaultPermissions \subseteq Known
      /\ ModeratorPermissions \subseteq Known
    BY DEF Known, ModeratorPermissions, DefaultPermissions
<1> QED BY <1>1, <1>2 DEF resolvePermissions

\* A step that defines no role and founds nothing keeps what is held.
LEMMA PowerFrame ==
    ASSUME PowerInv, CommunityTypeOK', applied \subseteq applied', pending' \subseteq pending,
           roles' = roles, owner' \in {owner} \cup Founders'
    PROVE  PowerInv'
<1>1. Founders \subseteq Founders' /\ Known \subseteq Known'
    BY GrantedGrows
<1>2. RolesKnown'
    BY <1>1 DEF PowerInv, RolesKnown, MaskOf
<1>3. DefinesKnown'
    BY <1>1 DEF PowerInv, DefinesKnown
<1> QED BY <1>1, <1>2, <1>3 DEF PowerInv

LEMMA PowerInit == CommunityInit => PowerInv
<1> SUFFICES ASSUME CommunityInit PROVE PowerInv
    OBVIOUS
<1>1. RolesKnown
    BY DEF CommunityInit, RolesKnown, MaskOf
<1>2. DefinesKnown /\ owner \in Founders \cup {Nobody}
    BY DEF CommunityInit, DefinesKnown
<1> QED BY <1>1, <1>2, CommunityInitTyped DEF PowerInv

LEMMA PowerStep == PowerInv /\ [CommunityNext]_communityVars => PowerInv'
<1> SUFFICES ASSUME PowerInv, [CommunityNext]_communityVars PROVE PowerInv'
    OBVIOUS
<1>t. CommunityTypeOK /\ CommunityTypeOK'
    BY CommunityStepTyped DEF PowerInv
<1>1. CASE UNCHANGED communityVars
    BY <1>1, <1>t, PowerFrame DEF communityVars
<1>2. ASSUME NEW a \in acts, Authorize(a) PROVE PowerInv'
  <2>1. UNCHANGED <<acts, applied, owner, roles, rows, assigned>> /\ pending' = pending \cup {a}
      BY <1>2 DEF Authorize, records
  <2>2. a.kind = "define" => a.by \in Founders \/ a.mask \subseteq Known
    <3>1. ASSUME a.kind = "define" PROVE owner # Nobody /\ MayDefine(a)
        BY <1>2, <3>1 DEF Authorize, Allowed, MemberVerbs
    <3> QED BY <3>1, <1>t, ActTyped, HoldsKnown DEF PowerInv, MayDefine, Holds
  <2>3. Founders' = Founders /\ Known' = Known
      BY <2>1 DEF Founders, Known, Granted
  <2>4. RolesKnown'
      BY <2>1, <2>3 DEF PowerInv, RolesKnown, MaskOf
  <2>5. DefinesKnown'
      BY <2>1, <2>2, <2>3 DEF PowerInv, DefinesKnown
  <2> QED BY <1>t, <2>1, <2>3, <2>4, <2>5 DEF PowerInv
<1>3. CASE LosePending
    BY <1>3, <1>t, PowerFrame DEF LosePending, records
<1>4. ASSUME NEW a \in pending, Create(a) PROVE PowerInv'
  <2>1. owner' \in Founders'
      BY <1>4, <1>t, Taken DEF Create, Founders
  <2> QED BY <1>4, <2>1, <1>t, Taken, PowerFrame DEF Create
<1>5. ASSUME NEW a \in pending, Join(a) \/ Leave(a) PROVE PowerInv'
    BY <1>5, <1>t, Taken, PowerFrame DEF Join, Leave
<1>6. ASSUME NEW a \in pending, Moderate(a) PROVE PowerInv'
    BY <1>6, <1>t, Taken, PowerFrame DEF Moderate
<1>7. ASSUME NEW a \in pending, Define(a) PROVE PowerInv'
  <2>1. applied' = applied \cup {a} /\ a.kind = "define" /\ pending' = pending \ {a}
        /\ a \in acts
      BY <1>7, <1>t, Taken DEF Define
  <2>2. Founders \subseteq Founders' /\ Known \subseteq Known'
      BY <2>1, GrantedGrows
  <2>3. a.mask \subseteq Known'
    <3>1. CASE a.by \in Founders
        BY <2>1, <2>2, <3>1 DEF Known, Granted
    <3>2. CASE a.mask \subseteq Known
        BY <2>2, <3>2
    <3> QED BY <2>1, <3>1, <3>2 DEF PowerInv, DefinesKnown
  <2>4. RolesKnown'
    <3> SUFFICES ASSUME NEW r \in Role PROVE MaskOf(r)' \subseteq Known'
        BY DEF RolesKnown
    <3>1. CASE r = a.role
        BY <1>7, <1>t, <2>3, <3>1 DEF Define, MaskOf, CommunityTypeOK
    <3>2. CASE r # a.role
        BY <1>7, <1>t, <2>2, <3>2 DEF Define, MaskOf, CommunityTypeOK, PowerInv, RolesKnown
    <3> QED BY <3>1, <3>2
  <2>5. DefinesKnown'
      BY <2>1, <2>2 DEF PowerInv, DefinesKnown
  <2> QED BY <1>7, <1>t, <2>2, <2>4, <2>5 DEF PowerInv, Define
<1>8. ASSUME NEW a \in pending, Assign(a) \/ Revoke(a) PROVE PowerInv'
    BY <1>8, <1>t, Taken, PowerFrame DEF Assign, Revoke
<1>9. ASSUME NEW a \in pending, Archive(a) \/ Rotate(a) PROVE PowerInv'
    BY <1>9, <1>t, Taken, PowerFrame DEF Archive, Rotate
<1> QED BY <1>1, <1>2, <1>3, <1>4, <1>5, <1>6, <1>7, <1>8, <1>9 DEF CommunityNext

\* No chain of delegates gives a key that is not the owner a permission no
\* founder put in a role, beside those of moderators.
THEOREM NoPermissionCorrect == CommunitySpec => []NoPermissionFromNothing
<1>1. PowerInv => NoPermissionFromNothing
    BY HoldsKnown DEF PowerInv, NoPermissionFromNothing, Known
<1> QED BY <1>1, PowerInit, PowerStep, PTL DEF CommunitySpec

-----------------------------------------------------------------------------
(* Who is restricted.                                                      *)

Banning == {"BAN", "UNBAN"}
Muting == {"MUTE", "UNMUTE"}
Restricting == MemberVerbs \ {"KICK"}

\* What the log says of k is what its row holds.
BanFollows(k) ==
    "BANNED" \in RowOf(k).flags <=> \E a \in applied : a.kind = "BAN" /\ LastOf(Banning, k, a)
MuteFollows(k) ==
    "MUTED" \in RowOf(k).flags <=> \E a \in applied : a.kind = "MUTE" /\ LastOf(Muting, k, a)
ExpiryFollows(k) ==
    \A a \in applied : LastOf(Restricting, k, a) =>
        RowOf(k).until = IF a.kind \in {"BAN", "MUTE"} THEN a.until ELSE Never

LogInv ==
    /\ CommunityTypeOK
    /\ \A i \in DOMAIN modlog : modlog[i] \in applied
    /\ \A k \in Author : ~Rotated(k) /\ k \notin Founders =>
          BanFollows(k) /\ MuteFollows(k) /\ ExpiryFollows(k)

\* A new event of one of the kinds about k is the only last one.
LEMMA NewLast ==
    ASSUME modlog \in Seq(Act), NEW b \in Act, modlog' = Append(modlog, b),
           NEW kinds, NEW k, b.kind \in kinds, b.subject = k, NEW a
    PROVE  LastOf(kinds, k, a)' <=> a = b
<1>1. DOMAIN modlog' = 1..Len(modlog) + 1 /\ modlog'[Len(modlog) + 1] = b /\ Len(modlog) \in Nat
    OBVIOUS
<1>2. ASSUME LastOf(kinds, k, a)' PROVE a = b
  <2>1. PICK i \in DOMAIN modlog' :
          /\ modlog'[i] = a
          /\ \A j \in DOMAIN modlog' :
                j > i /\ modlog'[j].subject = k => modlog'[j].kind \notin kinds
      BY <1>2 DEF LastOf
  <2>2. ~(Len(modlog) + 1 > i)
      BY <1>1, <2>1
  <2>3. i = Len(modlog) + 1
      BY <1>1, <2>1, <2>2
  <2> QED BY <1>1, <2>1, <2>3
<1>3. ASSUME a = b PROVE LastOf(kinds, k, a)'
  <2>1. \A j \in DOMAIN modlog' : ~(j > Len(modlog) + 1)
      BY <1>1
  <2>2. Len(modlog) + 1 \in DOMAIN modlog'
      BY <1>1
  <2> QED BY <1>1, <1>3, <2>1, <2>2 DEF LastOf
<1> QED BY <1>2, <1>3

\* Any other event leaves the last one what it was.
LEMMA SameLast ==
    ASSUME modlog \in Seq(Act), NEW b \in Act, modlog' = Append(modlog, b),
           NEW kinds, NEW k, ~(b.kind \in kinds /\ b.subject = k), NEW a
    PROVE  LastOf(kinds, k, a)' <=> LastOf(kinds, k, a)
<1>1. DOMAIN modlog' = 1..Len(modlog) + 1 /\ modlog'[Len(modlog) + 1] = b /\ Len(modlog) \in Nat
      /\ DOMAIN modlog = 1..Len(modlog) /\ \A i \in 1..Len(modlog) : modlog'[i] = modlog[i]
    OBVIOUS
<1>2. ASSUME LastOf(kinds, k, a)' PROVE LastOf(kinds, k, a)
  <2>1. PICK i \in DOMAIN modlog' :
          /\ modlog'[i] = a /\ a.kind \in kinds /\ a.subject = k
          /\ \A j \in DOMAIN modlog' :
                j > i /\ modlog'[j].subject = k => modlog'[j].kind \notin kinds
      BY <1>2 DEF LastOf
  <2>2. i # Len(modlog) + 1
      BY <1>1, <2>1
  <2>3. i \in DOMAIN modlog /\ modlog[i] = a
      BY <1>1, <2>1, <2>2
  <2>4. \A j \in DOMAIN modlog : j > i /\ modlog[j].subject = k => modlog[j].kind \notin kinds
      BY <1>1, <2>1
  <2> QED BY <2>1, <2>3, <2>4 DEF LastOf
<1>3. ASSUME LastOf(kinds, k, a) PROVE LastOf(kinds, k, a)'
  <2>1. PICK i \in DOMAIN modlog :
          /\ modlog[i] = a /\ a.kind \in kinds /\ a.subject = k
          /\ \A j \in DOMAIN modlog :
                j > i /\ modlog[j].subject = k => modlog[j].kind \notin kinds
      BY <1>3 DEF LastOf
  <2>2. i \in DOMAIN modlog' /\ modlog'[i] = a
      BY <1>1, <2>1
  <2>3. ASSUME NEW j \in DOMAIN modlog', j > i, modlog'[j].subject = k
        PROVE  modlog'[j].kind \notin kinds
    <3>1. CASE j = Len(modlog) + 1
        BY <1>1, <2>3, <3>1
    <3>2. CASE j # Len(modlog) + 1
      <4>1. j \in DOMAIN modlog /\ modlog'[j] = modlog[j]
          BY <1>1, <2>3, <3>2
      <4> QED BY <2>1, <2>3, <4>1
    <3> QED BY <3>1, <3>2
  <2> QED BY <2>1, <2>2, <2>3 DEF LastOf
<1> QED BY <1>2, <1>3

\* The last event is one that was committed.
LEMMA LastApplied ==
    ASSUME LogInv, NEW kinds, NEW k, NEW a, LastOf(kinds, k, a)
    PROVE  a \in applied
BY DEF LogInv, LastOf

\* A step that logs nothing and leaves the restrictions of everybody who is
\* neither a replacement nor a founder keeps them as the log has them.
LEMMA LogFrame ==
    ASSUME LogInv, CommunityTypeOK', acts' = acts, applied \subseteq applied', modlog' = modlog,
           \A k \in Author : ~Rotated(k) /\ k \notin Founders' =>
               /\ "BANNED" \in RowOf(k)'.flags <=> "BANNED" \in RowOf(k).flags
               /\ "MUTED" \in RowOf(k)'.flags <=> "MUTED" \in RowOf(k).flags
               /\ RowOf(k)'.until = RowOf(k).until
    PROVE  LogInv'
<1>1. Founders \subseteq Founders' /\ \A k : Rotated(k)' <=> Rotated(k)
    BY GrantedGrows DEF Rotated
<1>2. \A kinds, k, a : LastOf(kinds, k, a)' <=> LastOf(kinds, k, a)
    BY DEF LastOf
<1>3. ASSUME NEW k \in Author, ~Rotated(k)', k \notin Founders'
      PROVE  BanFollows(k)' /\ MuteFollows(k)' /\ ExpiryFollows(k)'
  <2>1. BanFollows(k) /\ MuteFollows(k) /\ ExpiryFollows(k)
      BY <1>1, <1>3 DEF LogInv
  <2>2. BanFollows(k)'
      BY <1>1, <1>2, <1>3, <2>1, LastApplied DEF BanFollows
  <2>3. MuteFollows(k)'
      BY <1>1, <1>2, <1>3, <2>1, LastApplied DEF MuteFollows
  <2>4. ExpiryFollows(k)'
      BY <1>1, <1>2, <1>3, <2>1, LastApplied DEF ExpiryFollows
  <2> QED BY <2>2, <2>3, <2>4
<1>4. (\A i \in DOMAIN modlog : modlog[i] \in applied)'
    BY DEF LogInv
<1> QED BY <1>3, <1>4 DEF LogInv

\* A verb leaves its subject as the log then has it, and everybody else.
LEMMA LogModerated ==
    ASSUME LogInv, CommunityTypeOK', NEW b \in pending, Moderate(b)
    PROVE  LogInv'
<1>1. /\ CommunityTypeOK /\ modlog \in Seq(Act) /\ b \in Act /\ b.subject \in Author
      /\ modlog' = Append(modlog, b) /\ applied' = applied \cup {b} /\ acts' = acts
      /\ b.kind \in MemberVerbs /\ rows \in [Author -> Row \cup {NoRow}]
      /\ rows' = [rows EXCEPT ![b.subject] = Moderated(RowOf(b.subject), b)]
    BY ActTyped, Taken DEF LogInv, Moderate, CommunityTypeOK
<1>2. Founders \subseteq Founders' /\ \A k : Rotated(k)' <=> Rotated(k)
    BY <1>1, GrantedGrows DEF Rotated
<1>3. (\A i \in DOMAIN modlog : modlog[i] \in applied)'
  <2>1. DOMAIN modlog' = 1..Len(modlog) + 1 /\ modlog'[Len(modlog) + 1] = b
        /\ Len(modlog) \in Nat
        /\ DOMAIN modlog = 1..Len(modlog) /\ \A i \in 1..Len(modlog) : modlog'[i] = modlog[i]
      BY <1>1
  <2>2. ASSUME NEW i \in DOMAIN modlog' PROVE modlog'[i] \in applied'
    <3>1. CASE i = Len(modlog) + 1
        BY <1>1, <2>1, <3>1
    <3>2. CASE i # Len(modlog) + 1
      <4>1. i \in DOMAIN modlog /\ modlog'[i] = modlog[i]
          BY <2>1, <2>2, <3>2
      <4> QED BY <1>1, <4>1 DEF LogInv
    <3> QED BY <3>1, <3>2
  <2> QED BY <2>2
<1>4. ASSUME NEW k \in Author, ~Rotated(k)', k \notin Founders'
      PROVE  BanFollows(k)' /\ MuteFollows(k)' /\ ExpiryFollows(k)'
  <2>1. BanFollows(k) /\ MuteFollows(k) /\ ExpiryFollows(k)
      BY <1>2, <1>4 DEF LogInv
  <2>2. CASE k # b.subject
    <3>1. RowOf(k)' = RowOf(k)
        BY <1>1, <2>2 DEF RowOf
    <3>2. \A kinds, a : LastOf(kinds, k, a)' <=> LastOf(kinds, k, a)
        BY <1>1, <2>2, SameLast
    <3>3. BanFollows(k)'
        BY <1>1, <2>1, <3>1, <3>2, LastApplied DEF BanFollows
    <3>4. MuteFollows(k)'
        BY <1>1, <2>1, <3>1, <3>2, LastApplied DEF MuteFollows
    <3>5. ExpiryFollows(k)'
        BY <1>1, <2>1, <3>1, <3>2, LastApplied DEF ExpiryFollows
    <3> QED BY <3>3, <3>4, <3>5
  <2>3. CASE k = b.subject
    <3>1. Moderated(RowOf(k), b) \in Row /\ RowOf(k) \in Row
        BY <1>1, <2>3, RowTyped, ModeratedTyped
    <3>2. RowOf(k)' = Moderated(RowOf(k), b)
        BY <1>1, <2>3, <3>1, MembershipSentinels DEF RowOf
    <3>3. /\ b.kind \in Banning => \A a : LastOf(Banning, k, a)' <=> a = b
          /\ b.kind \notin Banning => \A a : LastOf(Banning, k, a)' <=> LastOf(Banning, k, a)
        BY <1>1, <2>3, NewLast, SameLast
    <3>4. /\ b.kind \in Muting => \A a : LastOf(Muting, k, a)' <=> a = b
          /\ b.kind \notin Muting => \A a : LastOf(Muting, k, a)' <=> LastOf(Muting, k, a)
        BY <1>1, <2>3, NewLast, SameLast
    <3>5. /\ b.kind \in Restricting => \A a : LastOf(Restricting, k, a)' <=> a = b
          /\ b.kind \notin Restricting =>
                \A a : LastOf(Restricting, k, a)' <=> LastOf(Restricting, k, a)
        BY <1>1, <2>3, NewLast, SameLast
    <3>6. BanFollows(k)'
      <4>1. CASE b.kind \in Banning
          BY <1>1, <3>1, <3>2, <3>3, <4>1 DEF BanFollows, Banning, Moderated, Row
      <4>2. CASE b.kind \notin Banning
        <5>1. "BANNED" \in RowOf(k)'.flags <=> "BANNED" \in RowOf(k).flags
            BY <1>1, <3>1, <3>2, <4>2 DEF Banning, Moderated, Row, MemberVerbs
        <5> QED BY <1>1, <2>1, <3>3, <4>2, <5>1, LastApplied DEF BanFollows
      <4> QED BY <4>1, <4>2
    <3>7. MuteFollows(k)'
      <4>1. CASE b.kind \in Muting
          BY <1>1, <3>1, <3>2, <3>4, <4>1 DEF MuteFollows, Muting, Moderated, Row
      <4>2. CASE b.kind \notin Muting
        <5>1. "MUTED" \in RowOf(k)'.flags <=> "MUTED" \in RowOf(k).flags
            BY <1>1, <3>1, <3>2, <4>2 DEF Muting, Moderated, Row, MemberVerbs
        <5> QED BY <1>1, <2>1, <3>4, <4>2, <5>1, LastApplied DEF MuteFollows
      <4> QED BY <4>1, <4>2
    <3>8. ExpiryFollows(k)'
      <4>1. CASE b.kind \in Restricting
        <5>1. RowOf(k)'.until = IF b.kind \in {"BAN", "MUTE"} THEN b.until ELSE Never
            BY <1>1, <3>1, <3>2, <4>1 DEF Restricting, MemberVerbs, Moderated, Row
        <5> QED BY <3>5, <4>1, <5>1 DEF ExpiryFollows
      <4>2. CASE b.kind \notin Restricting
        <5>1. RowOf(k)'.until = RowOf(k).until
            BY <1>1, <3>1, <3>2, <4>2 DEF Restricting, MemberVerbs, Moderated, Row
        <5> QED BY <1>1, <2>1, <3>5, <4>2, <5>1, LastApplied DEF ExpiryFollows
      <4> QED BY <4>1, <4>2
    <3> QED BY <3>6, <3>7, <3>8
  <2> QED BY <2>2, <2>3
<1> QED BY <1>3, <1>4 DEF LogInv

LEMMA LogInit == CommunityInit => LogInv
<1> SUFFICES ASSUME CommunityInit PROVE LogInv
    OBVIOUS
<1>1. \A kinds, k, a : ~LastOf(kinds, k, a)
    BY DEF CommunityInit, LastOf
<1>2. \A k \in Author : RowOf(k).flags = {}
    BY DEF CommunityInit, RowOf
<1>3. \A k \in Author : BanFollows(k) /\ MuteFollows(k) /\ ExpiryFollows(k)
    BY <1>1, <1>2 DEF BanFollows, MuteFollows, ExpiryFollows
<1>4. \A i \in DOMAIN modlog : modlog[i] \in applied
    BY DEF CommunityInit
<1> QED BY <1>3, <1>4, CommunityInitTyped DEF LogInv

LEMMA LogStep == LogInv /\ [CommunityNext]_communityVars => LogInv'
<1> SUFFICES ASSUME LogInv, [CommunityNext]_communityVars PROVE LogInv'
    OBVIOUS
<1>t. CommunityTypeOK /\ CommunityTypeOK' /\ rows \in [Author -> Row \cup {NoRow}]
    BY CommunityStepTyped DEF LogInv, CommunityTypeOK
<1>1. CASE UNCHANGED communityVars
    BY <1>1, <1>t, LogFrame DEF communityVars, RowOf
<1>2. ASSUME NEW a \in acts, Authorize(a) PROVE LogInv'
    BY <1>2, <1>t, LogFrame DEF Authorize, records, RowOf
<1>3. CASE LosePending
    BY <1>3, <1>t, LogFrame DEF LosePending, records, RowOf
<1>4. ASSUME NEW a \in pending, Create(a) PROVE LogInv'
  <2>1. a.by \in Founders'
      BY <1>4, <1>t, Taken DEF Create, Founders
  <2>2. \A k \in Author \ {a.by} : RowOf(k)' = RowOf(k)
      BY <1>4, <1>t DEF Create, RowOf
  <2>3. acts' = acts /\ applied \subseteq applied' /\ modlog' = modlog
      BY <1>4, <1>t, Taken DEF Create
  <2> QED BY <1>t, <2>1, <2>2, <2>3, LogFrame
<1>5. ASSUME NEW a \in pending, Join(a) PROVE LogInv'
  <2>1. acts' = acts /\ applied \subseteq applied' /\ modlog' = modlog /\ a.by \in Author
      BY <1>5, <1>t, Taken, ActTyped DEF Join
  <2>2. \A k \in Author \ {a.by} : RowOf(k)' = RowOf(k)
      BY <1>5, <1>t DEF Join, RowOf
  <2>3. RowOf(a.by) \in Row
      BY <1>t, <2>1, RowTyped
  <2>4. [RowOf(a.by) EXCEPT !.flags = @ \cup {"MEMBER"}] \in Row
      BY <2>3 DEF Row, MembershipFlag
  <2>5. RowOf(a.by)' = [RowOf(a.by) EXCEPT !.flags = @ \cup {"MEMBER"}]
      BY <1>5, <1>t, <2>1, <2>4, MembershipSentinels DEF Join, RowOf
  <2> QED BY <1>t, <2>1, <2>2, <2>3, <2>5, LogFrame DEF Row
<1>6. ASSUME NEW a \in pending, Leave(a) PROVE LogInv'
  <2>1. acts' = acts /\ applied \subseteq applied' /\ modlog' = modlog /\ a.by \in Author
      BY <1>6, <1>t, Taken, ActTyped DEF Leave
  <2>2. \A k \in Author \ {a.by} : RowOf(k)' = RowOf(k)
      BY <1>6, <1>t DEF Leave, RowOf
  <2>3. CASE rows[a.by] = NoRow
    <3>1. RowOf(a.by)' = RowOf(a.by)
        BY <1>6, <1>t, <2>1, <2>3 DEF Leave, RowOf
    <3> QED BY <1>t, <2>1, <2>2, <3>1, LogFrame
  <2>4. CASE rows[a.by] # NoRow
    <3>1. RowOf(a.by) \in Row /\ LeftRow(a.by) = [RowOf(a.by) EXCEPT !.flags = @ \ {"MEMBER", "MODERATOR"}]
        BY <1>t, <2>1, <2>4, RowTyped DEF LeftRow
    <3>2. LeftRow(a.by) \in Row
        BY <3>1 DEF Row
    <3>3. RowOf(a.by)' = LeftRow(a.by)
        BY <1>6, <1>t, <2>1, <2>4, <3>2, MembershipSentinels DEF Leave, RowOf
    <3> QED BY <1>t, <2>1, <2>2, <3>1, <3>3, LogFrame DEF Row
  <2> QED BY <2>3, <2>4
<1>7. ASSUME NEW a \in pending, Moderate(a) PROVE LogInv'
    BY <1>7, <1>t, LogModerated
<1>8. ASSUME NEW a \in pending, Define(a) \/ Assign(a) \/ Revoke(a) \/ Archive(a) PROVE LogInv'
    BY <1>8, <1>t, Taken, LogFrame DEF Define, Assign, Revoke, Archive, RowOf
<1>9. ASSUME NEW a \in pending, Rotate(a) PROVE LogInv'
  <2>1. acts' = acts /\ applied \subseteq applied' /\ modlog' = modlog /\ a \in acts
        /\ a.kind = "rotate"
      BY <1>9, <1>t, Taken DEF Rotate
  <2>2. Rotated(a.subject)
      BY <2>1 DEF Rotated
  <2>3. \A k \in Author \ {a.subject} : RowOf(k)' = RowOf(k)
      BY <1>9, <1>t DEF Rotate, RowOf
  <2> QED BY <1>t, <2>1, <2>2, <2>3, LogFrame
<1> QED BY <1>1, <1>2, <1>3, <1>4, <1>5, <1>6, <1>7, <1>8, <1>9 DEF CommunityNext

\* Whatever was in flight when a key was moderated, its restrictions are
\* those of the log.
THEOREM RestrictionsCorrect == CommunitySpec => []RestrictionsFollowLog
<1>1. LogInv => RestrictionsFollowLog
    BY DEF LogInv, RestrictionsFollowLog, BanFollows, MuteFollows, ExpiryFollows,
           Banning, Muting, Restricting
<1> QED BY <1>1, LogInit, LogStep, PTL DEF CommunitySpec

-----------------------------------------------------------------------------
(* Who is counted.                                                         *)

Members == {k \in Author : IsMember(k)}

\* One act founds the community, and nobody joins before it: so the count
\* starts over while nobody is a member.
CountInv ==
    /\ CommunityTypeOK
    /\ pending \cap applied = {}
    /\ owner = Nobody => Members = {} /\ \A a \in pending : a.kind # "join"
    /\ owner # Nobody => \E c \in applied : c.kind = "create"
    /\ Ordinary => count >= Cardinality(Members)

LEMMA MembersFinite ==
    /\ IsFiniteSet(Members) /\ Cardinality(Members) \in Nat
    /\ IsFiniteSet(Members') /\ Cardinality(Members') \in Nat
<1>1. Members \subseteq Author /\ Members' \subseteq Author
    BY DEF Members
<1> QED BY <1>1, AuthorsFinite, FS_Subset, FS_CardinalityType

\* A commit that adds no member and keeps the count, or the owner, breaks
\* nothing.
LEMMA CountFrame ==
    ASSUME CountInv, CommunityTypeOK', acts' = acts, pending' \cap applied' = {},
           pending' \subseteq pending, applied \subseteq applied', owner' = owner, count' = count,
           Members' \subseteq Members
    PROVE  CountInv'
<1>1. Cardinality(Members') <= Cardinality(Members)
    BY MembersFinite, FS_Subset
<1>2. Ordinary' <=> Ordinary
    BY DEF Ordinary
<1>3. (Ordinary => count >= Cardinality(Members))'
    BY <1>1, <1>2, MembersFinite DEF CountInv, CommunityTypeOK
<1> QED BY <1>3 DEF CountInv

LEMMA CountInit == CommunityInit => CountInv
<1> SUFFICES ASSUME CommunityInit PROVE CountInv
    OBVIOUS
<1>1. Members = {}
    BY DEF CommunityInit, Members, IsMember, RowOf
<1>2. Cardinality(Members) = 0 /\ count = 0
    BY <1>1, FS_EmptySet DEF CommunityInit
<1> QED BY <1>1, <1>2, CommunityInitTyped DEF CommunityInit, CountInv

LEMMA CountStep == CountInv /\ [CommunityNext]_communityVars => CountInv'
<1> SUFFICES ASSUME CountInv, [CommunityNext]_communityVars PROVE CountInv'
    OBVIOUS
<1>t. CommunityTypeOK /\ CommunityTypeOK' /\ rows \in [Author -> Row \cup {NoRow}]
      /\ count \in Nat /\ pending \cap applied = {}
    BY CommunityStepTyped DEF CountInv, CommunityTypeOK
<1>m. rows' = rows => Members' = Members
    BY DEF Members, IsMember, RowOf
<1>1. CASE UNCHANGED communityVars
    BY <1>1, <1>m, <1>t, CountFrame DEF communityVars
<1>2. ASSUME NEW a \in acts, Authorize(a) PROVE CountInv'
  <2>1. /\ acts' = acts /\ applied' = applied /\ owner' = owner /\ count' = count /\ rows' = rows
        /\ pending' = pending \cup {a} /\ a \notin applied
      BY <1>2 DEF Authorize, records
  <2>2. a.kind = "join" => owner # Nobody
      BY <1>2 DEF Authorize, Allowed, MemberVerbs
  <2>3. Ordinary' <=> Ordinary
      BY <2>1 DEF Ordinary
  <2>4. Cardinality(Members)' = Cardinality(Members)
      BY <1>m, <2>1
  <2> QED BY <1>m, <1>t, <2>1, <2>2, <2>3, <2>4 DEF CountInv
<1>3. CASE LosePending
    BY <1>3, <1>m, <1>t, CountFrame DEF LosePending, records
<1>4. ASSUME NEW a, NEW kind, Project1(a, kind)
      PROVE  /\ acts' = acts /\ pending' \cap applied' = {} /\ pending' \subseteq pending
             /\ applied \subseteq applied'
    BY <1>4, <1>t, Taken
<1>5. ASSUME NEW a \in pending, Create(a) PROVE CountInv'
  <2>1. /\ Project1(a, "create") /\ a \in acts /\ a.kind = "create" /\ a.by \in Author
        /\ a \in applied' /\ owner' = a.by /\ count' = 1
      BY <1>5, <1>t, Taken, ActTyped DEF Create
  <2>2. owner' # Nobody
      BY <2>1, MembershipSentinels
  <2>3. ASSUME Ordinary' PROVE count' >= Cardinality(Members')
    <3>1. Ordinary
        BY <1>4, <2>1, <2>3 DEF Ordinary
    <3>2. owner = Nobody
        BY <1>t, <2>1, <3>1 DEF CountInv, Ordinary, CommunityTypeOK
    <3>3. Members = {}
        BY <3>2 DEF CountInv
    <3>4. \A k \in Author \ {a.by} : RowOf(k)' = RowOf(k)
        BY <1>5, <1>t DEF Create, RowOf
    <3>5. Members' \subseteq {a.by}
        BY <3>3, <3>4 DEF Members, IsMember
    <3>6. Cardinality(Members') <= Cardinality({a.by}) /\ Cardinality({a.by}) = 1
        BY <3>5, FS_Singleton, FS_Subset
    <3> QED BY <2>1, <3>6, MembersFinite
  <2> QED BY <1>4, <1>t, <2>1, <2>2, <2>3 DEF CountInv
<1>6. ASSUME NEW a \in pending, Join(a) PROVE CountInv'
  <2>1. /\ Project1(a, "join") /\ a.kind = "join" /\ a.by \in Author /\ owner' = owner
        /\ count' = IF owner = Nobody \/ IsMember(a.by) THEN count ELSE count + 1
      BY <1>6, <1>t, Taken, ActTyped DEF Join
  <2>2. owner # Nobody
      BY <2>1 DEF CountInv
  <2>3. \A k \in Author \ {a.by} : RowOf(k)' = RowOf(k)
      BY <1>6, <1>t DEF Join, RowOf
  <2>4. Members' \subseteq Members \cup {a.by}
      BY <2>3 DEF Members, IsMember
  <2>5. Cardinality(Members') <= Cardinality(Members \cup {a.by})
      BY <2>4, MembersFinite, FS_AddElement, FS_Subset
  <2>6. Ordinary' => count' >= Cardinality(Members')
    <3>1. Ordinary' <=> Ordinary
        BY <1>4, <2>1 DEF Ordinary
    <3>2. CASE IsMember(a.by)
      <4>1. Members \cup {a.by} = Members
          BY <2>1, <3>2 DEF Members
      <4> QED BY <1>t, <2>1, <2>5, <3>1, <3>2, <4>1, MembersFinite DEF CountInv
    <3>3. CASE ~IsMember(a.by)
      <4>1. Cardinality(Members \cup {a.by}) = Cardinality(Members) + 1
          BY <3>3, MembersFinite, FS_AddElement DEF Members
      <4> QED BY <1>t, <2>1, <2>2, <2>5, <3>1, <3>3, <4>1, MembersFinite DEF CountInv
    <3> QED BY <3>2, <3>3
  <2> QED BY <1>4, <1>t, <2>1, <2>2, <2>6 DEF CountInv
<1>7. ASSUME NEW a \in pending, Leave(a) PROVE CountInv'
  <2>1. /\ Project1(a, "leave") /\ a.by \in Author /\ owner' = owner
        /\ count' = IF Uncounted(a.by) THEN count - 1 ELSE count
      BY <1>7, <1>t, Taken, ActTyped DEF Leave
  <2>2. \A k \in Author \ {a.by} : RowOf(k)' = RowOf(k)
      BY <1>7, <1>t DEF Leave, RowOf
  <2>3. "MEMBER" \notin RowOf(a.by)'.flags
    <3>1. CASE rows[a.by] = NoRow
        BY <1>7, <1>t, <2>1, <3>1 DEF Leave, RowOf
    <3>2. CASE rows[a.by] # NoRow
      <4>1. RowOf(a.by) \in Row
            /\ LeftRow(a.by) = [RowOf(a.by) EXCEPT !.flags = @ \ {"MEMBER", "MODERATOR"}]
          BY <1>t, <2>1, <3>2, RowTyped DEF LeftRow
      <4>2. LeftRow(a.by) \in Row /\ "MEMBER" \notin LeftRow(a.by).flags
          BY <4>1 DEF Row
      <4>3. RowOf(a.by)' = LeftRow(a.by)
          BY <1>7, <1>t, <2>1, <3>2, <4>2, MembershipSentinels DEF Leave, RowOf
      <4> QED BY <4>2, <4>3
    <3> QED BY <3>1, <3>2
  <2>4. Members' = Members \ {a.by}
      BY <2>2, <2>3 DEF Members, IsMember
  <2>5. CASE Uncounted(a.by)
    <3>1. Cardinality(Members') = Cardinality(Members) - 1
        BY <2>1, <2>4, <2>5, MembersFinite, FS_RemoveElement DEF Uncounted, Members
    <3>2. Ordinary' <=> Ordinary
        BY <1>4, <2>1 DEF Ordinary
    <3>3. Ordinary' => count' >= Cardinality(Members')
        BY <1>t, <2>1, <2>5, <3>1, <3>2, MembersFinite DEF CountInv
    <3> QED BY <1>4, <1>t, <2>1, <2>4, <3>3 DEF CountInv
  <2>6. CASE ~Uncounted(a.by)
      BY <1>4, <1>t, <2>1, <2>4, <2>6, CountFrame
  <2> QED BY <2>5, <2>6
<1>8. ASSUME NEW a \in pending, Moderate(a) PROVE CountInv'
  <2>1. /\ Project1(a, a.kind) /\ a \in Act /\ a.subject \in Author /\ a.kind \in MemberVerbs
        /\ owner' = owner /\ count' = count
      BY <1>8, <1>t, ActTyped DEF Moderate, CommunityTypeOK
  <2>2. \A k \in Author \ {a.subject} : RowOf(k)' = RowOf(k)
      BY <1>8, <1>t DEF Moderate, RowOf
  <2>3. Moderated(RowOf(a.subject), a) \in Row /\ RowOf(a.subject) \in Row
      BY <1>t, <2>1, RowTyped, ModeratedTyped
  <2>4. RowOf(a.subject)' = Moderated(RowOf(a.subject), a)
      BY <1>8, <1>t, <2>1, <2>3, MembershipSentinels DEF Moderate, RowOf
  <2>5. IsMember(a.subject)' => IsMember(a.subject)
      BY <2>1, <2>3, <2>4 DEF IsMember, Moderated, Row, MemberVerbs
  <2>6. Members' \subseteq Members
      BY <2>2, <2>5 DEF Members, IsMember
  <2> QED BY <1>4, <1>t, <2>1, <2>6, CountFrame
<1>9. ASSUME NEW a \in pending, Define(a) \/ Assign(a) \/ Revoke(a) \/ Archive(a) PROVE CountInv'
    BY <1>4, <1>9, <1>m, <1>t, CountFrame DEF Define, Assign, Revoke, Archive
<1>10. ASSUME NEW a \in pending, Rotate(a) PROVE CountInv'
  <2>1. /\ Project1(a, "rotate") /\ a \in acts /\ a.kind = "rotate" /\ owner' = owner
        /\ a.by \in Author /\ a.subject \in Author
      BY <1>10, <1>t, Taken, ActTyped DEF Rotate
  <2>2. ~Ordinary'
      BY <1>4, <2>1 DEF Ordinary
  <2>3. owner' = Nobody => Members' = {}
    <3> SUFFICES ASSUME owner = Nobody PROVE Members' = {}
        BY <2>1
    <3>1. \A k \in Author : RowOf(k)' \in {RowOf(k), RowOf(a.by)}
        BY <1>10, <1>t, <2>1 DEF Rotate, RowOf
    <3>2. Members = {}
        BY DEF CountInv
    <3> QED BY <2>1, <3>1, <3>2 DEF Members, IsMember
  <2> QED BY <1>4, <1>t, <2>1, <2>2, <2>3 DEF CountInv
<1> QED BY <1>1, <1>2, <1>3, <1>5, <1>6, <1>7, <1>8, <1>9, <1>10 DEF CommunityNext

\* Members who join and leave in any order are never more than the count,
\* for any number of keys.
THEOREM CountCorrect == CommunitySpec => []CountCoversMembers
<1>1. CountInv => CountCoversMembers
    BY DEF CountInv, CountCoversMembers, Members
<1> QED BY <1>1, CountInit, CountStep, PTL DEF CommunitySpec
=============================================================================
