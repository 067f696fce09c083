----------------------------- MODULE EdgeProofs -----------------------------
(***************************************************************************)
(* The queues at the edges of the network: the client's outbox, the file   *)
(* of the audit log, the jobs of a tunnelled node and the frames of the    *)
(* radio relay, for any number of items, calls, polls and drains.          *)
(***************************************************************************)
EXTENDS
    ClientOutbox, AuditLog, ReverseTunnel, Relay, FiniteSetTheorems, SequenceTheorems, TLAPS

-----------------------------------------------------------------------------
(***************************************************************************)
(* The client's queue keeps what was signed, for every number of envelopes *)
(* and of overlapping calls, if no two updates of the stored value         *)
(* overlap. Then what a call has read is what is stored when it writes,    *)
(* and the calls may do the rest as they like: a drain that works on       *)
(* records it listed long ago removes only what the node refused.          *)
(***************************************************************************)
\* One update at a time, of what is stored.
Current ==
    /\ \A c, d \in Caller : call[c].read /\ call[d].read => c = d
    /\ \A c \in Caller : call[c].read => call[c].rows = AsRead(disk)

\* A call takes out only what was released.
Refused ==
    \A c \in Caller :
        call[c].at = "settle" /\ call[c].result = "absent" => call[c].item \in released

\* A call that writes a row knows which.
Named ==
    \A c \in Caller :
        call[c].at \in {"enqueue", "mark", "submit", "settle"} => call[c].item \in Item

ClientInv ==
    /\ ClientTypeOK /\ Refused /\ Named
    /\ owed \cap released = {}
    /\ Locked => Current /\ SignedIsKept

-----------------------------------------------------------------------------
\* Reading neither adds nor drops a row.
LEMMA AsReadRows ==
    ASSUME NEW rows \in Rows
    PROVE  /\ AsRead(rows) \in Rows
           /\ \A i \in Item : AsRead(rows)[i] = "absent" <=> rows[i] = "absent"
BY DEF AsRead, Rows

\* Writing a row touches no other.
LEMMA PutRows ==
    ASSUME NEW rows \in Rows, NEW i \in Item,
           NEW state \in {"absent", "pending", "sending", "receipted"}
    PROVE  /\ Put(rows, i, state) \in Rows
           /\ Put(rows, i, state)[i] = state
           /\ \A j \in Item \ {i} : Put(rows, i, state)[j] = rows[j]
BY DEF Put, Rows

\* A call at rest is a call.
LEMMA RestingTyped == Resting \in CallState
<1>1. [i \in Item |-> "absent"] \in Rows
    BY DEF Rows
<1> QED BY <1>1 DEF Resting, CallState, Reading

\* The first state is well formed and owes nothing.
LEMMA ClientInitHolds == ClientInit => ClientInv
<1> SUFFICES ASSUME ClientInit PROVE ClientInv
    OBVIOUS
<1>1. ClientTypeOK
    BY RestingTyped DEF ClientInit, ClientTypeOK, Rows
<1>2. \A c \in Caller : call[c].at = "idle" /\ call[c].read = FALSE
    BY DEF ClientInit, Resting
<1> QED BY <1>1, <1>2 DEF ClientInit, ClientInv, Refused, Named, Current, SignedIsKept

-----------------------------------------------------------------------------
\* What a step of one call's must do for the invariant: s is the state it
\* goes to, and the rest is about that call alone.
LEMMA StepOfOne ==
    ASSUME ClientInv, NEW c \in Caller, NEW s \in CallState, Becomes(c, s),
           disk' \in Rows, draining' \subseteq Caller,
           owed' \subseteq Item, released' \subseteq Item,
           released \subseteq released', owed' \cap released' = {},
           s.at = "settle" /\ s.result = "absent" => s.item \in released',
           s.at \in {"enqueue", "mark", "submit", "settle"} => s.item \in Item,
           Locked /\ s.read => \A d \in Caller \ {c} : ~call[d].read,
           Locked /\ s.read => s.rows = AsRead(disk'),
           Locked /\ disk' # disk => call[c].read,
           Locked => \A i \in owed' : disk'[i] # "absent"
    PROVE  ClientInv'
<1>1. call' = [call EXCEPT ![c] = s] /\ call \in [Caller -> CallState]
    BY DEF Becomes, ClientInv, ClientTypeOK
<1>2. call'[c] = s /\ \A d \in Caller \ {c} : call'[d] = call[d]
    BY <1>1
<1>3. ClientTypeOK'
    BY <1>1 DEF ClientTypeOK
<1>4. Refused' /\ Named'
  <2> SUFFICES ASSUME NEW d \in Caller
               PROVE  /\ call'[d].at = "settle" /\ call'[d].result = "absent"
                            => call'[d].item \in released'
                      /\ call'[d].at \in {"enqueue", "mark", "submit", "settle"}
                            => call'[d].item \in Item
      BY DEF Refused, Named
  <2>1. CASE d = c
      BY <1>2, <2>1
  <2>2. CASE d # c
      BY <1>2, <2>2 DEF ClientInv, Refused, Named
  <2> QED BY <2>1, <2>2
<1>5. ASSUME Locked PROVE Current'
  <2>1. \A d, e \in Caller : call'[d].read /\ call'[e].read => d = e
      BY <1>2, <1>5 DEF ClientInv, Current
  <2>2. ASSUME NEW d \in Caller, call'[d].read PROVE call'[d].rows = AsRead(disk')
    <3>1. CASE d = c
        BY <1>2, <1>5, <2>2, <3>1
    <3>2. CASE d # c
      <4>1. call[d].read /\ call[d].rows = AsRead(disk)
          BY <1>2, <1>5, <2>2, <3>2 DEF ClientInv, Current
      <4>2. disk' = disk
          BY <1>5, <4>1, <3>2 DEF ClientInv, Current
      <4> QED BY <1>2, <3>2, <4>1, <4>2
    <3> QED BY <3>1, <3>2
  <2>3. AsRead(disk') = AsRead(disk)'
      BY DEF AsRead
  <2> QED BY <2>1, <2>2, <2>3 DEF Current
<1> QED BY <1>3, <1>4, <1>5 DEF ClientInv, SignedIsKept

\* A step that leaves the stored value and the accounts alone.
LEMMA QuietStep ==
    ASSUME ClientInv, NEW c \in Caller, NEW s \in CallState, Becomes(c, s),
           UNCHANGED <<disk, owed, released>>, draining' \subseteq Caller,
           ~s.read,
           s.at = "settle" /\ s.result = "absent" => s.item \in released,
           s.at \in {"enqueue", "mark", "submit", "settle"} => s.item \in Item
    PROVE  ClientInv'
<1>1. disk \in Rows /\ owed \subseteq Item /\ released \subseteq Item /\ owed \cap released = {}
    BY DEF ClientInv, ClientTypeOK
<1>2. Locked => \A i \in owed : disk[i] # "absent"
    BY DEF ClientInv, SignedIsKept
<1> QED BY <1>1, <1>2, StepOfOne

\* Each action is a step of one call, or the end of all of them.
LEMMA ClientStepHolds == ClientInv /\ [ClientNext]_outboxVars => ClientInv'
<1> SUFFICES ASSUME ClientInv, [ClientNext]_outboxVars PROVE ClientInv'
    OBVIOUS
<1> USE DEF Reading
<1>t. ClientTypeOK
    BY DEF ClientInv
<1>s. ASSUME NEW c \in Caller
      PROVE  /\ call[c] \in CallState /\ call[c].rows \in Rows /\ call[c].todo \subseteq Item
             /\ call[c].result \in {"absent", "pending", "receipted"}
             /\ call[c].item \in Item \cup {NoItem} /\ call[c].read \in BOOLEAN
    BY <1>t DEF ClientTypeOK, CallState
<1>r. /\ Resting \in CallState /\ Resting.at = "idle" /\ Resting.read = FALSE
    BY RestingTyped DEF Resting
<1>1. ASSUME NEW c \in Caller, NEW i \in Item, SubmitSigned(c, i) PROVE ClientInv'
  <2> DEFINE s == [Resting EXCEPT !.at = "enqueue", !.item = i]
  <2>1. s \in CallState /\ s.at = "enqueue" /\ s.item = i /\ ~s.read
      BY <1>r DEF CallState, Resting
  <2> HIDE DEF s
  <2>2. Becomes(c, s) /\ UNCHANGED <<disk, draining, owed, released>>
      BY <1>1 DEF SubmitSigned, s
  <2> QED BY <1>t, <2>1, <2>2, QuietStep DEF ClientTypeOK
<1>2. ASSUME NEW c \in Caller, StartDrain(c) PROVE ClientInv'
  <2> DEFINE s == [Resting EXCEPT !.at = "list"]
  <2>1. s \in CallState /\ s.at = "list" /\ ~s.read
      BY <1>r DEF CallState, Resting
  <2> HIDE DEF s
  <2>2. Becomes(c, s) /\ UNCHANGED <<disk, owed, released>> /\ draining' \subseteq Caller
      BY <1>2 DEF StartDrain, s
  <2> QED BY <2>1, <2>2, QuietStep
<1>3. ASSUME NEW c \in Caller, NEW plane \in Plane, StartClear(c, plane) PROVE ClientInv'
  <2> DEFINE s == [Resting EXCEPT !.at = "clear", !.todo = plane]
  <2>1. s \in CallState /\ s.at = "clear" /\ ~s.read
      BY <1>r, OutboxTyped DEF CallState, Resting
  <2> HIDE DEF s
  <2>2. Becomes(c, s) /\ UNCHANGED <<disk, draining, owed, released>>
      BY <1>3 DEF StartClear, s
  <2> QED BY <1>t, <2>1, <2>2, QuietStep DEF ClientTypeOK
<1>4. ASSUME NEW c \in Caller, Load(c) PROVE ClientInv'
  <2> DEFINE s == [call[c] EXCEPT !.read = TRUE, !.rows = AsRead(disk)]
  <2>1. disk \in Rows /\ AsRead(disk) \in Rows
      BY <1>t, AsReadRows DEF ClientTypeOK
  <2>2. /\ s \in CallState /\ s.at = call[c].at /\ s.item = call[c].item
        /\ s.result = call[c].result /\ s.rows = AsRead(disk)
      BY <1>s, <2>1 DEF CallState
  <2> HIDE DEF s
  <2>3. Becomes(c, s) /\ UNCHANGED <<disk, draining, owed, released>>
      BY <1>4 DEF Load, s
  <2>4. Locked => \A d \in Caller : ~call[d].read
      BY <1>4 DEF Load
  <2>5. /\ s.at = "settle" /\ s.result = "absent" => s.item \in released
        /\ s.at \in {"enqueue", "mark", "submit", "settle"} => s.item \in Item
      BY <2>2 DEF ClientInv, Refused, Named
  <2>6. AsRead(disk') = AsRead(disk)
      BY <2>3 DEF AsRead
  <2>7. Locked => \A i \in owed' : disk'[i] # "absent"
      BY <2>3 DEF ClientInv, SignedIsKept
  <2>8. owed \cap released = {}
      BY DEF ClientInv
  <2> QED BY <1>t, <2>1, <2>2, <2>3, <2>4, <2>5, <2>6, <2>7, <2>8, StepOfOne DEF ClientTypeOK
<1>5. ASSUME NEW c \in Caller, Enqueue(c) PROVE ClientInv'
  <2> DEFINE i == call[c].item
             rows == call[c].rows
             s == IF rows[i] = "receipted" THEN Resting
                  ELSE [Resting EXCEPT !.at = "mark", !.item = i]
  <2>1. call[c].at = "enqueue" /\ call[c].read
      BY <1>5 DEF Enqueue, Loaded
  <2>2. i \in Item /\ rows \in Rows
      BY <1>s, <2>1 DEF ClientInv, Named
  <2>3. /\ s \in CallState /\ ~s.read /\ s.at \in {"idle", "mark"}
        /\ s.at = "mark" => s.item = i
      BY <1>r, <2>2 DEF CallState, Resting
  <2>4. /\ Becomes(c, s) /\ UNCHANGED <<draining, released>>
        /\ disk' = IF rows[i] = "absent" THEN Put(rows, i, "pending") ELSE disk
        /\ owed' = owed \cup ({i} \ released)
      BY <1>5 DEF Enqueue
  <2> HIDE DEF s, rows, i
  <2>5. disk' \in Rows
      BY <1>t, <2>2, <2>4, PutRows DEF ClientTypeOK
  <2>6. ASSUME Locked, NEW j \in owed' PROVE disk'[j] # "absent"
    <3>1. rows = AsRead(disk) /\ (j \in owed => disk[j] # "absent")
        BY <2>1, <2>6 DEF ClientInv, Current, SignedIsKept, rows
    <3>2. \A k \in Item : rows[k] = "absent" <=> disk[k] = "absent"
        BY <1>t, <3>1, AsReadRows DEF ClientTypeOK
    <3>3. j \in Item /\ (j \in owed \/ j = i)
        BY <1>t, <2>2, <2>4, <2>6 DEF ClientTypeOK
    <3>4. CASE rows[i] = "absent"
      <4>1. disk' = Put(rows, i, "pending")
          BY <2>4, <3>4
      <4>2. disk'[i] = "pending" /\ \A k \in Item \ {i} : disk'[k] = rows[k]
          BY <2>2, <4>1 DEF Put, Rows
      <4> QED BY <3>1, <3>2, <3>3, <4>2
    <3>5. CASE rows[i] # "absent"
        BY <2>2, <2>4, <3>1, <3>2, <3>3, <3>5
    <3> QED BY <3>4, <3>5
  <2>7. owed' \subseteq Item /\ owed' \cap released' = {} /\ released' \subseteq Item
      BY <1>t, <2>2, <2>4 DEF ClientTypeOK, ClientInv
  <2>8. draining' \subseteq Caller
      BY <1>t, <2>4 DEF ClientTypeOK
  <2> QED BY <2>1, <2>2, <2>3, <2>4, <2>5, <2>6, <2>7, <2>8, StepOfOne
<1>6. ASSUME NEW c \in Caller, NEW due \in SUBSET Item, List(c, due) PROVE ClientInv'
  <2> DEFINE s == [Resting EXCEPT !.at = "next", !.todo = due]
  <2>1. s \in CallState /\ s.at = "next" /\ ~s.read
      BY <1>r DEF CallState, Resting
  <2> HIDE DEF s
  <2>2. Becomes(c, s) /\ UNCHANGED <<disk, draining, owed, released>>
      BY <1>6 DEF List, s
  <2> QED BY <1>t, <2>1, <2>2, QuietStep DEF ClientTypeOK
<1>7. ASSUME NEW c \in Caller, NEW i \in Item, TakeNext(c, i) PROVE ClientInv'
  <2> DEFINE s == [Resting EXCEPT !.at = "mark", !.item = i, !.todo = call[c].todo \ {i}]
  <2>1. s \in CallState /\ s.at = "mark" /\ s.item = i /\ ~s.read
      BY <1>r, <1>s DEF CallState, Resting
  <2> HIDE DEF s
  <2>2. Becomes(c, s) /\ UNCHANGED <<disk, draining, owed, released>>
      BY <1>7 DEF TakeNext, s
  <2> QED BY <1>t, <2>1, <2>2, QuietStep DEF ClientTypeOK
<1>8. ASSUME NEW c \in Caller, EndDrain(c) PROVE ClientInv'
  <2>1. Becomes(c, Resting) /\ UNCHANGED <<disk, owed, released>> /\ draining' \subseteq Caller
      BY <1>8, <1>t DEF EndDrain, ClientTypeOK
  <2> QED BY <1>r, <2>1, QuietStep
<1>9. ASSUME NEW c \in Caller, Mark(c) PROVE ClientInv'
  <2> DEFINE i == call[c].item
             rows == call[c].rows
             s == [call[c] EXCEPT !.at = "submit", !.read = FALSE]
  <2>1. call[c].at = "mark" /\ call[c].read
      BY <1>9 DEF Mark, Loaded
  <2>2. i \in Item /\ rows \in Rows
      BY <1>s, <2>1 DEF ClientInv, Named
  <2>3. s \in CallState /\ ~s.read /\ s.at = "submit" /\ s.item = i
      BY <1>s DEF CallState
  <2>4. /\ Becomes(c, s) /\ UNCHANGED <<draining, owed, released>>
        /\ disk' = Put(rows, i, "sending")
      BY <1>9 DEF Mark
  <2> HIDE DEF s, rows, i
  <2>5. disk' \in Rows
      BY <2>2, <2>4, PutRows
  <2>6. ASSUME Locked, NEW j \in owed' PROVE disk'[j] # "absent"
    <3>1. rows = AsRead(disk) /\ disk[j] # "absent" /\ j \in Item
        BY <1>t, <2>1, <2>4, <2>6 DEF ClientInv, Current, SignedIsKept, rows, ClientTypeOK
    <3>2. rows[j] # "absent"
        BY <1>t, <3>1, AsReadRows DEF ClientTypeOK
    <3>3. disk'[i] = "sending" /\ \A k \in Item \ {i} : disk'[k] = rows[k]
        BY <2>2, <2>4 DEF Put, Rows
    <3> QED BY <3>1, <3>2, <3>3
  <2>7. /\ owed' \subseteq Item /\ owed' \cap released' = {} /\ released' \subseteq Item
        /\ draining' \subseteq Caller
      BY <1>t, <2>4 DEF ClientTypeOK, ClientInv
  <2> QED BY <2>1, <2>2, <2>3, <2>4, <2>5, <2>6, <2>7, StepOfOne
<1>10. ASSUME NEW c \in Caller, NEW outcome \in {"absent", "pending", "receipted"},
              Submit(c, outcome)
       PROVE  ClientInv'
  <2> DEFINE i == call[c].item
             s == [call[c] EXCEPT !.at = "settle", !.result = outcome]
  <2>1. call[c].at = "submit" /\ i \in Item
      BY <1>10 DEF Submit, ClientInv, Named
  <2>2. /\ s \in CallState /\ s.at = "settle" /\ s.item = i /\ s.result = outcome
        /\ s.read = call[c].read /\ s.rows = call[c].rows
      BY <1>s DEF CallState
  <2>3. /\ Becomes(c, s) /\ UNCHANGED <<disk, draining>>
        /\ owed' \subseteq owed /\ released \subseteq released' /\ released' \subseteq released \cup {i}
        /\ outcome = "absent" => i \in released'
        /\ owed' \cap released' = {}
      BY <1>10 DEF Submit, Release, ClientInv
  <2> HIDE DEF s, i
  <2>4. Locked /\ s.read => /\ \A d \in Caller \ {c} : ~call[d].read
                            /\ s.rows = AsRead(disk)
      BY <2>2 DEF ClientInv, Current
  <2>5. AsRead(disk') = AsRead(disk)
      BY <2>3 DEF AsRead
  <2>6. Locked => \A j \in owed' : disk'[j] # "absent"
      BY <2>3 DEF ClientInv, SignedIsKept
  <2> QED BY <1>t, <2>1, <2>2, <2>3, <2>4, <2>5, <2>6, StepOfOne DEF ClientTypeOK
<1>11. ASSUME NEW c \in Caller, Settle(c) PROVE ClientInv'
  <2> DEFINE i == call[c].item
             rows == call[c].rows
             state == call[c].result
             s == IF c \in draining THEN [Resting EXCEPT !.at = "next", !.todo = call[c].todo]
                  ELSE Resting
  <2>1. call[c].at = "settle" /\ call[c].read
      BY <1>11 DEF Settle, Loaded
  <2>2. /\ i \in Item /\ rows \in Rows /\ state \in {"absent", "pending", "receipted"}
        /\ state = "absent" => i \in released
      BY <1>s, <2>1 DEF ClientInv, Named, Refused
  <2>3. s \in CallState /\ ~s.read /\ s.at \in {"idle", "next"}
      BY <1>r, <1>s DEF CallState, Resting
  <2>4. /\ Becomes(c, s) /\ UNCHANGED <<draining, owed, released>>
        /\ disk' = Put(rows, i, state)
      BY <1>11 DEF Settle, Outcome
  <2> HIDE DEF s, rows, i, state
  <2>5. disk' \in Rows
      BY <2>2, <2>4, PutRows
  <2>6. ASSUME Locked, NEW j \in owed' PROVE disk'[j] # "absent"
    <3>1. rows = AsRead(disk) /\ disk[j] # "absent" /\ j \in Item /\ j \notin released
        BY <1>t, <2>1, <2>4, <2>6 DEF ClientInv, Current, SignedIsKept, rows, ClientTypeOK
    <3>2. rows[j] # "absent"
        BY <1>t, <3>1, AsReadRows DEF ClientTypeOK
    <3>3. disk'[i] = state /\ \A k \in Item \ {i} : disk'[k] = rows[k]
        BY <2>2, <2>4 DEF Put, Rows
    <3> QED BY <2>2, <3>1, <3>2, <3>3
  <2>7. /\ owed' \subseteq Item /\ owed' \cap released' = {} /\ released' \subseteq Item
        /\ draining' \subseteq Caller
      BY <1>t, <2>4 DEF ClientTypeOK, ClientInv
  <2> QED BY <2>1, <2>2, <2>3, <2>4, <2>5, <2>6, <2>7, StepOfOne
<1>12. ASSUME NEW c \in Caller, Clear(c) PROVE ClientInv'
  <2> DEFINE rows == call[c].rows
             todo == call[c].todo
  <2>1. call[c].at = "clear" /\ call[c].read /\ rows \in Rows /\ todo \subseteq Item
      BY <1>12, <1>s DEF Clear, Loaded
  <2>2. /\ Becomes(c, Resting) /\ UNCHANGED draining
        /\ disk' = [j \in Item |-> IF j \in todo THEN "absent" ELSE rows[j]]
        /\ owed' = owed \ todo /\ released' = released \cup todo
      BY <1>12 DEF Clear, Release
  <2> HIDE DEF rows, todo
  <2>3. disk' \in Rows
      BY <2>1, <2>2 DEF Rows
  <2>4. ASSUME Locked, NEW j \in owed' PROVE disk'[j] # "absent"
    <3>1. rows = AsRead(disk) /\ disk[j] # "absent" /\ j \in Item
        BY <1>t, <2>1, <2>2, <2>4 DEF ClientInv, Current, SignedIsKept, rows, ClientTypeOK
    <3>2. rows[j] # "absent"
        BY <1>t, <3>1, AsReadRows DEF ClientTypeOK
    <3> QED BY <2>2, <2>4, <3>1, <3>2
  <2>5. /\ owed' \subseteq Item /\ owed' \cap released' = {} /\ released' \subseteq Item
        /\ draining' \subseteq Caller /\ released \subseteq released'
      BY <1>t, <2>1, <2>2 DEF ClientTypeOK, ClientInv
  <2> QED BY <1>r, <2>1, <2>2, <2>3, <2>4, <2>5, StepOfOne
<1>13. ASSUME AppDies PROVE ClientInv'
  <2>1. \A c \in Caller : call'[c] = Resting
      BY <1>13 DEF AppDies
  <2>2. UNCHANGED <<disk, owed, released>> /\ draining' = {}
      BY <1>13 DEF AppDies
  <2>3. ClientTypeOK'
      BY <1>13, <1>t, <1>r, <2>2 DEF AppDies, ClientTypeOK
  <2>4. Refused' /\ Named' /\ Current'
      BY <1>r, <2>1 DEF Refused, Named, Current
  <2> QED BY <2>2, <2>3, <2>4 DEF ClientInv, SignedIsKept
<1>14. ASSUME UNCHANGED outboxVars PROVE ClientInv'
    BY <1>14 DEF outboxVars, ClientInv, ClientTypeOK, Refused, Named, Current, SignedIsKept, AsRead
<1> QED
    BY <1>1, <1>2, <1>3, <1>4, <1>5, <1>6, <1>7, <1>8, <1>9, <1>10, <1>11, <1>12, <1>13, <1>14
    DEF ClientNext

\* The invariant holds in every reachable state.
LEMMA ClientInvHolds == ClientSpec => []ClientInv
<1> QED BY ClientInitHolds, ClientStepHolds, PTL DEF ClientSpec

\* The stored queue and every call in progress are well formed, whatever
\* overlaps: deliver and drain never write a row they were not given.
THEOREM ClientTypeCorrect == ClientSpec => []ClientTypeOK
<1>1. ClientInv => ClientTypeOK
    BY DEF ClientInv
<1> QED BY <1>1, ClientInvHolds, PTL

\* With updates kept apart, an envelope whose enqueue has returned is stored
\* until the node refuses it for good or the person clears it, however
\* submissions, drains and clears overlap and whenever the app is closed.
THEOREM OrderlyKeepsSignedCorrect == ClientSpec => []OrderlyKeepsSigned
<1>1. ClientInv => OrderlyKeepsSigned
    BY DEF ClientInv, OrderlyKeepsSigned
<1> QED BY <1>1, ClientInvHolds, PTL

-----------------------------------------------------------------------------
(***************************************************************************)
(* What the audit-log service has promised stays in its file, for every    *)
(* set of certificates and any number of appends, failed writes and        *)
(* restarts, if a write leaves a whole line or nothing. The records in     *)
(* memory are then the file while the service is ready, so the line that   *)
(* is being written follows the last one and takes a key nobody has.       *)
(***************************************************************************)
\* The line that is being written follows what is in memory.
Follows(line) ==
    /\ line.previous = Certs(memory)
    /\ \A i \in DOMAIN memory : KeyOf[memory[i].cert] # KeyOf[line.cert]

AuditInv ==
    /\ AuditTypeOK
    /\ writing # NoCert => ready /\ chained # <<>> /\ Follows(writing)
    /\ whole => ended /\ PromisedIsKept /\ (ready => memory = file)

-----------------------------------------------------------------------------
\* The certificates of the records are a sequence of certificates.
LEMMA CertsTyped ==
    ASSUME NEW records \in Seq(AuditRecord)
    PROVE  Certs(records) \in Seq(Cert)
<1>1. /\ records \in [1..Len(records) -> AuditRecord] /\ Len(records) \in Nat
      /\ DOMAIN records = 1..Len(records)
    OBVIOUS
<1>2. Certs(records) \in [1..Len(records) -> Cert]
    BY <1>1 DEF Certs, AuditRecord
<1> QED BY <1>1, <1>2

\* A file that loads holds records, and can be taken into memory.
LEMMA LoadedTyped ==
    ASSUME NEW lines \in Seq(AuditRecord \cup {Garbage}), Loads(lines)
    PROVE  lines \in Seq(AuditRecord)
<1>1. /\ lines \in [1..Len(lines) -> AuditRecord \cup {Garbage}] /\ Len(lines) \in Nat
      /\ DOMAIN lines = 1..Len(lines)
    OBVIOUS
<1>2. lines \in [1..Len(lines) -> AuditRecord]
    BY <1>1 DEF Loads
<1> QED BY <1>1, <1>2

\* A write leaves lines, whatever it joins.
LEMMA AddedTyped ==
    ASSUME AuditTypeOK, NEW line \in AuditRecord \cup {Garbage}
    PROVE  Added(line) \in Seq(AuditRecord \cup {Garbage})
<1> DEFINE S == AuditRecord \cup {Garbage}
<1>1. file \in Seq(S) /\ line \in S /\ Garbage \in S
    BY DEF AuditTypeOK
<1> HIDE DEF S
<1>2. Append(file, line) \in Seq(S)
    BY <1>1
<1>3. [file EXCEPT ![Len(file)] = Garbage] \in Seq(S)
  <2>1. file \in [1..Len(file) -> S] /\ Len(file) \in Nat
      BY <1>1
  <2>2. [file EXCEPT ![Len(file)] = Garbage] \in [1..Len(file) -> S]
      BY <1>1, <2>1
  <2> QED BY <2>1, <2>2
<1> QED BY <1>2, <1>3 DEF Added, S

\* A line that follows the file and takes a key of its own leaves the file
\* loadable, and everything promised in it.
LEMMA AddedKeeps ==
    ASSUME AuditInv, whole, writing # NoCert
    PROVE  /\ Added(writing) = Append(file, writing)
           /\ Loads(Added(writing))
           /\ \A c \in promised \cup {writing.cert} :
                 \E i \in DOMAIN Added(writing) : Added(writing)[i].cert = c
           /\ \A i, j \in DOMAIN Added(writing) :
                 i # j => KeyOf[Added(writing)[i].cert] # KeyOf[Added(writing)[j].cert]
<1> DEFINE n == Len(file)
           added == Append(file, writing)
<1>1. /\ file \in Seq(AuditRecord) /\ writing \in AuditRecord /\ ended
      /\ Loads(file) /\ memory = file /\ Follows(writing) /\ writing # Garbage
      /\ \A c \in promised : \E i \in DOMAIN file : file[i].cert = c
      /\ \A i, j \in DOMAIN file : i # j => KeyOf[file[i].cert] # KeyOf[file[j].cert]
    BY LoadedTyped, GarbageIsNone DEF AuditInv, AuditTypeOK, PromisedIsKept
<1>2. Added(writing) = added
    BY <1>1 DEF Added
<1>3. /\ n \in Nat /\ DOMAIN file = 1..n /\ DOMAIN added = 1..(n + 1)
      /\ added[n + 1] = writing /\ \A i \in 1..n : added[i] = file[i]
    BY <1>1
<1>4. writing.previous = [j \in 1..n |-> file[j].cert]
    BY <1>1, <1>3 DEF Follows, Certs
<1>5. \A i \in 1..n : KeyOf[file[i].cert] # KeyOf[writing.cert]
    BY <1>1, <1>3 DEF Follows
<1> HIDE DEF n, added
<1>6. Loads(added)
  <2> SUFFICES ASSUME NEW i \in 1..(n + 1)
               PROVE  /\ added[i] # Garbage
                      /\ added[i].previous = [j \in 1..(i - 1) |-> added[j].cert]
      BY <1>3 DEF Loads
  <2>1. CASE i = n + 1
    <3>1. [j \in 1..(i - 1) |-> added[j].cert] = [j \in 1..n |-> file[j].cert]
        BY <1>3, <2>1
    <3> QED BY <1>1, <1>3, <1>4, <2>1, <3>1
  <2>2. CASE i \in 1..n
    <3>1. [j \in 1..(i - 1) |-> added[j].cert] = [j \in 1..(i - 1) |-> file[j].cert]
        BY <1>3, <2>2
    <3>2. file[i] # Garbage /\ file[i].previous = [j \in 1..(i - 1) |-> file[j].cert]
        BY <1>1, <1>3, <2>2 DEF Loads
    <3> QED BY <1>3, <2>2, <3>1, <3>2
  <2> QED BY <1>3, <2>1, <2>2
<1>7. \A c \in promised \cup {writing.cert} : \E i \in DOMAIN added : added[i].cert = c
  <2> SUFFICES ASSUME NEW c \in promised \cup {writing.cert}
               PROVE  \E i \in 1..(n + 1) : added[i].cert = c
      BY <1>3
  <2>1. CASE c = writing.cert
      BY <1>3, <2>1
  <2>2. CASE c \in promised
    <3>1. \E i \in 1..n : file[i].cert = c
        BY <1>1, <1>3, <2>2
    <3> QED BY <1>3, <3>1
  <2> QED BY <2>1, <2>2
<1>8. ASSUME NEW i \in 1..(n + 1), NEW j \in 1..(n + 1), i # j
      PROVE  KeyOf[added[i].cert] # KeyOf[added[j].cert]
  <2>1. CASE i \in 1..n /\ j \in 1..n
      BY <1>1, <1>3, <1>8, <2>1
  <2>2. CASE i = n + 1 /\ j \in 1..n
      BY <1>3, <1>5, <2>2
  <2>3. CASE i \in 1..n /\ j = n + 1
      BY <1>3, <1>5, <2>3
  <2> QED BY <1>3, <1>8, <2>1, <2>2, <2>3
<1>9. \A i, j \in DOMAIN added : i # j => KeyOf[added[i].cert] # KeyOf[added[j].cert]
    BY <1>3, <1>8
<1> QED BY <1>2, <1>6, <1>7, <1>9 DEF added

-----------------------------------------------------------------------------
\* An empty file loads and owes nothing.
LEMMA AuditInitHolds == AuditInit => AuditInv
<1> SUFFICES ASSUME AuditInit PROVE AuditInv
    OBVIOUS
<1>1. AuditTypeOK
    BY AuditTyped, EmptySeq DEF AuditInit, AuditTypeOK
<1>2. PromisedIsKept
    BY DEF AuditInit, PromisedIsKept, Loads
<1> QED BY <1>1, <1>2 DEF AuditInit, AuditInv

\* What a write that was cut short leaves, and what of it is kept.
LEMMA PartialKeeps ==
    ASSUME AuditInv, writing # NoCert, Partial, promised' = promised
    PROVE  /\ file' \in Seq(AuditRecord \cup {Garbage}) /\ ended' \in BOOLEAN
           /\ whole => ended' /\ PromisedIsKept'
<1>1. writing \in AuditRecord /\ file \in Seq(AuditRecord \cup {Garbage}) /\ ended \in BOOLEAN
    BY DEF AuditInv, AuditTypeOK
<1>2. CASE UNCHANGED <<file, ended>>
    BY <1>1, <1>2 DEF AuditInv, PromisedIsKept
<1>3. CASE whole /\ file' = Added(writing) /\ ended' = TRUE
  <2>1. Added(writing) \in Seq(AuditRecord \cup {Garbage})
      BY <1>1, AddedTyped DEF AuditInv
  <2>2. PromisedIsKept'
      BY <1>3, AddedKeeps DEF PromisedIsKept
  <2> QED BY <1>3, <2>1, <2>2
<1>4. CASE ~whole /\ ended' = FALSE /\ \E line \in {writing, Garbage} : file' = Added(line)
    BY <1>1, <1>4, AddedTyped DEF AuditInv
<1> QED BY <1>2, <1>3, <1>4 DEF Partial

\* Each action keeps the file in step with the memory.
LEMMA AuditStepHolds == AuditInv /\ [AuditNext]_auditVars => AuditInv'
<1> SUFFICES ASSUME AuditInv, [AuditNext]_auditVars PROVE AuditInv'
    OBVIOUS
<1>t. AuditTypeOK
    BY DEF AuditInv
<1>1. ASSUME NEW c \in Cert, Request(c) PROVE AuditInv'
  <2>1. AuditTypeOK'
      BY <1>t, <1>1 DEF Request, AuditTypeOK
  <2>2. chained' # <<>>
      BY <1>t, <1>1 DEF Request, AuditTypeOK
  <2> QED BY <1>1, <2>1, <2>2 DEF Request, AuditInv, Follows, Certs, PromisedIsKept
<1>2. ASSUME Initialise PROVE AuditInv'
  <2>1. CASE Loads(file)
    <3>1. file \in Seq(AuditRecord)
        BY <1>t, <2>1, LoadedTyped DEF AuditTypeOK
    <3>2. /\ ready' = TRUE /\ memory' = file
          /\ UNCHANGED <<file, ended, chained, writing, promised, appends, whole>>
        BY <1>2, <2>1 DEF Initialise
    <3>3. writing' = NoCert
        BY <1>2 DEF Initialise
    <3>4. AuditTypeOK'
        BY <1>t, <3>1, <3>2 DEF AuditTypeOK
    <3> QED BY <3>2, <3>3, <3>4 DEF AuditInv, PromisedIsKept
  <2>2. CASE ~Loads(file)
    <3>1. /\ ~ready /\ writing = NoCert /\ chained # <<>> /\ chained' = Tail(chained)
          /\ UNCHANGED <<file, ended, memory, ready, writing, promised, appends, whole>>
        BY <1>2, <2>2 DEF Initialise
    <3>2. AuditTypeOK'
        BY <1>t, <3>1 DEF AuditTypeOK
    <3> QED BY <3>1, <3>2 DEF AuditInv, PromisedIsKept
  <2> QED BY <2>1, <2>2
<1>3. ASSUME Begin PROVE AuditInv'
  <2> DEFINE c == Head(chained)
  <2>1. /\ ready /\ chained # <<>> /\ writing = NoCert /\ c \in Cert
        /\ UNCHANGED <<file, ended, memory, ready, appends, whole>>
      BY <1>t, <1>3 DEF Begin, AuditTypeOK
  <2>2. CASE Held(c) = {}
    <3>1. /\ writing' = [cert |-> c, previous |-> Certs(memory)]
          /\ UNCHANGED <<chained, promised>>
        BY <1>3, <2>2 DEF Begin
    <3>2. writing' \in AuditRecord /\ writing'.cert = c /\ writing'.previous = Certs(memory)
        BY <1>t, <2>1, <3>1, CertsTyped DEF AuditTypeOK, AuditRecord
    <3>3. \A i \in DOMAIN memory : KeyOf[memory[i].cert] # KeyOf[c]
        BY <2>2 DEF Held
    <3>4. Follows(writing)'
        BY <2>1, <3>2, <3>3 DEF Follows, Certs
    <3>5. AuditTypeOK'
        BY <1>t, <2>1, <3>1, <3>2 DEF AuditTypeOK
    <3> QED BY <2>1, <3>1, <3>4, <3>5 DEF AuditInv, PromisedIsKept
  <2>3. CASE Held(c) # {}
    <3>1. /\ chained' = Tail(chained) /\ promised' = promised \cup ({c} \cap Held(c))
          /\ UNCHANGED writing
        BY <1>3, <2>3 DEF Begin
    <3>2. AuditTypeOK'
        BY <1>t, <2>1, <3>1 DEF AuditTypeOK
    <3>3. ASSUME whole PROVE PromisedIsKept'
      <4>1. memory = file
          BY <2>1, <3>3 DEF AuditInv
      <4>2. c \in Held(c) => \E i \in DOMAIN file : file[i].cert = c
          BY <4>1 DEF Held
      <4> QED BY <2>1, <3>1, <3>3, <4>2 DEF AuditInv, PromisedIsKept, Loads
    <3> QED BY <2>1, <3>1, <3>2, <3>3 DEF AuditInv
  <2> QED BY <2>2, <2>3
<1>4. ASSUME Written PROVE AuditInv'
  <2>1. /\ writing # NoCert /\ writing \in AuditRecord /\ chained # <<>> /\ ready
        /\ file' = Added(writing) /\ ended' = TRUE /\ memory' = Append(memory, writing)
        /\ promised' = promised \cup {writing.cert} /\ writing' = NoCert
        /\ chained' = Tail(chained) /\ UNCHANGED <<ready, appends, whole>>
      BY <1>t, <1>4 DEF Written, AuditInv, AuditTypeOK
  <2>2. /\ Added(writing) \in Seq(AuditRecord \cup {Garbage})
        /\ Append(memory, writing) \in Seq(AuditRecord) /\ Tail(chained) \in Seq(Cert)
        /\ writing.cert \in Cert
      BY <1>t, <2>1, AddedTyped DEF AuditTypeOK, AuditRecord
  <2>3. AuditTypeOK'
      BY <1>t, <2>1, <2>2 DEF AuditTypeOK
  <2>4. ASSUME whole PROVE PromisedIsKept' /\ memory' = file'
    <3>1. memory = file
        BY <2>1, <2>4 DEF AuditInv
    <3> QED BY <2>1, <2>4, <3>1, AddedKeeps DEF PromisedIsKept
  <2> QED BY <2>1, <2>3, <2>4 DEF AuditInv
<1>5. ASSUME WriteFails PROVE AuditInv'
  <2>1. /\ writing # NoCert /\ chained # <<>> /\ writing' = NoCert
        /\ chained' = Tail(chained) /\ UNCHANGED <<memory, ready, promised, appends, whole>>
        /\ whole => UNCHANGED <<file, ended>>
        /\ ~whole => Partial
      BY <1>5 DEF WriteFails, MemoryLast, AuditInv
  <2>2. file' \in Seq(AuditRecord \cup {Garbage}) /\ ended' \in BOOLEAN
      BY <1>t, <2>1, PartialKeeps DEF AuditTypeOK
  <2>3. AuditTypeOK'
      BY <1>t, <2>1, <2>2 DEF AuditTypeOK
  <2> QED BY <2>1, <2>3 DEF AuditInv, PromisedIsKept
<1>6. ASSUME ServiceDies PROVE AuditInv'
  <2>1. /\ memory' = <<>> /\ ready' = FALSE /\ chained' = <<>> /\ writing' = NoCert
        /\ UNCHANGED <<promised, appends, whole>>
        /\ writing = NoCert => UNCHANGED <<file, ended>>
        /\ writing # NoCert => Partial
      BY <1>6 DEF ServiceDies
  <2>2. /\ file' \in Seq(AuditRecord \cup {Garbage}) /\ ended' \in BOOLEAN
        /\ whole => ended' /\ PromisedIsKept'
    <3>1. CASE writing = NoCert
        BY <1>t, <2>1, <3>1 DEF AuditTypeOK, AuditInv, PromisedIsKept
    <3>2. CASE writing # NoCert
        BY <2>1, <3>2, PartialKeeps
    <3> QED BY <3>1, <3>2
  <2>3. AuditTypeOK'
      BY <1>t, <2>1, <2>2, EmptySeq DEF AuditTypeOK
  <2> QED BY <2>1, <2>2, <2>3 DEF AuditInv
<1>7. ASSUME UNCHANGED auditVars PROVE AuditInv'
    BY <1>7 DEF auditVars, AuditInv, AuditTypeOK, Follows, Certs, PromisedIsKept
<1> QED BY <1>1, <1>2, <1>3, <1>4, <1>5, <1>6, <1>7 DEF AuditNext

\* The invariant holds in every reachable state.
LEMMA AuditInvHolds == AuditSpec => []AuditInv
<1> QED BY AuditInitHolds, AuditStepHolds, PTL DEF AuditSpec

\* File, memory and queue are well formed, whatever a write leaves behind.
THEOREM AuditTypeCorrect == AuditSpec => []AuditTypeOK
<1>1. AuditInv => AuditTypeOK
    BY DEF AuditInv
<1> QED BY <1>1, AuditInvHolds, PTL

\* Where a write leaves a whole line or nothing, the file loads after every
\* restart and holds each certificate whose append returned, one to a key.
THEOREM OrderlyPromisedCorrect == AuditSpec => []OrderlyPromisedIsKept
<1>1. AuditInv => OrderlyPromisedIsKept
    BY DEF AuditInv, OrderlyPromisedIsKept
<1> QED BY <1>1, AuditInvHolds, PTL

-----------------------------------------------------------------------------
(***************************************************************************)
(* A job of the tunnel is in the queue until it is handed to one poll. It  *)
(* is queued once, for a request is made once, so the poll that takes the  *)
(* head of the queue leaves no second copy behind.                         *)
(***************************************************************************)
Queued(r) == \E i \in DOMAIN queue : queue[i] = r

\* No job is queued twice.
QueuedOnce == \A i, j \in DOMAIN queue : queue[i] = queue[j] => i = j

\* Where the job of a request is.
Placed(r) ==
    /\ answer[r] = "unasked" => ~Queued(r)
    /\ answer[r] = "unasked" \/ Queued(r) => handed[r] = {}
    /\ answer[r] = "waiting" => Queued(r) \/ \E p \in Nat : handed[r] = {p}

TunnelInv ==
    /\ TunnelTypeOK /\ QueuedOnce
    /\ \A r \in Req : Placed(r)
    /\ poller # NoPoll => queue = <<>>

\* What the ends of the queue hold.
LEMMA QueueEnds ==
    ASSUME queue \in Seq(Req)
    PROVE  /\ queue = <<>> => DOMAIN queue = {}
           /\ queue # <<>> =>
                 /\ Head(queue) \in Req /\ Head(queue) = queue[1] /\ 1 \in DOMAIN queue
                 /\ Tail(queue) \in Seq(Req)
                 /\ DOMAIN Tail(queue) = 1..Len(queue) - 1 /\ Len(queue) \in Nat
                 /\ DOMAIN queue = 1..Len(queue)
                 /\ \A i \in DOMAIN Tail(queue) : Tail(queue)[i] = queue[i + 1]
OBVIOUS

\* A step that moves no job keeps each in its place.
LEMMA TunnelFrame ==
    ASSUME TunnelInv, TunnelTypeOK', queue' = queue, handed' = handed,
           \A r \in Req : answer'[r] \in {"unasked", "waiting"} => answer'[r] = answer[r],
           poller' \in {poller, NoPoll}
    PROVE  TunnelInv'
<1>1. QueuedOnce' /\ \A r \in Req : Queued(r)' <=> Queued(r)
    BY DEF TunnelInv, QueuedOnce, Queued
<1>2. \A r \in Req : Placed(r)'
    BY <1>1 DEF TunnelInv, Placed
<1> QED BY <1>1, <1>2 DEF TunnelInv

LEMMA TunnelInitHolds == TunnelInit => TunnelInv
<1> SUFFICES ASSUME TunnelInit PROVE TunnelInv
    OBVIOUS
<1>1. TunnelTypeOK
  <2>1. queue \in Seq(Req) /\ poller \in Nat \cup {NoPoll} /\ replies \subseteq Reply
      BY DEF TunnelInit
  <2>2. answer \in [Req -> Answered] /\ handed \in [Req -> SUBSET Nat]
      BY DEF TunnelInit, Answered
  <2> QED BY <2>1, <2>2 DEF TunnelInit, TunnelTypeOK
<1>2. DOMAIN queue = {} /\ queue = <<>>
    BY DEF TunnelInit
<1>3. QueuedOnce /\ \A r \in Req : ~Queued(r)
    BY <1>2 DEF QueuedOnce, Queued
<1>4. \A r \in Req : Placed(r)
    BY <1>3 DEF TunnelInit, Placed
<1> QED BY <1>1, <1>2, <1>3, <1>4 DEF TunnelInv

LEMMA ExchangeTyped ==
    ASSUME TunnelTypeOK, NEW r \in Req, Exchange(r)
    PROVE  TunnelTypeOK'
<1>1. queue' \in Seq(Req)
    BY DEF TunnelTypeOK, Exchange, QueuedUnlessPolled
<1>2. replies' \subseteq Reply /\ handed' \in [Req -> SUBSET Nat]
    BY DEF TunnelTypeOK, Exchange, HandTo, Reply
<1> QED BY <1>1, <1>2 DEF TunnelTypeOK, Exchange, Answered

LEMMA TunnelStepTyped == TunnelTypeOK /\ [TunnelNext]_tunnelVars => TunnelTypeOK'
<1> SUFFICES ASSUME TunnelTypeOK, [TunnelNext]_tunnelVars PROVE TunnelTypeOK'
    OBVIOUS
<1> USE DEF TunnelTypeOK
<1>1. CASE UNCHANGED tunnelVars
    BY <1>1 DEF tunnelVars
<1>2. ASSUME NEW r \in Req, Exchange(r) PROVE TunnelTypeOK'
    BY <1>2, ExchangeTyped
<1>3. ASSUME NEW r \in Req, TurnAway(r) PROVE TunnelTypeOK'
    BY <1>3 DEF TurnAway, Answered
<1>4. ASSUME NEW r \in Req, ClientTimeout(r) PROVE TunnelTypeOK'
    BY <1>4 DEF ClientTimeout, Answered
<1>5. CASE PollTimeout
    BY <1>5 DEF PollTimeout, Empty_, Reply
<1>6. CASE Close
  <2>1. answer' \in [Req -> Answered] /\ queue' \in Seq(Req)
      BY <1>6 DEF Close, ToldClosed, Answered
  <2>2. replies' \subseteq Reply
      BY <1>6 DEF Close, Empty_, Reply
  <2>3. closes' \in Nat /\ timers' \subseteq Req
      BY <1>6 DEF Close
  <2> QED BY <1>6, <2>1, <2>2, <2>3 DEF Close
<1>7. CASE Poll
  <2>1. polls' \in Nat
      BY <1>7 DEF Poll
  <2>2. CASE queue # <<>>
    <3>1. Head(queue) \in Req /\ Tail(queue) \in Seq(Req)
        BY <2>2, QueueEnds
    <3>2. PICK r \in Req, p \in Nat : r = Head(queue) /\ p = polls'
        BY <2>1, <3>1
    <3>3. /\ replies' = replies \cup {[poll |-> p, job |-> r]}
          /\ handed' = [handed EXCEPT ![r] = @ \cup {p}]
        BY <1>7, <2>2, <3>2 DEF Poll, HandTo
    <3>4. replies' \subseteq Reply /\ handed' \in [Req -> SUBSET Nat]
        BY <3>3 DEF Reply
    <3> QED BY <1>7, <2>1, <2>2, <3>1, <3>4 DEF Poll
  <2>3. CASE queue = <<>>
      BY <1>7, <2>1, <2>3 DEF Poll, Empty_, Reply
  <2> QED BY <2>2, <2>3
<1>8. ASSUME NEW m \in replies, TakeReply(m) PROVE TunnelTypeOK'
    BY <1>8 DEF TakeReply, Reply
<1>9. CASE GiveUp
    BY <1>9 DEF GiveUp
<1>10. CASE Respond
    BY <1>10 DEF Respond, Answered
<1> QED BY <1>1, <1>2, <1>3, <1>4, <1>5, <1>6, <1>7, <1>8, <1>9, <1>10 DEF TunnelNext

LEMMA ExchangePlaces ==
    ASSUME TunnelInv, NEW r \in Req, Exchange(r)
    PROVE  TunnelInv'
<1>1. /\ TunnelTypeOK' /\ TunnelTypeOK /\ queue \in Seq(Req) /\ handed \in [Req -> SUBSET Nat]
      /\ answer \in [Req -> Answered] /\ answer[r] = "unasked"
      /\ answer' = [answer EXCEPT ![r] = "waiting"] /\ poller' = NoPoll
      /\ ~Queued(r) /\ handed[r] = {} /\ QueuedOnce
    BY ExchangeTyped DEF TunnelInv, TunnelTypeOK, Exchange, Placed
<1>2. CASE poller = NoPoll
  <2>1. queue' = Append(queue, r) /\ handed' = handed
      BY <1>2 DEF Exchange, QueuedUnlessPolled
  <2>2. /\ Len(queue) \in Nat /\ DOMAIN queue = 1..Len(queue)
        /\ DOMAIN queue' = 1..Len(queue) + 1 /\ queue'[Len(queue) + 1] = r
        /\ \A i \in DOMAIN queue : queue'[i] = queue[i]
      BY <1>1, <2>1
  <2>3. QueuedOnce'
    <3> SUFFICES ASSUME NEW i \in DOMAIN queue', NEW j \in DOMAIN queue', queue'[i] = queue'[j]
                 PROVE  i = j
        BY DEF QueuedOnce
    <3>1. CASE i \in DOMAIN queue /\ j \in DOMAIN queue
        BY <1>1, <2>2, <3>1 DEF QueuedOnce
    <3>2. CASE i \notin DOMAIN queue
      <4>1. i = Len(queue) + 1
          BY <2>2, <3>2
      <4> QED BY <1>1, <2>2, <4>1 DEF Queued
    <3>3. CASE j \notin DOMAIN queue
      <4>1. j = Len(queue) + 1
          BY <2>2, <3>3
      <4> QED BY <1>1, <2>2, <4>1 DEF Queued
    <3> QED BY <3>1, <3>2, <3>3
  <2>4. \A s \in Req : Queued(s)' <=> Queued(s) \/ s = r
    <3>1. ASSUME NEW s \in Req, Queued(s)' PROVE Queued(s) \/ s = r
      <4>1. PICK i \in DOMAIN queue' : queue'[i] = s
          BY <3>1 DEF Queued
      <4>2. i \in DOMAIN queue \/ i = Len(queue) + 1
          BY <2>2
      <4> QED BY <2>2, <4>1, <4>2 DEF Queued
    <3>2. ASSUME NEW s \in Req, Queued(s) \/ s = r PROVE Queued(s)'
      <4>1. DOMAIN queue \subseteq DOMAIN queue' /\ Len(queue) + 1 \in DOMAIN queue'
          BY <2>2
      <4> QED BY <2>2, <3>2, <4>1 DEF Queued
    <3> QED BY <3>1, <3>2
  <2>5. \A s \in Req : Placed(s)'
      BY <1>1, <2>1, <2>4 DEF TunnelInv, Placed
  <2> QED BY <1>1, <2>3, <2>5 DEF TunnelInv
<1>3. CASE poller # NoPoll
  <2>1. queue' = queue /\ handed' = [handed EXCEPT ![r] = @ \cup {poller}] /\ poller \in Nat
      BY <1>1, <1>3 DEF Exchange, QueuedUnlessPolled, HandTo, TunnelTypeOK
  <2>2. QueuedOnce' /\ \A s \in Req : Queued(s)' <=> Queued(s)
      BY <1>1, <2>1 DEF QueuedOnce, Queued
  <2>3. handed'[r] = {poller} /\ \A s \in Req \ {r} : handed'[s] = handed[s]
      BY <1>1, <2>1
  <2>4. \A s \in Req : Placed(s)'
      BY <1>1, <2>1, <2>2, <2>3 DEF TunnelInv, Placed
  <2> QED BY <1>1, <2>2, <2>4 DEF TunnelInv
<1> QED BY <1>2, <1>3

\* A poll that finds a job takes the only copy there is.
LEMMA PollPlaces ==
    ASSUME TunnelInv, TunnelTypeOK', Poll
    PROVE  TunnelInv'
<1>1. /\ TunnelTypeOK /\ queue \in Seq(Req) /\ handed \in [Req -> SUBSET Nat]
      /\ answer' = answer /\ polls' \in Nat /\ QueuedOnce
    BY DEF TunnelInv, TunnelTypeOK, Poll
<1>2. CASE queue = <<>>
  <2>1. queue' = queue /\ handed' = handed
      BY <1>2 DEF Poll
  <2>2. QueuedOnce' /\ \A s \in Req : Queued(s)' <=> Queued(s)
      BY <1>1, <2>1 DEF QueuedOnce, Queued
  <2>3. \A s \in Req : Placed(s)'
      BY <1>1, <2>1, <2>2 DEF TunnelInv, Placed
  <2> QED BY <1>2, <2>1, <2>2, <2>3 DEF TunnelInv
<1>3. CASE queue # <<>>
  <2>1. PICK r \in Req : r = Head(queue)
      BY <1>1, <1>3, QueueEnds
  <2>2. /\ queue' = Tail(queue) /\ handed' = [handed EXCEPT ![r] = @ \cup {polls'}]
        /\ poller' = poller /\ poller = NoPoll
      BY <1>3, <2>1 DEF Poll, HandTo, TunnelInv
  <2>3. /\ r = queue[1] /\ 1 \in DOMAIN queue /\ Len(queue) \in Nat
        /\ DOMAIN queue = 1..Len(queue) /\ DOMAIN queue' = 1..Len(queue) - 1
        /\ \A i \in DOMAIN queue' : queue'[i] = queue[i + 1]
      BY <1>1, <1>3, <2>1, <2>2, QueueEnds
  <2>4. \A i \in DOMAIN queue' : i + 1 \in DOMAIN queue /\ i + 1 # 1 /\ i \in Nat
      BY <2>3
  <2>5. QueuedOnce'
    <3> SUFFICES ASSUME NEW i \in DOMAIN queue', NEW j \in DOMAIN queue', queue'[i] = queue'[j]
                 PROVE  i = j
        BY DEF QueuedOnce
    <3>1. i + 1 = j + 1
        BY <1>1, <2>3, <2>4 DEF QueuedOnce
    <3> QED BY <2>4, <3>1
  <2>6. Queued(r) /\ ~Queued(r)'
      BY <1>1, <2>3, <2>4 DEF Queued, QueuedOnce
  <2>7. ASSUME NEW s \in Req, s # r PROVE Queued(s)' <=> Queued(s)
    <3>1. ASSUME Queued(s)' PROVE Queued(s)
        BY <2>3, <2>4, <3>1 DEF Queued
    <3>2. ASSUME Queued(s) PROVE Queued(s)'
      <4>1. PICK i \in DOMAIN queue : queue[i] = s
          BY <3>2 DEF Queued
      <4>2. i # 1
          BY <2>3, <2>7, <4>1
      <4>3. i - 1 \in DOMAIN queue' /\ (i - 1) + 1 = i
          BY <2>3, <4>1, <4>2
      <4> QED BY <2>3, <4>1, <4>3 DEF Queued
    <3> QED BY <3>1, <3>2
  <2>8. handed[r] = {} /\ answer[r] # "unasked"
      BY <2>6 DEF TunnelInv, Placed
  <2>9. handed'[r] = {polls'} /\ \A s \in Req \ {r} : handed'[s] = handed[s]
      BY <1>1, <2>2, <2>8
  <2>10. ASSUME NEW s \in Req PROVE Placed(s)'
    <3>1. CASE s = r
        BY <1>1, <2>6, <2>8, <2>9, <3>1 DEF Placed
    <3>2. CASE s # r
        BY <1>1, <2>7, <2>9, <3>2 DEF TunnelInv, Placed
    <3> QED BY <3>1, <3>2
  <2> QED BY <2>2, <2>5, <2>10 DEF TunnelInv
<1> QED BY <1>2, <1>3

LEMMA TunnelStepHolds == TunnelInv /\ [TunnelNext]_tunnelVars => TunnelInv'
<1> SUFFICES ASSUME TunnelInv, [TunnelNext]_tunnelVars PROVE TunnelInv'
    OBVIOUS
<1>t. TunnelTypeOK /\ TunnelTypeOK' /\ answer \in [Req -> Answered]
    BY TunnelStepTyped DEF TunnelInv, TunnelTypeOK
<1>1. CASE UNCHANGED tunnelVars
    BY <1>1, <1>t, TunnelFrame DEF tunnelVars
<1>2. ASSUME NEW r \in Req, Exchange(r) PROVE TunnelInv'
    BY <1>2, ExchangePlaces
<1>3. ASSUME NEW r \in Req, TurnAway(r) \/ ClientTimeout(r) PROVE TunnelInv'
    BY <1>3, <1>t, TunnelFrame DEF TurnAway, ClientTimeout
<1>4. CASE PollTimeout \/ GiveUp
    BY <1>4, <1>t, TunnelFrame DEF PollTimeout, GiveUp
<1>5. CASE Close
  <2>1. queue' = <<>> /\ handed' = handed /\ answer' = ToldClosed /\ poller' = NoPoll
      BY <1>5 DEF Close
  <2>2. QueuedOnce' /\ \A r \in Req : ~Queued(r)'
      BY <2>1 DEF QueuedOnce, Queued
  <2>3. \A r \in Req : answer'[r] # "waiting" /\ (answer'[r] = "unasked" => answer[r] = "unasked")
      BY <1>t, <2>1 DEF ToldClosed, Unanswered
  <2>4. \A r \in Req : Placed(r)'
      BY <2>1, <2>2, <2>3 DEF TunnelInv, Placed
  <2> QED BY <1>t, <2>1, <2>2, <2>4 DEF TunnelInv
<1>6. CASE Poll
    BY <1>6, <1>t, PollPlaces
<1>7. ASSUME NEW m \in replies, TakeReply(m) PROVE TunnelInv'
    BY <1>7, <1>t, TunnelFrame DEF TakeReply
<1>8. CASE Respond
    BY <1>8, <1>t, TunnelFrame DEF Respond
<1> QED BY <1>1, <1>2, <1>3, <1>4, <1>5, <1>6, <1>7, <1>8 DEF TunnelNext

\* The exit and its client are well formed, for every order of polls.
THEOREM TunnelTypeCorrect == TunnelSpec => []TunnelTypeOK
<1>1. TunnelInv => TunnelTypeOK
    BY DEF TunnelInv
<1> QED BY <1>1, TunnelInitHolds, TunnelStepHolds, PTL DEF TunnelSpec

\* Each job whose client waits is queued once or was handed to one poll,
\* never both and never neither, and none waits while a poll does.
THEOREM HandedOnceCorrect == TunnelSpec => []HandedOnce
<1>1. ASSUME TunnelInv PROVE HandedOnce
  <2>1. ASSUME NEW r \in Unanswered
        PROVE  Cardinality(handed[r]) + Cardinality({i \in DOMAIN queue : queue[i] = r}) = 1
    <3>1. r \in Req /\ answer[r] = "waiting" /\ Placed(r)
        BY <1>1 DEF Unanswered, TunnelInv
    <3>2. CASE Queued(r)
      <4>1. PICK i \in DOMAIN queue : queue[i] = r
          BY <3>2 DEF Queued
      <4>2. {j \in DOMAIN queue : queue[j] = r} = {i}
          BY <1>1, <4>1 DEF TunnelInv, QueuedOnce
      <4>3. handed[r] = {}
          BY <3>1, <3>2 DEF Placed
      <4>4. Cardinality({i}) = 1 /\ Cardinality({}) = 0
          BY FS_Singleton, FS_EmptySet
      <4>5. Cardinality(handed[r]) = 0
          BY <4>3, <4>4
      <4>6. Cardinality({j \in DOMAIN queue : queue[j] = r}) = 1
          BY <4>2, <4>4
      <4> QED BY <4>5, <4>6
    <3>3. CASE ~Queued(r)
      <4>1. {j \in DOMAIN queue : queue[j] = r} = {}
          BY <3>3 DEF Queued
      <4>2. PICK p \in Nat : handed[r] = {p}
          BY <3>1, <3>3 DEF Placed
      <4>3. Cardinality({p}) = 1 /\ Cardinality({}) = 0
          BY FS_Singleton, FS_EmptySet
      <4>4. Cardinality(handed[r]) = 1
          BY <4>2, <4>3
      <4>5. Cardinality({j \in DOMAIN queue : queue[j] = r}) = 0
          BY <4>1, <4>3
      <4> QED BY <4>4, <4>5
    <3> QED BY <3>2, <3>3
  <2> QED BY <1>1, <2>1 DEF HandedOnce, TunnelInv
<1> QED BY <1>1, TunnelInitHolds, TunnelStepHolds, PTL DEF TunnelSpec

-----------------------------------------------------------------------------
(***************************************************************************)
(* The relay's queue keeps its order, for every number of Send calls,      *)
(* frames and restarts, however the drains overlap. The rows that remain   *)
(* are the last ids without a gap, what a drain holds is a run of ids that *)
(* begins no later than the first of them, and it takes out the head of    *)
(* its run only once the link has carried it.                              *)
(***************************************************************************)
\* The ids whose row is gone are the first of them.
Removed == lastId - Len(outbound)

\* The ids of the frames follow one another.
Run(list, before) == \A i \in 1..Len(list) : list[i].id = before + i

DrainState == [at : {"idle", "sending", "carried"}, list : Seq(Frame)]

\* A drain works on a run that begins no later than the rows, and no row
\* goes before the link has carried its frame.
KeepsPace(w, gone, last, carried) ==
    w.at # "idle" =>
        /\ w.list # <<>>
        /\ \E before \in 0..gone : Run(w.list, before) /\ before + Len(w.list) <= last
        /\ w.at = "carried" => Head(w.list).id \in carried

RelayInv ==
    /\ RelayTypeOK
    /\ Removed \in Nat /\ Run(outbound, Removed)
    /\ 1..Removed \subseteq left /\ ResumesInOrder
    /\ \A d \in Pass : KeepsPace(drain[d], Removed, lastId, left)

\* A drain that has returned follows anything.
LEMMA QuietFollows ==
    ASSUME NEW gone, NEW last, NEW carried
    PROVE  Quiet \in DrainState /\ KeepsPace(Quiet, gone, last, carried)
BY EmptySeq DEF Quiet, DrainState, KeepsPace

\* A drain that rests while rows go and frames leave goes on following.
LEMMA StillFollows ==
    ASSUME NEW w \in DrainState, NEW gone \in Nat, NEW more \in Nat, NEW carried, NEW wider,
           NEW last \in Nat, NEW later \in Nat,
           KeepsPace(w, gone, last, carried), gone <= more, last <= later, carried \subseteq wider
    PROVE  KeepsPace(w, more, later, wider)
<1> SUFFICES ASSUME w.at # "idle" PROVE KeepsPace(w, more, later, wider)
    BY DEF KeepsPace
<1>1. PICK before \in 0..gone : Run(w.list, before) /\ before + Len(w.list) <= last
    BY DEF KeepsPace
<1>2. Len(w.list) \in Nat
    BY LenProperties DEF DrainState
<1>3. before \in 0..more /\ before + Len(w.list) <= later
    BY <1>1, <1>2
<1> QED BY <1>1, <1>3 DEF KeepsPace

\* A drain that goes on with a run follows.
LEMMA DrainingFollows ==
    ASSUME NEW list \in Seq(Frame), NEW gone, NEW last, NEW carried,
           \E before \in 0..gone : Run(list, before) /\ before + Len(list) <= last
    PROVE  /\ Draining(list) \in DrainState
           /\ KeepsPace(Draining(list), gone, last, carried)
<1>1. Draining(list).list = list /\ Draining(list).at \in {"idle", "sending"}
    BY DEF Draining
<1>2. Draining(list).at # "idle" => list # <<>>
    BY DEF Draining
<1>3. Draining(list) \in DrainState
    BY DEF Draining, DrainState
<1> QED BY <1>1, <1>2, <1>3 DEF KeepsPace

\* The rows a drain reads are a run from the first row.
LEMMA DueFollows ==
    ASSUME NEW table \in Seq(Frame), NEW gone \in Nat, Run(table, gone), NEW carried
    PROVE  /\ Draining(DueFrames(table)) \in DrainState
           /\ KeepsPace(Draining(DueFrames(table)), gone, gone + Len(table), carried)
<1> DEFINE size == IF Len(table) < Limit THEN Len(table) ELSE Limit
           due == DueFrames(table)
<1>1. size \in Nat /\ size <= Len(table) /\ Len(table) \in Nat
    BY RelayTyped, LenProperties
<1>2. /\ due \in Seq(Frame) /\ Len(due) = size
      /\ \A i \in 1..size : due[i] = table[i]
    BY <1>1, SubSeqProperties DEF DueFrames
<1>3. Run(due, gone)
    BY <1>1, <1>2 DEF Run
<1> HIDE DEF due
<1>4. \E before \in 0..gone : Run(due, before) /\ before + Len(due) <= gone + Len(table)
    BY <1>1, <1>2, <1>3
<1>5. due \in Seq(Frame)
    BY <1>2
<1> QED BY <1>4, <1>5, DrainingFollows DEF due

\* What is left of a run after its head is a run.
LEMMA RestFollows ==
    ASSUME NEW list \in Seq(Frame), list # <<>>, NEW before \in Nat, Run(list, before),
           NEW gone \in Nat, before + 1 <= gone, NEW last \in Nat, before + Len(list) <= last, NEW carried
    PROVE  /\ Draining(Tail(list)) \in DrainState
           /\ KeepsPace(Draining(Tail(list)), gone, last, carried)
<1> DEFINE rest == Tail(list)
<1>1. /\ rest \in Seq(Frame) /\ Len(rest) = Len(list) - 1 /\ Len(list) \in Nat
      /\ \A i \in 1..Len(rest) : rest[i] = list[i + 1]
    BY HeadTailProperties, LenProperties
<1>2. Run(rest, before + 1)
    BY <1>1 DEF Run
<1> HIDE DEF rest
<1>3. \E first \in 0..gone : Run(rest, first) /\ first + Len(rest) <= last
  <2>1. before + 1 \in 0..gone /\ before + 1 + Len(rest) <= last
      BY <1>1
  <2> QED BY <1>2, <2>1
<1>4. rest \in Seq(Frame)
    BY <1>1
<1> QED BY <1>3, <1>4, DrainingFollows DEF rest

\* Taking an id out of a run of rows: the first row goes, or it is gone.
LEMMA RemoveFromRun ==
    ASSUME RelayInv, NEW id \in 1..Removed + 1, id <= lastId
    PROVE  IF id <= Removed THEN Without(id) = outbound
           ELSE outbound # <<>> /\ Without(id) = Tail(outbound)
<1>1. /\ outbound \in Seq(Frame) /\ Len(outbound) \in Nat /\ Removed \in Nat /\ lastId \in Nat
      /\ \A i \in 1..Len(outbound) : outbound[i].id = Removed + i
    BY LenProperties DEF RelayInv, RelayTypeOK, Run
<1>2. CASE id <= Removed
  <2>1. ~\E i \in 1..Len(outbound) : outbound[i].id = id
      BY <1>1, <1>2
  <2> QED BY <1>2, <2>1 DEF Without, RemoveFirstMatch
<1>3. CASE id = Removed + 1
  <2>1. 1 \in 1..Len(outbound)
      BY <1>1, <1>3 DEF Removed
  <2>2. \A j \in 1..Len(outbound) : outbound[j].id = id <=> j = 1
      BY <1>1, <1>3
  <2>3. {j \in 1..Len(outbound) : outbound[j].id = id} = {1}
      BY <2>1, <2>2
  <2>4. Min({1}) = 1
      BY DEF Min
  <2>5. Without(id) = RemoveAt(outbound, 1)
      BY <2>1, <2>2, <2>3, <2>4 DEF Without, RemoveFirstMatch, SelectInSeq
  <2>6. RemoveAt(outbound, 1) = Tail(outbound) /\ outbound # <<>>
      BY <1>1, <2>1 DEF RemoveAt
  <2> QED BY <1>1, <1>3, <2>5, <2>6
<1> QED BY <1>1, <1>2, <1>3

\* One drain changes and goes on following; the others follow what is there
\* to follow when more has gone and more has left.
LEMMA DrainStep ==
    ASSUME RelayInv, NEW d \in Pass, NEW w \in DrainState, drain' = [drain EXCEPT ![d] = w],
           Removed' \in Nat, Removed <= Removed', lastId' \in Nat, lastId <= lastId',
           left \subseteq left', KeepsPace(w, Removed', lastId', left')
    PROVE  /\ drain' \in [Pass -> DrainState]
           /\ \A e \in Pass : KeepsPace(drain[e], Removed, lastId, left)'
<1>1. drain \in [Pass -> DrainState]
    BY DEF RelayInv, RelayTypeOK, DrainState
<1>2. ASSUME NEW e \in Pass PROVE KeepsPace(drain'[e], Removed', lastId', left')
  <2>1. CASE e = d
      BY <1>1, <2>1
  <2>2. CASE e # d
    <3>1. /\ drain'[e] = drain[e] /\ drain[e] \in DrainState
          /\ KeepsPace(drain[e], Removed, lastId, left) /\ Removed \in Nat /\ lastId \in Nat
        BY <1>1, <2>2 DEF RelayInv, RelayTypeOK
    <3> QED BY <3>1, StillFollows
  <2> QED BY <2>1, <2>2
<1> QED BY <1>1, <1>2

\* Only the drains change.
LEMMA DrainsOnly ==
    ASSUME RelayInv, drain' \in [Pass -> DrainState],
           \A e \in Pass : KeepsPace(drain[e], Removed, lastId, left)',
           UNCHANGED <<outbound, lastId, left, pending, inbound, taken, discarded, lost, sends>>,
           alive' \in BOOLEAN, restarts' \in Nat
    PROVE  RelayInv'
BY DEF RelayInv, RelayTypeOK, Removed, Run, ResumesInOrder, DrainState

\* The rows and what is drained of them stay.
LEMMA QueueFrame ==
    ASSUME RelayInv, UNCHANGED <<outbound, lastId, drain, left>>, RelayTypeOK'
    PROVE  RelayInv'
BY DEF RelayInv, Removed, Run, ResumesInOrder

LEMMA RelayInitHolds == RelayInit => RelayInv
<1> SUFFICES ASSUME RelayInit PROVE RelayInv
    OBVIOUS
<1>1. outbound \in Seq(Frame) /\ inbound \in Seq(Msg) /\ Len(outbound) = 0
    BY EmptySeq DEF RelayInit
<1>2. Quiet \in DrainState /\ \A gone, last, carried : KeepsPace(Quiet, gone, last, carried)
    BY QuietFollows
<1>3. RelayTypeOK
    BY <1>1, <1>2 DEF RelayInit, RelayTypeOK, DrainState
<1>4. Removed = 0
  <2>1. lastId = 0
      BY DEF RelayInit
  <2> QED BY <1>1, <2>1 DEF Removed
<1>6. Run(outbound, Removed) /\ 1..Removed \subseteq left /\ ResumesInOrder
    BY <1>1, <1>4 DEF RelayInit, Run, ResumesInOrder
<1>5. \A d \in Pass : KeepsPace(drain[d], Removed, lastId, left)
    BY <1>2 DEF RelayInit
<1> QED BY <1>3, <1>4, <1>5, <1>6 DEF RelayInv

\* An envelope's frames follow the rows that are there.
LEMMA SendKeepsRun ==
    ASSUME RelayInv, NEW s \in Sender, NEW m \in Msg, SendEnvelope(s, m)
    PROVE  RelayInv'
<1> DEFINE frames == [k \in 1..Parts[m] |-> [id |-> lastId + k, msg |-> m, part |-> k]]
<1>1. Parts[m] \in Nat /\ lastId \in Nat /\ outbound \in Seq(Frame) /\ s \in Pass
    BY RelayTyped DEF RelayInv, RelayTypeOK, Pass
<1>2. \A k \in 1..Parts[m] : [id |-> lastId + k, msg |-> m, part |-> k] \in Frame
    BY <1>1 DEF Frame
<1>3. frames \in [1..Parts[m] -> Frame]
    BY <1>2
<1>4. frames \in Seq(Frame) /\ Len(frames) = Parts[m]
    BY <1>1, <1>3
<1>5. \A k \in 1..Parts[m] : frames[k].id = lastId + k
    OBVIOUS
<1>6. outbound' = outbound \o frames /\ lastId' = lastId + Parts[m] /\ left' = left
    BY DEF SendEnvelope
<1> HIDE DEF frames
<1>7. /\ outbound' \in Seq(Frame) /\ Len(outbound') = Len(outbound) + Parts[m]
      /\ \A i \in 1..Len(outbound') :
            outbound'[i] = IF i <= Len(outbound) THEN outbound[i] ELSE frames[i - Len(outbound)]
      /\ Len(outbound) \in Nat
    BY <1>1, <1>4, <1>6, ConcatProperties, LenProperties
<1>8. Removed' = Removed /\ Removed \in Nat
    BY <1>1, <1>6, <1>7 DEF Removed, RelayInv
<1>9. Run(outbound', Removed')
  <2> SUFFICES ASSUME NEW i \in 1..Len(outbound') PROVE outbound'[i].id = Removed + i
      BY <1>8 DEF Run
  <2>1. CASE i <= Len(outbound)
      BY <1>7, <2>1 DEF RelayInv, Run
  <2>2. CASE ~(i <= Len(outbound))
    <3>1. i - Len(outbound) \in 1..Parts[m]
        BY <1>1, <1>7, <2>2
    <3>2. outbound'[i].id = lastId + (i - Len(outbound))
        BY <1>5, <1>7, <2>2, <3>1
    <3> QED BY <1>1, <1>7, <3>2 DEF Removed
  <2> QED BY <2>1, <2>2
<1>10. /\ Draining(DueFrames(outbound')) \in DrainState
       /\ KeepsPace(Draining(DueFrames(outbound')), Removed', lastId', left')
  <2>1. lastId' = Removed' + Len(outbound')
      BY <1>1, <1>6, <1>7 DEF Removed
  <2> QED BY <1>7, <1>8, <1>9, <2>1, DueFollows
<1>11. drain' = [drain EXCEPT ![s] = Draining(DueFrames(outbound'))]
    BY DEF SendEnvelope
<1>12. /\ drain' \in [Pass -> DrainState]
       /\ \A e \in Pass : KeepsPace(drain[e], Removed, lastId, left)'
  <2>1. /\ Removed' \in Nat /\ Removed <= Removed' /\ left \subseteq left'
        /\ lastId' \in Nat /\ lastId <= lastId'
      BY <1>1, <1>6, <1>8
  <2> QED BY <1>1, <1>10, <1>11, <2>1, DrainStep
<1>13. RelayTypeOK'
  <2>1. lastId' \in Nat /\ outbound' \in Seq(Frame)
      BY <1>1, <1>6, <1>7
  <2>2. sends' \in Nat
      BY DEF RelayInv, RelayTypeOK, SendEnvelope
  <2>3. UNCHANGED <<alive, left, pending, inbound, taken, discarded, lost, restarts>>
      BY DEF SendEnvelope
  <2>4. RelayTypeOK
      BY DEF RelayInv
  <2> QED BY <1>12, <2>1, <2>2, <2>3, <2>4 DEF RelayTypeOK, DrainState
<1>14. 1..Removed' \subseteq left' /\ ResumesInOrder'
    BY <1>6, <1>8 DEF RelayInv, ResumesInOrder
<1> QED BY <1>8, <1>9, <1>12, <1>13, <1>14 DEF RelayInv

\* What the reassembler does stays typed.
LEMMA AcceptTyped ==
    ASSUME RelayTypeOK, NEW m \in Msg, NEW part \in Nat, Accept(m, part)
    PROVE  pending' \in [Msg -> SUBSET Nat] /\ inbound' \in Seq(Msg) /\ discarded' \subseteq Msg
<1>1. Append(inbound, m) \in Seq(Msg)
    BY DEF RelayTypeOK
<1>2. inbound' \in Seq(Msg) /\ discarded' \subseteq Msg
    BY <1>1 DEF RelayTypeOK, Accept
<1>3. Gathered(m, part) \in SUBSET Nat
    BY DEF RelayTypeOK, Gathered
<1>4. pending' \in [Msg -> SUBSET Nat]
    BY <1>3 DEF RelayTypeOK, Accept
<1> QED BY <1>2, <1>4

\* The frame that the link takes is the next of those that left, or left
\* before, whether it arrives or not.
LEMMA TransmitKeepsOrder ==
    ASSUME RelayInv, NEW d \in Pass, Carry(d) \/ Lose(d)
    PROVE  RelayInv'
<1> DEFINE w == drain[d]
           frame == Head(w.list)
<1>1. /\ w \in DrainState /\ w.at = "sending" /\ KeepsPace(w, Removed, lastId, left)
      /\ Removed \in Nat /\ lastId \in Nat
    BY DEF RelayInv, RelayTypeOK, Carry, Lose, Transmit, DrainState
<1>2. PICK before \in 0..Removed : Run(w.list, before) /\ before + Len(w.list) <= lastId
    BY <1>1 DEF KeepsPace
<1>3. w.list \in Seq(Frame) /\ w.list # <<>>
    BY <1>1 DEF DrainState, KeepsPace
<1>4. frame = w.list[1] /\ frame \in Frame /\ 1 \in 1..Len(w.list)
    BY <1>3, HeadTailProperties, EmptySeq
<1>5. frame.id = before + 1 /\ before \in Nat /\ before <= Removed
    BY <1>1, <1>2, <1>4 DEF Run
<1>6. left' = left \cup {frame.id} /\ left' \subseteq Nat
    BY <1>4 DEF Carry, Lose, Transmit, Frame, RelayInv, RelayTypeOK
<1>7. ResumesInOrder'
  <2> SUFFICES ASSUME NEW id \in left', NEW earlier \in 1..id PROVE earlier \in left'
      BY DEF ResumesInOrder
  <2>1. CASE id \in left
      BY <1>6, <2>1 DEF RelayInv, ResumesInOrder
  <2>2. CASE id = frame.id
      BY <1>1, <1>5, <1>6, <2>2 DEF RelayInv
  <2> QED BY <1>6, <2>1, <2>2
<1> DEFINE after == [w EXCEPT !.at = "carried"]
<1>8. after \in DrainState /\ after.list = w.list /\ after.at = "carried"
    BY <1>1 DEF DrainState
<1>9. drain' = [drain EXCEPT ![d] = after] /\ UNCHANGED <<outbound, lastId>>
    BY DEF Carry, Lose, Transmit
<1>10. Removed' = Removed
    BY <1>9 DEF Removed
<1>11. KeepsPace(after, Removed', lastId', left')
    BY <1>2, <1>3, <1>6, <1>8, <1>9, <1>10 DEF KeepsPace
<1> HIDE DEF after
<1>12. /\ drain' \in [Pass -> DrainState]
       /\ \A e \in Pass : KeepsPace(drain[e], Removed, lastId, left)'
  <2>1. /\ Removed' \in Nat /\ Removed <= Removed' /\ left \subseteq left'
        /\ lastId' \in Nat /\ lastId <= lastId'
      BY <1>1, <1>6, <1>9, <1>10
  <2> QED BY <1>8, <1>9, <1>11, <2>1, DrainStep
<1>13. frame.msg \in Msg /\ frame.part \in Nat
    BY <1>4 DEF Frame
<1>14. RelayTypeOK'
  <2>1. CASE Carry(d)
    <3>1. Accept(frame.msg, frame.part)
        BY <2>1 DEF Carry
    <3> QED BY <1>6, <1>9, <1>12, <1>13, <2>1, <3>1, AcceptTyped
            DEF RelayInv, RelayTypeOK, Carry, DrainState
  <2>2. CASE Lose(d)
    <3>1. lost' \subseteq Msg
        BY <1>13, <2>2 DEF Lose, RelayInv, RelayTypeOK
    <3> QED BY <1>6, <1>9, <1>12, <2>2, <3>1 DEF RelayInv, RelayTypeOK, Lose, DrainState
  <2> QED BY <2>1, <2>2
<1>15. Run(outbound', Removed') /\ 1..Removed' \subseteq left'
    BY <1>6, <1>9, <1>10 DEF RelayInv, Run
<1> QED BY <1>1, <1>7, <1>10, <1>12, <1>14, <1>15 DEF RelayInv

\* A row goes only from the front, and after its frame has left.
LEMMA SentKeepsRun ==
    ASSUME RelayInv, NEW d \in Pass, Sent(d)
    PROVE  RelayInv'
<1> DEFINE w == drain[d]
           frame == Head(w.list)
<1>1. /\ w \in DrainState /\ w.at = "carried" /\ KeepsPace(w, Removed, lastId, left)
      /\ Removed \in Nat /\ outbound \in Seq(Frame) /\ Run(outbound, Removed) /\ lastId \in Nat
    BY DEF RelayInv, RelayTypeOK, Sent, DrainState
<1>2. PICK before \in 0..Removed : Run(w.list, before) /\ before + Len(w.list) <= lastId
    BY <1>1 DEF KeepsPace
<1>3. w.list \in Seq(Frame) /\ w.list # <<>> /\ frame.id \in left
    BY <1>1 DEF DrainState, KeepsPace
<1>4. frame = w.list[1] /\ frame \in Frame /\ 1 \in 1..Len(w.list)
    BY <1>3, HeadTailProperties, EmptySeq
<1>5. frame.id = before + 1 /\ before \in Nat /\ before <= Removed
    BY <1>1, <1>2, <1>4 DEF Run
<1>6. outbound' = Without(frame.id) /\ lastId' = lastId /\ left' = left
    BY DEF Sent
<1>7. /\ outbound' \in Seq(Frame) /\ Run(outbound', Removed') /\ Removed' \in Nat
      /\ Removed <= Removed' /\ before + 1 <= Removed' /\ 1..Removed' \subseteq left'
  <2>1. frame.id \in 1..Removed + 1 /\ frame.id <= lastId /\ Len(outbound) \in Nat
    <3>1. Len(w.list) \in Nat /\ 1 <= Len(w.list)
        BY <1>3, <1>4, LenProperties
    <3> QED BY <1>1, <1>2, <1>5, <3>1, LenProperties
  <2>2. CASE frame.id <= Removed
    <3>1. outbound' = outbound
        BY <1>6, <2>1, <2>2, RemoveFromRun
    <3>2. Removed' = Removed
        BY <1>6, <3>1 DEF Removed
    <3> QED BY <1>1, <1>5, <1>6, <2>2, <3>1, <3>2 DEF RelayInv
  <2>3. CASE ~(frame.id <= Removed)
    <3>1. outbound' = Tail(outbound) /\ outbound # <<>>
        BY <1>6, <2>1, <2>3, RemoveFromRun
    <3>2. /\ outbound' \in Seq(Frame) /\ Len(outbound') = Len(outbound) - 1
          /\ \A i \in 1..Len(outbound') : outbound'[i] = outbound[i + 1]
        BY <1>1, <3>1, HeadTailProperties
    <3>3. Removed' = Removed + 1
      <4>1. Removed' = lastId - (Len(outbound) - 1)
          BY <1>6, <3>2 DEF Removed
      <4> QED BY <1>1, <2>1, <4>1 DEF Removed
    <3>4. Run(outbound', Removed')
      <4> SUFFICES ASSUME NEW i \in 1..Len(outbound') PROVE outbound'[i].id = Removed' + i
          BY DEF Run
      <4>1. i + 1 \in 1..Len(outbound)
          BY <2>1, <3>2
      <4>2. outbound[i + 1].id = Removed + (i + 1)
          BY <1>1, <4>1 DEF Run
      <4> QED BY <1>1, <3>2, <3>3, <4>2
    <3>5. 1..Removed' \subseteq left'
        BY <1>1, <1>3, <1>6, <2>1, <2>3, <3>3 DEF RelayInv
    <3> QED BY <1>1, <1>5, <3>2, <3>3, <3>4, <3>5
  <2> QED BY <2>2, <2>3
<1>8. drain' = [drain EXCEPT ![d] = Draining(Tail(w.list))]
    BY DEF Sent
<1>9. /\ Draining(Tail(w.list)) \in DrainState
      /\ KeepsPace(Draining(Tail(w.list)), Removed', lastId', left')
    BY <1>1, <1>2, <1>3, <1>5, <1>6, <1>7, RestFollows
<1>10. /\ drain' \in [Pass -> DrainState]
       /\ \A e \in Pass : KeepsPace(drain[e], Removed, lastId, left)'
  <2>1. /\ Removed <= Removed' /\ Removed' \in Nat /\ left \subseteq left'
        /\ lastId' \in Nat /\ lastId <= lastId'
      BY <1>1, <1>6, <1>7
  <2> QED BY <1>8, <1>9, <2>1, DrainStep
<1>11. RelayTypeOK' /\ ResumesInOrder'
    BY <1>6, <1>7, <1>10 DEF RelayInv, RelayTypeOK, Sent, DrainState, ResumesInOrder
<1> QED BY <1>7, <1>10, <1>11 DEF RelayInv

LEMMA RelayStepHolds == RelayInv /\ [RelayNext]_relayVars => RelayInv'
<1> SUFFICES ASSUME RelayInv, [RelayNext]_relayVars PROVE RelayInv'
    OBVIOUS
<1>1. ASSUME NEW s \in Sender, NEW m \in Msg, SendEnvelope(s, m) PROVE RelayInv'
    BY <1>1, SendKeepsRun
<1>2. ASSUME NEW d \in Pass, Carry(d) \/ Lose(d) PROVE RelayInv'
    BY <1>2, TransmitKeepsOrder
<1>3. ASSUME NEW d \in Pass, Sent(d) PROVE RelayInv'
    BY <1>3, SentKeepsRun
<1>4. ASSUME NEW d \in Pass, LinkDown(d) \/ Raise(d) PROVE RelayInv'
  <2>1. Quiet \in DrainState /\ \A gone, last, carried : KeepsPace(Quiet, gone, last, carried)
      BY QuietFollows
  <2>2. drain' = [drain EXCEPT ![d] = Quiet] /\ UNCHANGED <<outbound, lastId, left>>
      BY <1>4 DEF LinkDown, Breaks, Raise
  <2>3. Removed' = Removed /\ Removed \in Nat /\ lastId \in Nat
      BY <2>2 DEF Removed, RelayInv, RelayTypeOK
  <2>4. /\ drain' \in [Pass -> DrainState]
        /\ \A e \in Pass : KeepsPace(drain[e], Removed, lastId, left)'
    <3>1. /\ Removed <= Removed' /\ lastId <= lastId' /\ Removed' \in Nat /\ lastId' \in Nat
          /\ left \subseteq left'
        BY <2>2, <2>3
    <3>2. Quiet \in DrainState /\ KeepsPace(Quiet, Removed', lastId', left')
        BY <2>1
    <3> QED BY <2>2, <3>1, <3>2, DrainStep
  <2>5. alive' \in BOOLEAN /\ restarts' \in Nat
      BY <1>4 DEF LinkDown, Raise, RelayInv, RelayTypeOK
  <2> QED BY <1>4, <2>4, <2>5, DrainsOnly DEF LinkDown, Raise
<1>5. CASE LoopDrains
  <2>1. /\ Loop \in Pass /\ outbound \in Seq(Frame) /\ Run(outbound, Removed) /\ Removed \in Nat
        /\ Len(outbound) \in Nat /\ lastId \in Nat
      BY LenProperties DEF Pass, RelayInv, RelayTypeOK
  <2>2. /\ drain' = [drain EXCEPT ![Loop] = Draining(DueFrames(outbound))]
        /\ UNCHANGED <<outbound, lastId, left>>
      BY <1>5 DEF LoopDrains
  <2>3. Removed' = Removed /\ lastId = Removed + Len(outbound)
      BY <2>1, <2>2 DEF Removed
  <2>4. /\ Draining(DueFrames(outbound)) \in DrainState
        /\ KeepsPace(Draining(DueFrames(outbound)), Removed', lastId', left')
      BY <2>1, <2>2, <2>3, DueFollows
  <2>5. /\ drain' \in [Pass -> DrainState]
        /\ \A e \in Pass : KeepsPace(drain[e], Removed, lastId, left)'
    <3>1. /\ Removed <= Removed' /\ lastId <= lastId' /\ Removed' \in Nat /\ lastId' \in Nat
          /\ left \subseteq left'
        BY <2>1, <2>2, <2>3
    <3> QED BY <2>1, <2>2, <2>4, <3>1, DrainStep
  <2>6. alive' \in BOOLEAN /\ restarts' \in Nat
      BY <1>5 DEF LoopDrains, RelayInv, RelayTypeOK
  <2> QED BY <1>5, <2>5, <2>6, DrainsOnly DEF LoopDrains
<1>6. CASE SenderRestarts
  <2>1. Quiet \in DrainState /\ \A gone, last, carried : KeepsPace(Quiet, gone, last, carried)
      BY QuietFollows
  <2>2. /\ drain' \in [Pass -> DrainState]
        /\ \A e \in Pass : KeepsPace(drain[e], Removed, lastId, left)'
      BY <1>6, <2>1 DEF SenderRestarts
  <2>3. alive' \in BOOLEAN /\ restarts' \in Nat
      BY <1>6 DEF SenderRestarts, RelayInv, RelayTypeOK
  <2> QED BY <1>6, <2>2, <2>3, DrainsOnly DEF SenderRestarts
<1>7. CASE Take
  <2>1. Head(inbound) \in Msg /\ Tail(inbound) \in Seq(Msg)
      BY <1>7, HeadTailProperties DEF Take, RelayInv, RelayTypeOK
  <2>2. RelayTypeOK'
      BY <1>7, <2>1 DEF Take, RelayInv, RelayTypeOK
  <2> QED BY <1>7, <2>2, QueueFrame DEF Take
<1>8. ASSUME NEW m \in Msg, Forget(m) PROVE RelayInv'
  <2>1. RelayTypeOK'
      BY <1>8 DEF Forget, RelayInv, RelayTypeOK
  <2> QED BY <1>8, <2>1, QueueFrame DEF Forget
<1>9. CASE UNCHANGED relayVars
  <2>1. RelayTypeOK'
      BY <1>9 DEF relayVars, RelayInv, RelayTypeOK
  <2> QED BY <1>9, <2>1, QueueFrame DEF relayVars
<1> QED BY <1>1, <1>2, <1>3, <1>4, <1>5, <1>6, <1>7, <1>8, <1>9 DEF RelayNext

\* The relay's queue, its drains and its reassembler are well formed.
THEOREM RelayTypeCorrect == RelaySpec => []RelayTypeOK
<1>1. RelayInv => RelayTypeOK
    BY DEF RelayInv
<1> QED BY <1>1, RelayInitHolds, RelayStepHolds, PTL DEF RelaySpec

\* Frames leave the relay in the order they were queued, for every number of
\* drains that overlap, of links that fail and of restarts.
THEOREM ResumesInOrderCorrect == RelaySpec => []ResumesInOrder
<1>1. RelayInv => ResumesInOrder
    BY DEF RelayInv
<1> QED BY <1>1, RelayInitHolds, RelayStepHolds, PTL DEF RelaySpec
=============================================================================
