---------------------------- MODULE ClientOutbox ----------------------------
(***************************************************************************)
(* The client's outbox: one value in AsyncStorage that holds every queued  *)
(* envelope. Each update reads the whole value, awaits, and writes the     *)
(* whole value back, and nothing keeps updates apart: signing, the drain   *)
(* and a clear interleave at every await.                                  *)
(*                                                                         *)
(* Order, due times and the audit certificates are left out: a drain tries *)
(* any of the envelopes it has listed, and a certificate that cannot be    *)
(* stored is one of the ways in which a delivery fails.                    *)
(***************************************************************************)
EXTENDS FiniteSets

CONSTANTS
    Item,       \* content ids
    Caller,     \* calls in progress: submit, drain, clear
    Plane,      \* the items of each plane
    Locked,     \* premise: no update overlaps another
    NoItem

Rows == [Item -> {"absent", "pending", "sending", "receipted"}]

ASSUME OutboxTyped ==
    /\ NoItem \notin Item /\ Plane \subseteq SUBSET Item /\ Locked \in BOOLEAN

\* What a call reads the rows for.
Reading == {"enqueue", "mark", "settle", "list", "clear"}

\* rows: what it has read, if it has. result: the state it will settle.
\* todo: what a drain has yet to try, or the items to clear.
CallState ==
    [at : Reading \cup {"idle", "submit", "next"}, item : Item \cup {NoItem}, read : BOOLEAN,
     rows : Rows, result : {"absent", "pending", "receipted"}, todo : SUBSET Item]

VARIABLES
    disk,       \* the value stored under OUTBOX_KEY
    call,       \* the calls
    draining,   \* the call that is activeDrain, if any
    owed,       \* items whose enqueue has returned
    released    \* items the node has refused for good, or the person has cleared

outboxVars == <<disk, call, draining, owed, released>>

Resting == [at |-> "idle", item |-> NoItem, read |-> FALSE,
            rows |-> [i \in Item |-> "absent"], result |-> "pending", todo |-> {}]

ClientTypeOK ==
    /\ disk \in Rows /\ call \in [Caller -> CallState] /\ draining \subseteq Caller
    /\ owed \subseteq Item /\ released \subseteq Item

ClientInit ==
    /\ disk = [i \in Item |-> "absent"] /\ call = [c \in Caller |-> Resting]
    /\ draining = {} /\ owed = {} /\ released = {}

Release(items) == owed' = owed \ items /\ released' = released \cup items

Becomes(c, state) == call' = [call EXCEPT ![c] = state]

\* An item that was being sent when the app died is pending again.
AsRead(rows) == [i \in Item |-> IF rows[i] = "sending" THEN "pending" ELSE rows[i]]
Put(rows, i, state) == [rows EXCEPT ![i] = state]

-----------------------------------------------------------------------------
SubmitSigned(c, i) ==
    /\ call[c].at = "idle"
    /\ Becomes(c, [Resting EXCEPT !.at = "enqueue", !.item = i])
    /\ UNCHANGED <<disk, draining, owed, released>>

\* drainOutboxOnce: one at a time.
StartDrain(c) ==
    /\ call[c].at = "idle" /\ draining = {}
    /\ Becomes(c, [Resting EXCEPT !.at = "list"])
    /\ draining' = {c}
    /\ UNCHANGED <<disk, owed, released>>

StartClear(c, plane) ==
    /\ call[c].at = "idle"
    /\ Becomes(c, [Resting EXCEPT !.at = "clear", !.todo = plane])
    /\ UNCHANGED <<disk, draining, owed, released>>

\* read: getItem has resolved.
Load(c) ==
    /\ call[c].at \in Reading /\ ~call[c].read
    /\ Locked => \A d \in Caller : ~call[d].read
    /\ Becomes(c, [call[c] EXCEPT !.read = TRUE, !.rows = AsRead(disk)])
    /\ UNCHANGED <<disk, draining, owed, released>>

Loaded(c, at) == call[c].at = at /\ call[c].read

Enqueue(c) ==
    LET i == call[c].item IN
    /\ Loaded(c, "enqueue")
    /\ disk' = IF call[c].rows[i] = "absent" THEN Put(call[c].rows, i, "pending") ELSE disk
    /\ owed' = owed \cup ({i} \ released)
    /\ Becomes(c, IF call[c].rows[i] = "receipted" THEN Resting
                  ELSE [Resting EXCEPT !.at = "mark", !.item = i])
    /\ UNCHANGED <<draining, released>>

\* The drain works on the records it lists here, however old they get.
List(c, due) ==
    /\ Loaded(c, "list")
    /\ due \subseteq {i \in Item : call[c].rows[i] = "pending"}
    /\ Becomes(c, [Resting EXCEPT !.at = "next", !.todo = due])
    /\ UNCHANGED <<disk, draining, owed, released>>

TakeNext(c, i) ==
    /\ call[c].at = "next" /\ i \in call[c].todo
    /\ Becomes(c, [Resting EXCEPT !.at = "mark", !.item = i, !.todo = call[c].todo \ {i}])
    /\ UNCHANGED <<disk, draining, owed, released>>

EndDrain(c) ==
    /\ call[c].at = "next" /\ call[c].todo = {}
    /\ Becomes(c, Resting)
    /\ draining' = draining \ {c}
    /\ UNCHANGED <<disk, owed, released>>

-----------------------------------------------------------------------------
(* deliver                                                                 *)

Mark(c) ==
    /\ Loaded(c, "mark")
    /\ disk' = Put(call[c].rows, call[c].item, "sending")
    /\ Becomes(c, [call[c] EXCEPT !.at = "submit", !.read = FALSE])
    /\ UNCHANGED <<draining, owed, released>>

\* The node accepts, or refuses for good, or neither is known here.
Submit(c, outcome) ==
    /\ call[c].at = "submit"
    /\ IF outcome = "absent" THEN Release({call[c].item}) ELSE UNCHANGED <<owed, released>>
    /\ Becomes(c, [call[c] EXCEPT !.at = "settle", !.result = outcome])
    /\ UNCHANGED <<disk, draining>>

DropsOnFailure(s) == IF s.result = "pending" THEN "absent" ELSE s.result
\* Only a permanent refusal removes the record.
Outcome(s) == s.result

Settle(c) ==
    /\ Loaded(c, "settle")
    /\ disk' = Put(call[c].rows, call[c].item, Outcome(call[c]))
    /\ Becomes(c, IF c \in draining THEN [Resting EXCEPT !.at = "next", !.todo = call[c].todo]
                  ELSE Resting)
    /\ UNCHANGED <<draining, owed, released>>

Clear(c) ==
    /\ Loaded(c, "clear")
    /\ disk' = [i \in Item |-> IF i \in call[c].todo THEN "absent" ELSE call[c].rows[i]]
    /\ Release(call[c].todo)
    /\ Becomes(c, Resting)
    /\ UNCHANGED draining

\* The app is closed or dies.
AppDies ==
    /\ call' = [c \in Caller |-> Resting] /\ draining' = {}
    /\ UNCHANGED <<disk, owed, released>>

ClientNext ==
    \/ \E c \in Caller :
          \/ \E i \in Item : SubmitSigned(c, i) \/ TakeNext(c, i)
          \/ StartDrain(c) \/ Load(c) \/ Enqueue(c) \/ EndDrain(c)
          \/ Mark(c) \/ Settle(c) \/ Clear(c)
          \/ \E plane \in Plane : StartClear(c, plane)
          \/ \E due \in SUBSET Item : List(c, due)
          \/ \E outcome \in {"absent", "pending", "receipted"} : Submit(c, outcome)
    \/ AppDies

ClientSpec == ClientInit /\ [][ClientNext]_outboxVars

-----------------------------------------------------------------------------
\* outbox.ts: an envelope that was signed stays in the outbox until the node
\* refuses it for good or the person clears it, whatever is sent, drained,
\* cleared or cut short meanwhile.
SignedIsKept ==
    \A i \in owed : disk[i] # "absent"

\* The same, if no update of the stored value overlaps another. The calls
\* still overlap: a drain works on records it listed before they changed.
OrderlyKeepsSigned == Locked => SignedIsKept
=============================================================================
