------------------------------ MODULE AuditLog ------------------------------
(***************************************************************************)
(* The audit-log service: certificates in a file, one JSON record a line,  *)
(* each with the hash of the one before, and the same records in memory.   *)
(* Appends are put in a chain of promises, one after the other; the first  *)
(* loads and verifies the file. The issue store is the same machine.       *)
(*                                                                         *)
(* appendFile writes a line and its newline, all of it or, when the disk   *)
(* is full or the process dies, a part. A hash is the sequence of the      *)
(* certificates hashed. Two certificates of one key differ.                *)
(***************************************************************************)
EXTENDS Naturals, Sequences

CONSTANTS
    Cert,       \* certificates
    KeyOf,      \* recordKey: the node and identifier of each
    MaxAppends, \* bound on the append calls
    Garbage,    \* a line JSON.parse refuses
    NoCert

ASSUME AuditTyped ==
    /\ DOMAIN KeyOf = Cert /\ MaxAppends \in Nat
    /\ NoCert \notin Cert

AuditRecord == [cert : Cert, previous : Seq(Cert)]

ASSUME GarbageIsNone == Garbage \notin AuditRecord

VARIABLES
    file,       \* the lines
    ended,      \* the last line has its newline
    memory,     \* records, while the process runs
    ready,      \* initialise has succeeded
    chained,    \* writeChain: appends to come, in order
    writing,    \* the record appendFile is writing
    promised,   \* certificates whose append returned
    whole,      \* premise: a write leaves all of a line or nothing
    appends

auditVars == <<file, ended, memory, ready, chained, writing, promised, whole, appends>>

Certs(records) == [i \in DOMAIN records |-> records[i].cert]

AuditTypeOK ==
    /\ file \in Seq(AuditRecord \cup {Garbage}) /\ ended \in BOOLEAN /\ memory \in Seq(AuditRecord)
    /\ ready \in BOOLEAN /\ chained \in Seq(Cert) /\ writing \in AuditRecord \cup {NoCert}
    /\ promised \subseteq Cert /\ whole \in BOOLEAN /\ appends \in Nat

AuditInit ==
    /\ file = <<>> /\ ended = TRUE /\ memory = <<>> /\ ready = FALSE
    /\ chained = <<>> /\ writing = NoCert /\ promised = {} /\ appends = 0
    /\ whole \in BOOLEAN

\* load: every line parses, and follows the line before.
Loads(lines) ==
    \A i \in DOMAIN lines :
        lines[i] # Garbage /\ lines[i].previous = [j \in 1..(i - 1) |-> lines[j].cert]

-----------------------------------------------------------------------------
Request(c) ==
    /\ appends < MaxAppends
    /\ chained' = Append(chained, c) /\ appends' = appends + 1
    /\ UNCHANGED <<file, ended, memory, ready, writing, promised, whole>>

Initialise ==
    /\ ~ready /\ chained # <<>> /\ writing = NoCert
    /\ IF Loads(file) THEN ready' = TRUE /\ memory' = file /\ UNCHANGED chained
       ELSE chained' = Tail(chained) /\ UNCHANGED <<ready, memory>>
    /\ UNCHANGED <<file, ended, writing, promised, appends, whole>>

Held(c) == {memory[i].cert : i \in {j \in DOMAIN memory : KeyOf[memory[j].cert] = KeyOf[c]}}

\* appendSerial, up to appendFile: a key is taken once.
Begin ==
    LET c == Head(chained) IN
    /\ ready /\ chained # <<>> /\ writing = NoCert
    /\ IF Held(c) = {}
       THEN /\ writing' = [cert |-> c, previous |-> Certs(memory)]
            /\ UNCHANGED <<chained, promised>>
       ELSE /\ chained' = Tail(chained)
            /\ promised' = promised \cup ({c} \cap Held(c))
            /\ UNCHANGED writing
    /\ UNCHANGED <<file, ended, memory, ready, appends, whole>>

\* A line is joined to what an earlier write left without a newline.
Added(line) ==
    IF ended THEN Append(file, line) ELSE [file EXCEPT ![Len(file)] = Garbage]

Written ==
    /\ writing # NoCert
    /\ file' = Added(writing) /\ ended' = TRUE
    /\ memory' = Append(memory, writing)
    /\ promised' = promised \cup {writing.cert}
    /\ writing' = NoCert /\ chained' = Tail(chained)
    /\ UNCHANGED <<ready, appends, whole>>

\* What a write that did not end has left in the file.
Partial ==
    \/ UNCHANGED <<file, ended>>
    \/ /\ whole /\ file' = Added(writing) /\ ended' = TRUE
    \/ /\ ~whole /\ ended' = FALSE
       /\ \E line \in {writing, Garbage} : file' = Added(line)

MemoryFirst == Append(memory, writing)
MemoryLast == memory

\* appendFile rejects: the disk is full.
WriteFails ==
    /\ writing # NoCert
    /\ IF whole THEN UNCHANGED <<file, ended>> ELSE Partial
    /\ memory' = MemoryLast
    /\ writing' = NoCert /\ chained' = Tail(chained)
    /\ UNCHANGED <<ready, promised, appends, whole>>

ServiceDies ==
    /\ memory' = <<>> /\ ready' = FALSE /\ chained' = <<>> /\ writing' = NoCert
    /\ IF writing = NoCert THEN UNCHANGED <<file, ended>> ELSE Partial
    /\ UNCHANGED <<promised, appends, whole>>

AuditNext ==
    \/ \E c \in Cert : Request(c)
    \/ Initialise \/ Begin \/ Written \/ WriteFails \/ ServiceDies

AuditSpec == AuditInit /\ [][AuditNext]_auditVars

-----------------------------------------------------------------------------
\* store.ts: a certificate whose append returned is in the file, once, and the
\* file loads: no restart loses it, refuses the file or takes its key again.
PromisedIsKept ==
    /\ Loads(file)
    /\ \A c \in promised : \E i \in DOMAIN file : file[i].cert = c
    /\ \A i, j \in DOMAIN file :
          i # j => KeyOf[file[i].cert] # KeyOf[file[j].cert]

\* The same, where a write leaves all of its line or nothing.
OrderlyPromisedIsKept == whole => PromisedIsKept
=============================================================================
