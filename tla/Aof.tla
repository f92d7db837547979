--------------------------------- MODULE Aof --------------------------------
(***************************************************************************)
(* aof/aof.go for several databases: AddAof sends commands with the index  *)
(* of their database to a channel, the goroutine handleAof writes them to  *)
(* the file with a SELECT whenever the database changes, and LoadAof reads *)
(* the file back when the process starts.  A command is its sequence       *)
(* number.  A write to the file may fail, the process may die at any step. *)
(***************************************************************************)
EXTENDS Integers, Sequences, FiniteSets

CONSTANTS
    Databases,       \* number of databases (config.Properties.Databases)
    aofBufferSize,   \* capacity of aofChan
    MaxCmds,         \* bound on the commands sent
    MaxErrors,       \* bound on the writes that fail
    MaxRestarts      \* bound on the times the process dies

DBs == 0 .. Databases - 1
Ids == 1 .. MaxCmds

ASSUME DatabasesAssumption == Databases \in Nat \ {0}
ASSUME BufferAssumption == aofBufferSize \in Nat \ {0}
ASSUME BoundsAssumption == MaxCmds \in Nat /\ MaxErrors \in Nat /\ MaxRestarts \in Nat

VARIABLES
    aofChan,     \* payloads sent and not yet received
    hand,        \* the payload handleAof is writing, at most one
    todo,        \* what handleAof writes next: "receive", "select" or "cmd"
    currentDB,   \* h.currentDB
    file,        \* the entries of the append-only file
    up,          \* the process is running (LoadAof has returned)
    sent,        \* how many commands have been sent
    errors,      \* how many writes have failed
    restarts,    \* how often the process has died
    skewed,      \* history: currentDB and the file disagree
    dropped,     \* history: commands whose write, or whose SELECT, failed
    crashed      \* history: commands that were in memory when the process died

vars == <<aofChan, hand, todo, currentDB, file, up, sent, errors, restarts,
          skewed, dropped, crashed>>

Payload(d, i) == [db |-> d, id |-> i]
Select(d) == [kind |-> "select", db |-> d, id |-> 0, skewed |-> FALSE]
Command(p, s) == [kind |-> "cmd", db |-> p.db, id |-> p.id, skewed |-> s]

Payloads == [db : DBs, id : Ids]
Entries == [kind : {"select", "cmd"}, db : DBs, id : Ids \cup {0}, skewed : BOOLEAN]

\* Replaying the first n entries of f leaves database d selected: the last
\* SELECT among them names it, or there is none and d is the one a new
\* connection starts in.
Selects(f, n, d) ==
    \/ /\ d = 0
       /\ \A i \in 1 .. n : f[i].kind # "select"
    \/ \E i \in 1 .. n :
        /\ f[i].kind = "select" /\ f[i].db = d
        /\ \A j \in i + 1 .. n : f[j].kind # "select"

\* The commands in the file, and those only in memory.
FileIds == {file[i].id : i \in {j \in 1 .. Len(file) : file[j].kind = "cmd"}}
InFlight == {aofChan[i].id : i \in 1 .. Len(aofChan)} \cup {hand[i].id : i \in 1 .. Len(hand)}

-----------------------------------------------------------------------------
AddAofUnbounded(d) ==
    /\ up
    /\ sent < MaxCmds
    /\ aofChan' = Append(aofChan, Payload(d, sent + 1))
    /\ sent' = sent + 1
    /\ UNCHANGED <<hand, todo, currentDB, file, up, errors, restarts, skewed, dropped, crashed>>

AddAofInFront(d) ==
    /\ up
    /\ sent < MaxCmds
    /\ Len(aofChan) < aofBufferSize
    /\ aofChan' = <<Payload(d, sent + 1)>> \o aofChan
    /\ sent' = sent + 1
    /\ UNCHANGED <<hand, todo, currentDB, file, up, errors, restarts, skewed, dropped, crashed>>

\* Called by a client of database d while it holds the locks of its keys.
AddAof(d) ==
    /\ up
    /\ sent < MaxCmds
    /\ Len(aofChan) < aofBufferSize
    /\ aofChan' = Append(aofChan, Payload(d, sent + 1))
    /\ sent' = sent + 1
    /\ UNCHANGED <<hand, todo, currentDB, file, up, errors, restarts, skewed, dropped, crashed>>

ReceiveNoSelect ==
    /\ up
    /\ todo = "receive"
    /\ aofChan # <<>>
    /\ hand' = <<Head(aofChan)>>
    /\ currentDB' = Head(aofChan).db
    /\ todo' = "cmd"
    /\ aofChan' = Tail(aofChan)
    /\ UNCHANGED <<file, up, sent, errors, restarts, skewed, dropped, crashed>>

ReceiveStopsOnSwitch ==
    /\ up
    /\ todo = "receive"
    /\ aofChan # <<>>
    /\ Head(aofChan).db = currentDB
    /\ hand' = <<Head(aofChan)>>
    /\ todo' = "cmd"
    /\ aofChan' = Tail(aofChan)
    /\ UNCHANGED <<currentDB, file, up, sent, errors, restarts, skewed, dropped, crashed>>

\* for p := range h.aofChan: h.currentDB follows before SELECT is written.
Receive ==
    /\ up
    /\ todo = "receive"
    /\ aofChan # <<>>
    /\ LET p == Head(aofChan) IN
        /\ hand' = <<p>>
        /\ currentDB' = p.db
        /\ todo' = IF p.db # currentDB THEN "select" ELSE "cmd"
    /\ aofChan' = Tail(aofChan)
    /\ UNCHANGED <<file, up, sent, errors, restarts, skewed, dropped, crashed>>

WriteSelect ==
    /\ up
    /\ todo = "select"
    /\ file' = Append(file, Select(hand[1].db))
    /\ todo' = "cmd"
    /\ skewed' = FALSE
    /\ UNCHANGED <<aofChan, hand, currentDB, up, sent, errors, restarts, dropped, crashed>>

WriteCmd ==
    /\ up
    /\ todo = "cmd"
    /\ file' = Append(file, Command(hand[1], skewed))
    /\ hand' = <<>>
    /\ todo' = "receive"
    /\ UNCHANGED <<aofChan, currentDB, up, sent, errors, restarts, skewed, dropped, crashed>>

WriteFailsKeepsPayload ==
    /\ up
    /\ todo \in {"select", "cmd"}
    /\ errors < MaxErrors
    /\ errors' = errors + 1
    /\ dropped' = dropped \cup {hand[1].id}
    /\ skewed' = (skewed \/ todo = "select")
    /\ todo' = "receive"
    /\ UNCHANGED <<aofChan, hand, currentDB, file, up, sent, restarts, crashed>>

\* A failed write is logged and the payload is forgotten.
WriteFails ==
    /\ up
    /\ todo \in {"select", "cmd"}
    /\ errors < MaxErrors
    /\ errors' = errors + 1
    /\ dropped' = dropped \cup {hand[1].id}
    /\ skewed' = (skewed \/ todo = "select")
    /\ hand' = <<>>
    /\ todo' = "receive"
    /\ UNCHANGED <<aofChan, currentDB, file, up, sent, restarts, crashed>>

\* The process dies with what is in its memory.
Crash ==
    /\ up
    /\ restarts < MaxRestarts
    /\ restarts' = restarts + 1
    /\ up' = FALSE
    /\ crashed' = crashed \cup InFlight
    /\ aofChan' = <<>>
    /\ hand' = <<>>
    /\ todo' = "receive"
    /\ currentDB' = 0
    /\ skewed' = FALSE
    /\ UNCHANGED <<file, sent, errors, dropped>>

\* The SELECT entries of the file set h.currentDB.  If the last one is not
\* for database 0, SELECT 0 is written and h.currentDB stays as it is.
LoadAof ==
    /\ ~up
    /\ up' = TRUE
    /\ \E d \in DBs : Selects(file, Len(file), d) /\ currentDB' = d
    /\ \/ /\ currentDB' = 0
          /\ UNCHANGED <<file, skewed, errors>>
       \/ /\ currentDB' # 0
          /\ file' = Append(file, Select(0))
          /\ skewed' = TRUE
          /\ UNCHANGED errors
       \/ /\ currentDB' # 0
          /\ errors < MaxErrors
          /\ errors' = errors + 1
          /\ UNCHANGED <<file, skewed>>
    /\ UNCHANGED <<aofChan, hand, todo, sent, restarts, dropped, crashed>>

-----------------------------------------------------------------------------
Init ==
    /\ aofChan = <<>>
    /\ hand = <<>>
    /\ todo = "receive"
    /\ currentDB = 0
    /\ file = <<>>
    /\ up = TRUE
    /\ sent = 0
    /\ errors = 0
    /\ restarts = 0
    /\ skewed = FALSE
    /\ dropped = {}
    /\ crashed = {}

HandleAof == Receive \/ WriteSelect \/ WriteCmd \/ WriteFails

Next ==
    \/ \E d \in DBs : AddAof(d)
    \/ HandleAof
    \/ Crash
    \/ LoadAof

Spec == Init /\ [][Next]_vars

(***************************************************************************)
(* Fairness: the goroutine that writes the file runs when it can, and a    *)
(* process that died is started again.                                     *)
(***************************************************************************)
FairSpec == Spec /\ WF_vars(HandleAof) /\ WF_vars(LoadAof)

-----------------------------------------------------------------------------
(* Properties                                                              *)

\* The type of the state: handleAof has a payload in hand exactly while it
\* writes one.
TypeOK ==
    /\ aofChan \in Seq(Payloads)
    /\ hand \in Seq(Payloads) /\ Len(hand) = (IF todo = "receive" THEN 0 ELSE 1)
    /\ todo \in {"receive", "select", "cmd"}
    /\ currentDB \in DBs
    /\ file \in Seq(Entries)
    /\ up \in BOOLEAN
    /\ sent \in 0 .. MaxCmds
    /\ errors \in 0 .. MaxErrors
    /\ restarts \in 0 .. MaxRestarts
    /\ skewed \in BOOLEAN
    /\ dropped \subseteq Ids
    /\ crashed \subseteq Ids

\* Entry i of the file is a command that a replay runs in another database
\* than the one it was executed in.
Misfiled(i) == file[i].kind = "cmd" /\ ~Selects(file, i - 1, file[i].db)

\* A replay runs a command in a wrong database only if it was written between
\* one of the two events that put h.currentDB out of step with the file (a
\* SELECT that failed; the SELECT 0 that LoadAof writes) and the next SELECT.
MisfiledOnlyWhileSkewed ==
    \A i \in 1 .. Len(file) : Misfiled(i) => file[i].skewed

\* The commands are in the file in the order in which they were sent, across
\* restarts and failed writes.
FileInSendingOrder ==
    \A i, j \in 1 .. Len(file) :
        i < j /\ file[i].kind = "cmd" /\ file[j].kind = "cmd" => file[i].id < file[j].id

\* A crash loses only commands among the last aofBufferSize + 1 sent, and
\* nothing is lost in any other way than by a crash or a failed write.
LossWindow ==
    /\ InFlight \subseteq (sent - aofBufferSize) .. sent
    /\ 1 .. sent = FileIds \cup InFlight \cup dropped \cup crashed

\* Every command sent reaches the file unless its write fails or the process
\* dies: the channel never stays full with senders waiting on it.
SentIsWritten ==
    \A i \in Ids : (sent >= i) ~> (i \in FileIds \cup dropped \cup crashed)
=============================================================================
