--------------------------------- MODULE DB ---------------------------------
(***************************************************************************)
(* One database with its append-only file: database/db.go on top of the    *)
(* lock layer, the commands of module Commands, and the AOF channel that   *)
(* connects them with the goroutine that writes the file (aof/aof.go).     *)
(*                                                                         *)
(* execNormalCommand is cut where another goroutine can come between: the  *)
(* locks, the reads of the entities, each write to the dictionary, the     *)
(* send to the AOF channel, the unlocks and the answer.  The file is kept  *)
(* as the contents that replaying it would give.                           *)
(***************************************************************************)
EXTENDS Commands

CONSTANTS
    Clients, NoClient, shardCount, spread, MaxClears,   \* as in ConcurrentDict
    CmdLines,        \* the commands clients send
    NoCmd,
    NoReply,
    aofBufferSize,   \* capacity of the AOF channel
    MaxLen,          \* bound: no push is sent for a list this long in memory or
                     \* in the file (and no FLUSHDB once Clear has been called
                     \* MaxClears times)
    Failing,         \* bound: the commands whose write to the file may fail
    Restarts         \* whether the process may die and be started again

ASSUME BufferAssumption == aofBufferSize \in Nat \ {0}
ASSUME ClientsAssumption == NoClient \notin Clients
ASSUME ShardsAssumption == shardCount \in Nat \ {0} /\ spread \in [Keys -> 0 .. shardCount - 1]
ASSUME BoundsAssumption == MaxClears \in Nat /\ MaxLen \in Nat
ASSUME LinesAssumption ==
    /\ CmdLines \subseteq CmdLineType /\ NoCmd \notin CmdLines
    /\ \A line \in CmdLines : Accepted(line) => WellFormed(line)

VARIABLES pc, plan, todo, mu, table, owner, readers, rwait, fault, torn

VARIABLES
    data,       \* the entities in the dictionary
    cmd,        \* the command line each client is executing
    phase,      \* how far exec has come
    result,     \* what exec will write, log and answer
    aofChan,    \* commands accepted and not yet in the file
    image,      \* the contents that LoadAof would restore from the file
    poisoned,   \* replaying the file would panic: LoadAof calls IsError(nil)
    store,      \* history: what the logged commands leave, one after the other
                \* in the order of their addAof, since the process started
    skewed      \* history: the keys of commands whose write has failed since

lockvars == <<pc, plan, todo, mu, table, owner, readers, rwait, fault, torn>>
execvars == <<cmd, phase, result>>
aofvars == <<aofChan, image, poisoned, store, skewed>>
vars == <<lockvars, data, execvars, aofvars>>

Dict == INSTANCE ConcurrentDict WITH
            Requests <- {prepare(line) : line \in {l \in CmdLines : Accepted(l)}}

NoResult == Reads(NoReply)

After(db, line) == Stored(db, execNormalCommand(db, line))
Replay(db, lines) ==
    LET r[n \in 0 .. Len(lines)] == IF n = 0 THEN db ELSE After(r[n - 1], lines[n])
    IN  r[Len(lines)]

-----------------------------------------------------------------------------
(* Executing a command                                                     *)

\* The next thing to do for a result that exec has computed.
PhaseOf(r) ==
    IF r.flush THEN "flush"
    ELSE IF r.puts # <<>> THEN "write"
    ELSE IF r.logged THEN "log"
    ELSE "done"

Fits(line) ==
    /\ line.op \in {"LPUSH", "RPUSH"} => 
        \A k \in KeySet(line) : Len(data[k].val) < MaxLen /\ Len(image[k].val) < MaxLen
    /\ line.op = "FLUSHDB" => table < MaxClears

\* A command arrives.  An unknown one, or one with a wrong number of
\* arguments, is refused; for any other RWLocks is called.
Receive(c, line) ==
    /\ cmd[c] = NoCmd
    /\ Fits(line)
    /\ cmd' = [cmd EXCEPT ![c] = line]
    /\ IF Accepted(line)
         THEN /\ Dict!RWLocks(c, prepare(line))
              /\ phase' = [phase EXCEPT ![c] = "exec"]
              /\ result' = result
         ELSE /\ phase' = [phase EXCEPT ![c] = "refuse"]
              /\ UNCHANGED <<lockvars, result>>
    /\ UNCHANGED <<data, aofvars>>

Refuse(c) ==
    /\ phase[c] = "refuse"
    /\ result' = [result EXCEPT ![c] = execNormalCommand(data, cmd[c])]
    /\ phase' = [phase EXCEPT ![c] = "done"]
    /\ UNCHANGED <<lockvars, data, cmd, aofvars>>

Lock(c) ==
    /\ Dict!LockStep(c)
    /\ UNCHANGED <<data, execvars, aofvars>>

\* exec reads the entities of its keys and decides what to do.
Exec(c) ==
    /\ pc[c] = "running"
    /\ phase[c] = "exec"
    /\ result' = [result EXCEPT ![c] = execNormalCommand(data, cmd[c])]
    /\ phase' = [phase EXCEPT ![c] = PhaseOf(result'[c])]
    /\ UNCHANGED <<lockvars, data, cmd, aofvars>>

\* PutIfAbsent where PutEntity belongs.
WriteIfAbsent(c) ==
    /\ phase[c] = "write"
    /\ LET p == Head(result[c].puts)
           r == [result[c] EXCEPT !.puts = Tail(@)]
       IN  /\ data' = [data EXCEPT ![p.key] = IF @ = Absent THEN p.entity ELSE @]
           /\ result' = [result EXCEPT ![c] = r]
           /\ phase' = [phase EXCEPT ![c] = PhaseOf(r)]
    /\ UNCHANGED <<lockvars, cmd, aofvars>>

\* PutEntity or Remove of one key.
Write(c) ==
    /\ phase[c] = "write"
    /\ LET p == Head(result[c].puts)
           r == [result[c] EXCEPT !.puts = Tail(@)]
       IN  /\ data' = [data EXCEPT ![p.key] = p.entity]
           /\ result' = [result EXCEPT ![c] = r]
           /\ phase' = [phase EXCEPT ![c] = PhaseOf(r)]
    /\ UNCHANGED <<lockvars, cmd, aofvars>>

Flush(c) ==
    /\ phase[c] = "flush"
    /\ Dict!Clear(c)
    /\ data' = [k \in Keys |-> Absent]
    /\ result' = [result EXCEPT ![c].flush = FALSE]
    /\ phase' = [phase EXCEPT ![c] = PhaseOf(result'[c])]
    /\ UNCHANGED <<cmd, aofvars>>

\* h.aofChan <- &payload{...} blocks while the channel is full.
AddAof(c) ==
    /\ phase[c] = "log"
    /\ Len(aofChan) < aofBufferSize
    /\ aofChan' = Append(aofChan, cmd[c])
    /\ store' = After(store, cmd[c])
    /\ phase' = [phase EXCEPT ![c] = "done"]
    /\ UNCHANGED <<lockvars, data, cmd, result, image, poisoned, skewed>>

\* execNormalCommand without its defer: the locks go before the log is written.
UnlockEarly(c) ==
    /\ phase[c] \in {"log", "done"}
    /\ Dict!RWUnLocks(c) \/ Dict!UnlockStep(c)
    /\ UNCHANGED <<data, execvars, aofvars>>

Unlock(c) ==
    /\ phase[c] = "done"
    /\ Dict!RWUnLocks(c) \/ Dict!UnlockStep(c)
    /\ UNCHANGED <<data, execvars, aofvars>>

\* The reply is written to the connection.
Respond(c) ==
    /\ phase[c] = "done"
    /\ pc[c] = "idle"
    /\ cmd' = [cmd EXCEPT ![c] = NoCmd]
    /\ phase' = [phase EXCEPT ![c] = "none"]
    /\ result' = [result EXCEPT ![c] = NoResult]
    /\ UNCHANGED <<lockvars, data, aofvars>>

-----------------------------------------------------------------------------
(* The append-only file                                                    *)

\* handleAof writes the oldest command of the channel to the file.
HandleAof ==
    /\ aofChan # <<>>
    /\ aofChan' = Tail(aofChan)
    /\ image' = After(image, Head(aofChan))
    /\ poisoned' = (poisoned \/ execNormalCommand(image, Head(aofChan)).reply = Panic)
    /\ UNCHANGED <<lockvars, data, execvars, store, skewed>>

\* The keys a command may write: FLUSHDB names none.
Touched(line) == IF line.op = "FLUSHDB" THEN Keys ELSE KeySet(line)

\* Writing it, or the SELECT before it, fails: the error is printed and
\* handleAof goes on with the next command.
HandleAofFails ==
    /\ aofChan # <<>>
    /\ Head(aofChan) \in Failing
    /\ aofChan' = Tail(aofChan)
    /\ skewed' = skewed \cup Touched(Head(aofChan))
    /\ UNCHANGED <<lockvars, data, execvars, image, poisoned, store>>

\* The process dies, with what is in the channel, and LoadAof replays the
\* file into a new one.  It panics in IsError(nil) if a command panics.
Restart ==
    /\ Restarts
    /\ ~poisoned
    /\ data' = image
    /\ aofChan' = <<>>
    /\ store' = image
    /\ skewed' = {}
    /\ cmd' = [c \in Clients |-> NoCmd]
    /\ phase' = [c \in Clients |-> "none"]
    /\ result' = [c \in Clients |-> NoResult]
    /\ pc' = [c \in Clients |-> "idle"]
    /\ plan' = [c \in Clients |-> Dict!NoPlan]
    /\ todo' = [c \in Clients |-> {}]
    /\ mu' = [c \in Clients |-> 0]
    /\ table' = 0
    /\ owner' = [m \in Dict!Mutexes |-> NoClient]
    /\ readers' = [m \in Dict!Mutexes |-> {}]
    /\ rwait' = [m \in Dict!Mutexes |-> {}]
    /\ fault' = FALSE
    /\ torn' = FALSE
    /\ UNCHANGED <<image, poisoned>>

-----------------------------------------------------------------------------
Init ==
    /\ Dict!Init
    /\ data = [k \in Keys |-> Absent]
    /\ cmd = [c \in Clients |-> NoCmd]
    /\ phase = [c \in Clients |-> "none"]
    /\ result = [c \in Clients |-> NoResult]
    /\ aofChan = <<>>
    /\ image = [k \in Keys |-> Absent]
    /\ poisoned = FALSE
    /\ store = [k \in Keys |-> Absent]
    /\ skewed = {}

Step(c) ==
    \/ Refuse(c)
    \/ Lock(c)
    \/ Exec(c)
    \/ Write(c)
    \/ Flush(c)
    \/ AddAof(c)
    \/ Unlock(c)
    \/ Respond(c)

Next ==
    \/ /\ ~fault
       /\ \/ \E c \in Clients : Step(c) \/ \E line \in CmdLines : Receive(c, line)
          \/ HandleAof \/ HandleAofFails
    \/ Restart

Spec == Init /\ [][Next]_vars

(***************************************************************************)
(* Fairness: the goroutine of a connection and the one that writes the     *)
(* file run whenever they can, whether its writes fail or not; a writer is *)
(* not for ever passed over by other writers of the same mutex, nor a      *)
(* sender by other senders of the AOF channel (both queue).  Clients need  *)
(* not send anything and the process need not die.                         *)
(***************************************************************************)
Fairness ==
    /\ WF_vars(~fault /\ (HandleAof \/ HandleAofFails))
    /\ \A c \in Clients :
        /\ WF_vars(~fault /\ Step(c))
        /\ SF_vars(~fault /\ Dict!Announce(c) /\ UNCHANGED <<data, execvars, aofvars>>)
        /\ SF_vars(~fault /\ AddAof(c))

FairSpec == Spec /\ Fairness

-----------------------------------------------------------------------------
(* Properties                                                              *)

Phases == {"none", "refuse", "exec", "write", "flush", "log", "done"}

\* The type of the state: AddAof never makes the channel longer than its
\* buffer.
TypeOK ==
    /\ Dict!TypeOK
    /\ data \in [Keys -> Entities]
    /\ cmd \in [Clients -> CmdLines \cup {NoCmd}]
    /\ phase \in [Clients -> Phases]
    /\ aofChan \in Seq(CmdLines) /\ Len(aofChan) <= aofBufferSize
    /\ image \in [Keys -> Entities]
    /\ poisoned \in BOOLEAN
    /\ store \in [Keys -> Entities]
    /\ skewed \in SUBSET Keys

\* The shards whose map a client's next step writes, and reads.
MapWrites(c) ==
    CASE phase[c] = "write" -> {spread[Head(result[c].puts).key]}
      [] phase[c] = "flush" -> Dict!Shards
      [] OTHER              -> {}

MapReads(c) ==
    IF phase[c] = "exec" /\ pc[c] = "running" THEN {spread[k] : k \in KeySet(cmd[c])} ELSE {}

\* No goroutine is about to write to the map of a shard while another is about
\* to read or write it: the locks that prepare asks for are enough for what
\* exec does.  Two such accesses are a data race, which Go reports as
\* "concurrent map read and map write" and dies of.
NoMapRace ==
    \A c, d \in Clients : c # d => MapWrites(c) \cap (MapWrites(d) \cup MapReads(d)) = {}

\* The keys some client has written, or will write, before it logs.
Unsettled ==
    {k \in Keys : \E c \in Clients :
        \/ phase[c] \in {"write", "log"} /\ k \in KeySet(cmd[c])
        \/ phase[c] \in {"flush", "log"} /\ cmd[c].op = "FLUSHDB"}

\* For every key that no command is half way through writing: memory holds
\* what the commands leave when they are executed one after the other in the
\* order in which the goroutines send to the channel, whatever writes fail;
\* and replaying the file and what waits in the channel gives the same, unless
\* the write of a command that named the key has failed since the start.  (The
\* commands that prepare locks enough for treat each of their keys by itself,
\* so no other key is out of step.)
LogAgrees ==
    \A k \in Keys \ Unsettled :
        /\ data[k] = store[k]
        /\ k \notin skewed => Replay(image, aofChan)[k] = store[k]

\* Every command that is received is answered (or lost with the process),
\* whatever other clients and the file do.
EveryCommandAnswered ==
    \A c \in Clients : cmd[c] # NoCmd ~> cmd[c] = NoCmd

\* Between them the clients, the locks, the channel and the file implement a
\* store in which commands are atomic and become durable in order, but for
\* those whose write fails.
DS == INSTANCE DurableStore WITH
        memory <- store,
        durable <- image,
        pending <- aofChan,
        request <- cmd,
        answer <- [c \in Clients |-> IF phase[c] = "done" THEN result[c].reply ELSE NoReply]

\* Every step of db.go and aof.go is a step of DurableStore under this mapping,
\* or none: commands take effect at their addAof, under their locks.
ImplementsDurableStore == DS!DSSpec

\* What the old process wrote a new one can replay, but for a GETSET of a list:
\* execGetSet logs it and then panics, when it is executed and when LoadAof
\* executes it again.
Bootable ==
    [][~poisoned /\ poisoned'
        => /\ Head(aofChan).op = "GETSET"
           /\ image[Head(aofChan).keys[1]].type = "list"]_vars

\* The channel keeps to its size, and no map of a shard is written while
\* another goroutine reads or writes it.
RaceFree == TypeOK /\ NoMapRace
=============================================================================
