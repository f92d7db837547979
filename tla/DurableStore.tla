---------------------------- MODULE DurableStore ----------------------------
(***************************************************************************)
(* What a database with an append-only file promises its clients.  A       *)
(* command takes effect at one moment between its request and its answer,  *)
(* on the contents that all the commands before it have left.  Its effect  *)
(* is durable some time later, unless its write fails: then it is skipped. *)
(* The effects become durable in the order in which they were made, and a  *)
(* restart loses those that are not durable.                               *)
(***************************************************************************)
EXTENDS Commands

CONSTANTS
    Clients,
    CmdLines,   \* the commands clients send
    NoCmd,
    NoReply

VARIABLES
    memory,     \* the contents that commands see
    durable,    \* the contents a restart would find
    pending,    \* the effects that are not durable yet, oldest first
    request,    \* the command of each client
    answer      \* its answer, once it has taken effect

dsvars == <<memory, durable, pending, request, answer>>

After(db, cmd) == Stored(db, execNormalCommand(db, cmd))

DSInit ==
    /\ memory = [k \in Keys |-> Absent]
    /\ durable = [k \in Keys |-> Absent]
    /\ pending = <<>>
    /\ request = [c \in Clients |-> NoCmd]
    /\ answer = [c \in Clients |-> NoReply]

Request(c, line) ==
    /\ request[c] = NoCmd
    /\ request' = [request EXCEPT ![c] = line]
    /\ UNCHANGED <<memory, durable, pending, answer>>

TakeEffect(c) ==
    /\ request[c] # NoCmd
    /\ answer[c] = NoReply
    /\ LET r == execNormalCommand(memory, request[c]) IN
        /\ memory' = Stored(memory, r)
        /\ answer' = [answer EXCEPT ![c] = r.reply]
        /\ pending' = IF r.logged THEN Append(pending, request[c]) ELSE pending
    /\ UNCHANGED <<durable, request>>

Answer(c) ==
    /\ answer[c] # NoReply
    /\ request' = [request EXCEPT ![c] = NoCmd]
    /\ answer' = [answer EXCEPT ![c] = NoReply]
    /\ UNCHANGED <<memory, durable, pending>>

Persist ==
    /\ pending # <<>>
    /\ durable' = After(durable, Head(pending))
    /\ pending' = Tail(pending)
    /\ UNCHANGED <<memory, request, answer>>

\* The write of the oldest effect fails: clients see it, a restart will not.
Skip ==
    /\ pending # <<>>
    /\ pending' = Tail(pending)
    /\ UNCHANGED <<memory, durable, request, answer>>

LoseMemory ==
    /\ memory' = durable
    /\ pending' = <<>>
    /\ request' = [c \in Clients |-> NoCmd]
    /\ answer' = [c \in Clients |-> NoReply]
    /\ UNCHANGED durable

DSNext ==
    \/ \E c \in Clients :
        \/ \E line \in CmdLines : Request(c, line)
        \/ TakeEffect(c)
        \/ Answer(c)
    \/ Persist
    \/ Skip
    \/ LoseMemory

DSSpec == DSInit /\ [][DSNext]_dsvars
=============================================================================
