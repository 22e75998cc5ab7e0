--------------------------- MODULE ManualControl ---------------------------
(***************************************************************************)
(* The manual control channel (setup.rs): a bot with a manual trigger      *)
(* listens on a port of its own and leaves port and token in a control     *)
(* file named after its configuration; `nft-mint-bot trigger` reads the    *)
(* file, connects and sends the token.  Several runs of one configuration  *)
(* share the file, one after the other or at the same time; runs die       *)
(* without cleaning up, and ports are used again.                          *)
(***************************************************************************)
EXTENDS FiniteSets

CONSTANTS
    Runs,      \* runs of the bot on one configuration, each with its own token
    Clients,   \* trigger commands, or other connections to the port
    Ports,
    Nobody

ASSUME NobodyAssumption == Nobody \notin Runs \cup Clients \cup Ports

VARIABLES
    place,     \* how far each run is
    port,
    file,      \* the run that created the control file, or Nobody: no file
    written,   \* runs whose file has its content
    channel,   \* each run's trigger channel
    serving,   \* the connection each listener reads from
    client,    \* how far each client is,
    of, to,    \* whose token it read, and whose listener it is connected to
    alone      \* runs that have never overlapped with another

vars == <<place, port, file, written, channel, serving, client, of, to, alone>>

runVars == <<place, port, file, written, alone>>
clientVars == <<client, of, to>>

Live(r) == place[r] \notin {"off", "gone"}

\* The socket is open from bind until the listener task ends.
Listening(r) == Live(r) /\ channel[r] = "open"

Init ==
    /\ place = [r \in Runs |-> "off"]
    /\ port = [r \in Runs |-> Nobody]
    /\ file = Nobody
    /\ written = {}
    /\ channel = [r \in Runs |-> "open"]
    /\ serving = [r \in Runs |-> Nobody]
    /\ client = [c \in Clients |-> "start"]
    /\ of = [c \in Clients |-> Nobody]
    /\ to = [c \in Clients |-> Nobody]
    /\ alone = {}

Goes(r, p) == place' = [place EXCEPT ![r] = p]

\* Connections end: the listener drops one, or is gone and all are reset.
Drop(C) ==
    /\ client' = [c \in Clients |-> IF c \in C THEN "done" ELSE client[c]]
    /\ to' = [c \in Clients |-> IF c \in C THEN Nobody ELSE to[c]]

Reset(r) == Drop({c \in Clients : to[c] = r})

----------------------------------------------------------------------------
(* A run of the bot: bind_manual_control and write_control_file.           *)

Bind(r) ==
    /\ place[r] = "off"
    /\ Goes(r, "bound")
    /\ \E p \in Ports \ {port[q] : q \in {q \in Runs : Listening(q)}} :
          port' = [port EXCEPT ![r] = p]
    /\ alone' = LET others == {q \in Runs : Live(q)}
                IN  IF others = {} THEN alone \cup {r} ELSE alone \ others
    /\ UNCHANGED <<file, written, channel, serving, clientVars>>

\* Mutant: a file that is there already is kept.
CreateOrKeep(r) ==
    /\ place[r] = "bound"
    /\ file' = IF file = Nobody THEN r ELSE file
    /\ Goes(r, "writing")
    /\ UNCHANGED <<port, written, channel, serving, clientVars, alone>>

\* create_new: an existing file has to be removed first.
Create(r) ==
    /\ place[r] = "bound"
    /\ IF file = Nobody
       THEN file' = r /\ Goes(r, "writing")
       ELSE file' = file /\ Goes(r, "removing")
    /\ UNCHANGED <<port, written, channel, serving, clientVars, alone>>

\* Fails when another run has removed it in between.
Remove(r) ==
    /\ place[r] = "removing"
    /\ IF file # Nobody
       THEN file' = Nobody /\ Goes(r, "recreating") /\ UNCHANGED <<client, to>>
       ELSE file' = file /\ Goes(r, "gone") /\ Reset(r)
    /\ UNCHANGED <<port, written, channel, serving, of, alone>>

\* Fails when another run has created one in between.
Recreate(r) ==
    /\ place[r] = "recreating"
    /\ IF file = Nobody
       THEN file' = r /\ Goes(r, "writing") /\ UNCHANGED <<client, to>>
       ELSE file' = file /\ Goes(r, "gone") /\ Reset(r)
    /\ UNCHANGED <<port, written, channel, serving, of, alone>>

\* Port and token go into the file this run created, also when another run has
\* removed it from its place; then the listener is spawned.
Write(r) ==
    /\ place[r] = "writing"
    /\ written' = written \cup {r}
    /\ Goes(r, "armed")
    /\ UNCHANGED <<port, file, channel, serving, clientVars, alone>>

\* monitor_manual: recv
Take(r) ==
    /\ place[r] = "armed"
    /\ channel[r] = "sent"
    /\ channel' = [channel EXCEPT ![r] = "closed"]
    /\ UNCHANGED <<runVars, serving, clientVars>>

\* The monitor returned: cleanup_manual_control removes the file of this
\* configuration, whoever wrote it.
Finish(r) ==
    /\ place[r] = "armed"
    /\ Goes(r, "gone")
    /\ file' = Nobody
    /\ serving' = [serving EXCEPT ![r] = Nobody]
    /\ Reset(r)
    /\ UNCHANGED <<port, written, channel, of, alone>>

\* The process is killed, or an error after the file was created ends the
\* start-up: nothing is cleaned up.
Die(r) ==
    /\ Live(r)
    /\ Goes(r, "gone")
    /\ serving' = [serving EXCEPT ![r] = Nobody]
    /\ Reset(r)
    /\ UNCHANGED <<port, file, written, channel, of, alone>>

----------------------------------------------------------------------------
(* The listener task: one connection at a time.                            *)

Serve(r, c) ==
    /\ place[r] = "armed"
    /\ Listening(r)
    /\ serving[r] = Nobody
    /\ to[c] = r /\ client[c] \in {"connected", "sent"}
    /\ serving' = [serving EXCEPT ![r] = c]
    /\ UNCHANGED <<runVars, channel, clientVars>>

\* Mutant: any line triggers.
HearAnyToken(r, c) ==
    /\ serving[r] = c
    /\ client[c] = "sent"
    /\ channel' = [channel EXCEPT ![r] = "sent"]
    /\ Reset(r)
    /\ serving' = [serving EXCEPT ![r] = Nobody]
    /\ UNCHANGED <<runVars, of>>

\* A line was read: this run's token triggers it and ends the listener, any
\* other line is dropped.
Hear(r, c) ==
    /\ serving[r] = c
    /\ client[c] = "sent"
    /\ IF of[c] = r
       THEN channel' = [channel EXCEPT ![r] = "sent"] /\ Reset(r)
       ELSE Drop({c}) /\ UNCHANGED channel
    /\ serving' = [serving EXCEPT ![r] = Nobody]
    /\ UNCHANGED <<runVars, of>>

\* Mutant: a connection is read from until it says something.
GiveUpNever(r, c) == FALSE /\ UNCHANGED vars

\* No line within 250 ms: the connection is dropped, although what the client
\* writes later still reports success to its user.
GiveUp(r, c) ==
    /\ serving[r] = c
    /\ client[c] = "connected"
    /\ Drop({c})
    /\ serving' = [serving EXCEPT ![r] = Nobody]
    /\ UNCHANGED <<runVars, channel, of>>

----------------------------------------------------------------------------
(* send_manual_trigger                                                     *)

\* Without a file there is no running bot, and a file that has not been written
\* yet is invalid.
ReadFile(c) ==
    /\ client[c] = "start"
    /\ IF file \in written
       THEN client' = [client EXCEPT ![c] = "read"] /\ of' = [of EXCEPT ![c] = file]
       ELSE client' = [client EXCEPT ![c] = "done"] /\ of' = of
    /\ UNCHANGED <<runVars, channel, serving, to>>

\* Whoever listens on that port by now accepts; the kernel queues connections.
Connect(c) ==
    /\ client[c] = "read"
    /\ \/ \E r \in Runs : /\ Listening(r)
                          /\ port[r] = port[of[c]]
                          /\ client' = [client EXCEPT ![c] = "connected"]
                          /\ to' = [to EXCEPT ![c] = r]
       \/ /\ \A r \in Runs : Listening(r) => port[r] # port[of[c]]
          /\ client' = [client EXCEPT ![c] = "done"]
          /\ to' = to
    /\ UNCHANGED <<runVars, channel, serving, of>>

\* "Manual trigger sent."
SendLine(c) ==
    /\ client[c] = "connected"
    /\ client' = [client EXCEPT ![c] = "sent"]
    /\ UNCHANGED <<runVars, channel, serving, of, to>>

----------------------------------------------------------------------------
Next ==
    \/ \E r \in Runs : \/ Bind(r) \/ Create(r) \/ Remove(r) \/ Recreate(r) \/ Write(r)
                       \/ Take(r) \/ Finish(r) \/ Die(r)
                       \/ \E c \in Clients : Serve(r, c) \/ Hear(r, c) \/ GiveUp(r, c)
    \/ \E c \in Clients : ReadFile(c) \/ Connect(c) \/ SendLine(c)

Spec == Init /\ [][Next]_vars

\* The file is written without a pause, the listener is a task of its own, and
\* its read is timed out; neither the monitor nor the clients owe anything.
Fairness ==
    /\ \A r \in Runs : WF_vars(Create(r) \/ Remove(r) \/ Recreate(r) \/ Write(r))
    /\ \A r \in Runs, c \in Clients :
          WF_vars(Serve(r, c)) /\ WF_vars(Hear(r, c)) /\ WF_vars(GiveUp(r, c))

FairSpec == Spec /\ Fairness

----------------------------------------------------------------------------
TypeOK ==
    /\ place \in [Runs -> {"off", "bound", "removing", "recreating", "writing", "armed", "gone"}]
    /\ port \in [Runs -> Ports \cup {Nobody}]
    /\ file \in Runs \cup {Nobody}
    /\ written \subseteq Runs
    /\ channel \in [Runs -> {"open", "sent", "closed"}]
    /\ serving \in [Runs -> Clients \cup {Nobody}]
    /\ client \in [Clients -> {"start", "read", "connected", "sent", "done"}]
    /\ of \in [Clients -> Runs \cup {Nobody}]
    /\ to \in [Clients -> Runs \cup {Nobody}]
    /\ alone \subseteq Runs
    /\ \A r \in Runs : serving[r] # Nobody =>
          Listening(r) /\ to[serving[r]] = r /\ client[serving[r]] \in {"connected", "sent"}

\* An armed run is found by the trigger command, whatever files earlier runs of
\* its configuration left when they died, unless another run of the same
\* configuration overlapped with it: that one replaces or removes the file.
RunningBotIsFound ==
    \A r \in alone : place[r] = "armed" => file = r /\ r \in written

\* A run is triggered at most once, and only by a command that read this run's
\* control file, not by one meant for an earlier run on the same port.
Abstract == INSTANCE ManualTrigger WITH asked <- {of[c] : c \in Clients} \ {Nobody}
ImplementsManualTrigger == Abstract!Spec

\* A connection that says nothing does not keep the listener from the others:
\* what a client has sent is read, unless the listener ends first.
SentIsRead == \A c \in Clients : client[c] = "sent" ~> client[c] = "done"
=============================================================================
