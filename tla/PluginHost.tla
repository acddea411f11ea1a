----------------------------- MODULE PluginHost -----------------------------
(***************************************************************************)
(* The host of the MCP servers (internal/plugin/plugin.go, lazy.go) that   *)
(* the controllers of one workspace share (desktop/shared_host.go), with   *)
(* one server in it.                                                       *)
(*                                                                         *)
(* A controller registers placeholders for the tools of the server, starts *)
(* it in the background or when a placeholder is called, and puts the real *)
(* tools in their place; the user connects and disconnects it by hand; the *)
(* last controller to go closes the host.  A client is one connection: to  *)
(* a child process (stdio) or to a server elsewhere (http), as the         *)
(* configuration says at the time; and for a while others of its kind list *)
(* its prompts.                                                            *)
(*                                                                         *)
(* Left out: the messages to the server, the schema cache on disk, the     *)
(* list of failures that the frontends show, servers that die on their     *)
(* own.                                                                    *)
(***************************************************************************)
EXTENDS Integers, Sequences, SequencesExt

CONSTANTS
  Controllers,  \* the controllers that share the host
  Callers,      \* the tool calls of a controller that run at a time
  Settings,     \* how the server may be configured: its tier, and whether its
                \* schema is cached
  MaxClients,   \* bound on the connections
  MaxCommands   \* bound on the commands of the user

ASSUME HostBounds == MaxClients \in Nat /\ MaxCommands \in Nat

Clients == 1..MaxClients
NoTools == 0
Placeholders == MaxClients + 1

Tiers == {"lazy", "background", "eager"}
ASSUME HostSettings == Settings \subseteq Tiers \X BOOLEAN

(* Who connects: the spawn of a controller, its user, its start.           *)
Ways == {"spawn", "user", "eager"}
Adders == Controllers \X Ways

VARIABLES
  host,       \* "open", "closing" once Close has begun, "closed"
  clients,    \* Host.clients
  prompts,    \* Host.prompts: the clients that listed them
  made,       \* how many clients there have been
  client,     \* each client: its process, who lists its prompts, whose context
  status,     \* each controller
  tools,      \* what its registry has for the server
  cached,     \* whether its placeholders come from the cache
  spawn,      \* its lazySpawn: state, real
  lock,       \* lazySpawn.mu, when held across a call
  adder,      \* each Host.Add under way: where it is, its client, who runs it
  call,       \* each tool call of a controller
  commands,   \* how many commands the user has given
  crossed     \* history: the clients that left the list when the registry of
              \* another had them, or was about to

spawnVars == <<cached, spawn, lock, call>>
hostVars  == <<host, clients, prompts, made, client>>
userVars  == <<status, commands, crossed>>
vars == <<hostVars, spawnVars, userVars, tools, adder>>

Nobody == "nobody"
Deferred == "deferred"
Own == "own"
ASSUME CallerNames == Callers \cap {Nobody, Deferred} = {} /\ Own \notin Controllers

Resting == [at |-> "none", c |-> 0, by |-> Nobody]
Unmade  == [process |-> "none", listers |-> {}, way |-> "none"]

Init ==
  /\ host = "open" /\ clients = <<>> /\ prompts = {}
  /\ made = 0 /\ client = [i \in Clients |-> Unmade]
  /\ status = [c \in Controllers |-> "unbuilt"]
  /\ tools = [c \in Controllers |-> NoTools]
  /\ cached = [c \in Controllers |-> FALSE]
  /\ spawn = [c \in Controllers |-> [state |-> "idle", real |-> 0]]
  /\ lock = [c \in Controllers |-> Nobody]
  /\ adder = [a \in Adders |-> Resting]
  /\ call = [c \in Controllers |-> [k \in Callers |-> "none"]]
  /\ commands = 0 /\ crossed = {}

Busy(a) == adder[a].at # "none"
Begin(a, who) == [adder EXCEPT ![a] = [at |-> "check", c |-> 0, by |-> who]]
Goto(a, place) == adder' = [adder EXCEPT ![a].at = place]
End(a) == adder' = [adder EXCEPT ![a] = Resting]

\* Client.close, or the end of its context; a server elsewhere has no process.
Die(i)    == [client EXCEPT ![i].process = IF @ = "live" THEN "dead" ELSE @]
Remote(i) == i \in Clients /\ client[i].process = "remote"

-----------------------------------------------------------------------------
(* Host.Add, by any of its callers.  The look whether the name is taken    *)
(* and the entry in the list are apart; whether the host is closed is      *)
(* looked at before the handshake and after it.                            *)

MayStart == clients = <<>> /\ host = "open"

AddRefused(a) ==
  /\ adder[a].at = "check" /\ ~MayStart
  /\ Goto(a, "failed")
  /\ UNCHANGED <<hostVars, spawnVars, userVars, tools>>

Started(a) == [adder EXCEPT ![a].at = "handshake", ![a].c = made']

AddStart(a) ==
  /\ adder[a].at = "check" /\ MayStart /\ made < MaxClients
  /\ made' = made + 1
  /\ \E kind \in {"live", "remote"} :
       client' = [client EXCEPT ![made'] = [process |-> kind, listers |-> {}, way |-> a[2]]]
  /\ adder' = Started(a)
  /\ UNCHANGED <<host, clients, prompts, spawnVars, userVars, tools>>

(* It cannot be started, does not answer well or in time, or its context   *)
(* ends.                                                                   *)
AddFail(a) ==
  /\ adder[a].at \in {"check", "handshake"}
  /\ Goto(a, "failed")
  /\ client' = IF adder[a].at = "check" THEN client ELSE Die(adder[a].c)
  /\ UNCHANGED <<host, clients, prompts, made, spawnVars, userVars, tools>>

\* Mutated: the host is not looked at again after the handshake.
Trusts == TRUE
StillOpen == host = "open"

(* The tools are listed, and the client is entered in the list.            *)
AddLink(a) ==
  /\ adder[a].at = "handshake" /\ client[adder[a].c].process # "dead"
  /\ IF StillOpen
     THEN /\ clients' = Append(clients, adder[a].c)
          /\ client' = [client EXCEPT ![adder[a].c].listers = {Own}]
          /\ Goto(a, "done")
     ELSE /\ client' = Die(adder[a].c)
          /\ Goto(a, "failed")
          /\ UNCHANGED clients
  /\ UNCHANGED <<host, prompts, made, spawnVars, userVars, tools>>

-----------------------------------------------------------------------------
(* fetchPrompts: a goroutine and a connection of its own each time, begun  *)
(* by Host.Add, and by StartPhaseB of a controller for each listed client. *)

\* Mutated: the list is not looked at again.
Anyway == TRUE
Registered == clients # <<>>

Stops(i, who) == [client EXCEPT ![i].listers = @ \ {who}]

ListPrompts(i, who) ==
  /\ who \in client[i].listers
  /\ prompts' = IF Registered THEN prompts \cup {i} ELSE prompts
  /\ client' = Stops(i, who)
  /\ UNCHANGED <<host, clients, made, spawnVars, userVars, tools, adder>>

ListFails(i, who) ==
  /\ who \in client[i].listers
  /\ client' = Stops(i, who)
  /\ UNCHANGED <<host, clients, prompts, made, spawnVars, userVars, tools, adder>>

(* Close has cancelled the contexts of the spawns.                         *)
KilledByContext(i) ==
  /\ client[i].way = "spawn" /\ host # "open" /\ client[i].process = "live"
  /\ client' = [Die(i) EXCEPT ![i].listers = @ \ {Own}]
  /\ UNCHANGED <<host, clients, prompts, made, spawnVars, userVars, tools, adder>>

-----------------------------------------------------------------------------
(* lazySpawn: kick, the call of a placeholder, run and trySwap.            *)

(* beginDeferredSpawn.                                                     *)
MaySpawn == host = "open"

Spawning(c) == spawn' = [spawn EXCEPT ![c].state = "inFlight"]
Failed(c)   == spawn' = [spawn EXCEPT ![c].state = "failed"]

PickPlaceholder(c, k) ==
  /\ status[c] = "open" /\ tools[c] = Placeholders /\ call[c][k] = "none"
  /\ call' = [call EXCEPT ![c][k] = "picked"]
  /\ UNCHANGED <<hostVars, cached, spawn, lock, userVars, tools, adder>>

Runs(c, k) == call[c][k] \in {"picked", "again"} /\ lock[c] = Nobody

Returns(c, k) == call' = [call EXCEPT ![c][k] = "none"]

ExecuteReady(c, k) ==
  /\ Runs(c, k) /\ spawn[c].state = "ready"
  /\ call' = [call EXCEPT ![c][k] = "forwarded"]
  /\ UNCHANGED <<hostVars, cached, spawn, lock, userVars, tools, adder>>

ExecuteTooEarly(c, k) ==
  /\ Runs(c, k) /\ spawn[c].state \in {"inFlight", "failed"}
  /\ Returns(c, k)
  /\ UNCHANGED <<hostVars, cached, spawn, lock, userVars, tools, adder>>

\* The failure is more than 30 seconds old: the call gives the lock back and
\* begins again, and a failure that it finds then is a new one.
ExecuteAgain(c, k) ==
  /\ Runs(c, k) /\ call[c][k] = "picked" /\ spawn[c].state = "failed"
  /\ spawn' = [spawn EXCEPT ![c].state = "idle"]
  /\ call' = [call EXCEPT ![c][k] = "again"]
  /\ UNCHANGED <<hostVars, cached, lock, userVars, tools, adder>>

\* Mutated: the state is not set before the lock is given back.
StaysIdle(c) == UNCHANGED spawn
SyncStart(c) == Spawning(c)

ExecuteSync(c, k) ==
  /\ Runs(c, k) /\ spawn[c].state = "idle" /\ cached[c]
  /\ SyncStart(c)
  /\ adder' = Begin(<<c, "spawn">>, k)
  /\ call' = [call EXCEPT ![c][k] = "spawns"]
  /\ UNCHANGED <<hostVars, cached, lock, userVars, tools>>

ExecuteDeferred(c, k) ==
  /\ Runs(c, k) /\ spawn[c].state = "idle" /\ ~cached[c]
  /\ IF MaySpawn
     THEN Spawning(c) /\ adder' = Begin(<<c, "spawn">>, Deferred)
     ELSE Failed(c) /\ UNCHANGED adder
  /\ Returns(c, k)
  /\ UNCHANGED <<hostVars, cached, lock, userVars, tools>>

\* The call that ran the handshake goes on to the real tool with the lock.
SpawnDone(c) ==
  LET a == <<c, "spawn">>
      k == adder[a].by
  IN /\ adder[a].at = "done"
     /\ spawn' = [spawn EXCEPT ![c] = [state |-> "ready", real |-> adder[a].c]]
     /\ tools' = [tools EXCEPT ![c] = adder[a].c]
     /\ IF k = Deferred THEN UNCHANGED <<call, lock>>
        ELSE call' = [call EXCEPT ![c][k] = "forwarded"] /\ lock' = [lock EXCEPT ![c] = k]
     /\ End(a)
     /\ UNCHANGED <<hostVars, cached, userVars>>

SpawnFailed(c) ==
  LET a == <<c, "spawn">>
      k == adder[a].by
  IN /\ adder[a].at = "failed"
     /\ Failed(c)
     /\ IF k = Deferred THEN UNCHANGED call ELSE Returns(c, k)
     /\ End(a)
     /\ UNCHANGED <<hostVars, cached, lock, userVars, tools>>

\* Mutated: the call forgets the lock.
Keep(c, k)    == lock
Release(c, k) == IF lock[c] = k THEN [lock EXCEPT ![c] = Nobody] ELSE lock

ForwardReturns(c, k) ==
  /\ call[c][k] = "forwarded"
  /\ Returns(c, k)
  /\ lock' = Release(c, k)
  /\ UNCHANGED <<hostVars, cached, spawn, userVars, tools, adder>>

-----------------------------------------------------------------------------
(* A controller is built and closed.                                       *)

(* boot.Build on the shared host: placeholders, or the tools of an eager   *)
(* server once it is connected.                                            *)
Open(c, tier, hit) ==
  /\ host = "open" /\ status[c] = "unbuilt"
  /\ status' = [status EXCEPT ![c] = "open"]
  /\ cached' = [cached EXCEPT ![c] = hit]
  /\ tools' = [tools EXCEPT ![c] = IF tier = "eager" THEN NoTools ELSE Placeholders]
  /\ adder' = CASE tier = "eager"      -> Begin(<<c, "eager">>, Deferred)
                [] tier = "background" -> Begin(<<c, "spawn">>, Deferred)
                [] tier = "lazy"       -> adder
  /\ IF tier = "background" THEN Spawning(c) ELSE UNCHANGED spawn
  /\ UNCHANGED <<hostVars, lock, call, commands, crossed>>

(* StartAvailableInto: the context of the handshake, which is also that of *)
(* the process, ends with the function.                                    *)
EagerEnd(c) ==
  LET a == <<c, "eager">>
  IN /\ adder[a].at \in {"done", "failed"}
     /\ IF adder[a].at = "done"
        THEN /\ tools' = [tools EXCEPT ![c] = adder[a].c]
             /\ client' = [Die(adder[a].c) EXCEPT ![adder[a].c].listers = @ \ {Own}]
        ELSE UNCHANGED <<tools, client>>
     /\ adder' = [adder EXCEPT ![a] = [at |-> "phaseB", c |-> 0, by |-> Deferred]]
     /\ UNCHANGED <<host, clients, prompts, made, spawnVars, userVars>>

(* The prompts of every client in the list are listed, again or not; the   *)
(* controller is built without waiting for it.                             *)
StartPhaseB(c) ==
  LET a == <<c, "eager">>
  IN /\ adder[a].at = "phaseB"
     /\ client' = [i \in Clients |-> IF i \in Range(clients)
                                    THEN [client[i] EXCEPT !.listers = @ \cup {c}] ELSE client[i]]
     /\ End(a)
     /\ UNCHANGED <<host, clients, prompts, made, spawnVars, userVars, tools>>

(* The last controller that releases the host closes it: Host.Close.       *)
Close(c) ==
  /\ status[c] = "open" /\ adder[<<c, "eager">>].at \in {"none", "phaseB"}
  /\ status' = [status EXCEPT ![c] = "closed"]
  /\ host' = IF \E d \in Controllers \ {c} : status[d] = "open" THEN host ELSE "closing"
  /\ UNCHANGED <<clients, prompts, made, client, spawnVars, commands, crossed, tools, adder>>

DeferredRuns == \E c \in Controllers : Busy(<<c, "spawn">>) /\ adder[<<c, "spawn">>].by = Deferred

\* Mutated: Close does not wait for the spawns.
NoWait == TRUE
Waited == ~DeferredRuns

HostClosed ==
  /\ host = "closing" /\ Waited
  /\ host' = "closed"
  /\ client' = [i \in Clients |-> IF i \in Range(clients) THEN Die(i)[i] ELSE client[i]]
  /\ UNCHANGED <<clients, prompts, made, spawnVars, userVars, tools, adder>>

-----------------------------------------------------------------------------
(* The commands of the user: connectMCPSpec, DisconnectMCPServer.          *)

Command(c) ==
  /\ status[c] = "open" /\ ~Busy(<<c, "user">>) /\ commands < MaxCommands
  /\ commands' = commands + 1
  /\ UNCHANGED status

Connect(c) ==
  /\ Command(c)
  /\ adder' = Begin(<<c, "user">>, Deferred)
  /\ UNCHANGED <<hostVars, spawnVars, crossed, tools>>

ConnectEnd(c) ==
  LET a == <<c, "user">>
  IN /\ adder[a].at \in {"done", "failed"}
     /\ tools' = IF adder[a].at = "done" THEN [tools EXCEPT ![c] = adder[a].c] ELSE tools
     /\ End(a)
     /\ UNCHANGED <<hostVars, spawnVars, userVars>>

\* Mutated: the tools of a server that was connected stay in the registry.
KeepTools(c) == tools
DropTools(c) == [tools EXCEPT ![c] = NoTools]

DisconnectNone(c) ==
  /\ Command(c) /\ clients = <<>>
  /\ tools' = [tools EXCEPT ![c] = NoTools]
  /\ UNCHANGED <<hostVars, spawnVars, crossed, adder>>

(* Whose registry has client i, or gets it when its Host.Add returns.      *)
Brings(d, i) == \E w \in Ways : adder[<<d, w>>].at = "done" /\ adder[<<d, w>>].c = i
LeftWith(c, i) == {d \in Controllers : (d # c /\ tools[d] = i) \/ Brings(d, i)}

Disconnect(c) ==
  /\ Command(c) /\ clients # <<>>
  /\ clients' = Tail(clients) /\ prompts' = {}
  /\ crossed' = crossed \cup (LeftWith(c, Head(clients)) \X {Head(clients)})
  /\ adder' = [adder EXCEPT ![<<c, "user">>] = [at |-> "removed", c |-> Head(clients), by |-> Deferred]]
  /\ UNCHANGED <<host, made, client, spawnVars, tools>>

DisconnectEnd(c) ==
  LET a == <<c, "user">>
  IN /\ adder[a].at = "removed"
     /\ client' = Die(adder[a].c)
     /\ tools' = DropTools(c)
     /\ End(a)
     /\ UNCHANGED <<host, clients, prompts, made, spawnVars, userVars>>

-----------------------------------------------------------------------------

Adding(a) == AddRefused(a) \/ AddStart(a) \/ AddFail(a) \/ AddLink(a)
Ending(c) == SpawnDone(c) \/ SpawnFailed(c) \/ EagerEnd(c) \/ StartPhaseB(c)
             \/ ConnectEnd(c) \/ DisconnectEnd(c)
Calling(c, k) ==
  \/ ExecuteReady(c, k) \/ ExecuteTooEarly(c, k) \/ ExecuteAgain(c, k)
  \/ ExecuteSync(c, k) \/ ExecuteDeferred(c, k) \/ ForwardReturns(c, k)
Listing(i) == \/ \E who \in client[i].listers : ListPrompts(i, who) \/ ListFails(i, who)
              \/ KilledByContext(i)

Next ==
  \/ \E a \in Adders : Adding(a)
  \/ \E c \in Controllers : Ending(c) \/ Close(c) \/ Connect(c) \/ DisconnectNone(c) \/ Disconnect(c)
  \/ \E c \in Controllers, k \in Callers : PickPlaceholder(c, k) \/ Calling(c, k)
  \/ \E c \in Controllers, s \in Settings : Open(c, s[1], s[2])
  \/ \E i \in Clients : Listing(i)
  \/ HostClosed

Spec == Init /\ [][Next]_vars

(* A call to a child process has a time-out (transport_stdio.go), the      *)
(* start of an eager server and the listing of prompts have one of their   *)
(* own; a call to a server elsewhere has none (transport_http.go), and     *)
(* ends only with its context: that of the spawns is cancelled by Close.   *)
Answered(a) ==
  adder[a].at = "handshake" /\ Remote(adder[a].c)
    => a[2] = "eager" \/ (a[2] = "spawn" /\ host # "open")

AtServer(c, k) == call[c][k] = "forwarded" /\ Remote(spawn[c].real)

(* What is begun goes on; the controllers, the user, a server elsewhere    *)
(* and the model need not.                                                 *)
FairSpec ==
  /\ Spec
  /\ \A a \in Adders : WF_vars(Answered(a) /\ Adding(a))
  /\ \A c \in Controllers : WF_vars(Ending(c))
  /\ \A c \in Controllers, k \in Callers : WF_vars(~AtServer(c, k) /\ Calling(c, k))
  /\ \A i \in Clients : WF_vars(Listing(i))
  /\ WF_vars(HostClosed)

-----------------------------------------------------------------------------
(* Properties.                                                             *)

(* The variables keep their types, and a client is made once.              *)
TypeOK ==
  /\ host \in {"open", "closing", "closed"} /\ made \in 0..MaxClients
  /\ Range(clients) \subseteq 1..made /\ prompts \subseteq 1..made
  /\ \A i \in Clients : client[i].process = "none" <=> i > made
  /\ \A c \in Controllers : tools[c] \in {NoTools, Placeholders} \cup 1..made
  /\ \A c \in Controllers : spawn[c].state \in {"idle", "inFlight", "ready", "failed"}
  /\ \A a \in Adders : adder[a].at \in {"handshake", "done", "removed"} => adder[a].c \in 1..made

(* A lazySpawn runs one handshake at a time, whoever starts it, and the    *)
(* call that started it is the one that waits for it.                      *)
OneHandshake ==
  \A c \in Controllers :
    /\ spawn[c].state = "inFlight" <=> Busy(<<c, "spawn">>)
    /\ \A k \in Callers : call[c][k] = "spawns" <=> adder[<<c, "spawn">>].by = k
    /\ lock[c] # Nobody => call[c][lock[c]] = "forwarded"

(* When Close has returned, no spawn that it waits for runs, and each      *)
(* child process in the list is dead: one that connected meanwhile, too.   *)
CloseIsFinal ==
  host = "closed" => ~DeferredRuns /\ \A i \in Range(clients) : client[i].process # "live"

(* No prompt outlives the server: the goroutine that lists them looks at   *)
(* the list again (fetchPrompts).                                          *)
NoGhostPrompts == prompts # {} => clients # <<>>

(* Close, and a Disconnect, leave nothing of a server.                     *)
NothingIsLeft == CloseIsFinal /\ NoGhostPrompts

(* Whoever connects, fails and disconnects at the shared host, and however *)
(* often: the tools of a server in a registry are those of a client in the *)
(* list, and it lives; but for the time in which its own user disconnects  *)
(* it.  Two exceptions the code has: the child process of an eager server  *)
(* dies when StartAvailableInto returns, and the registry of a controller  *)
(* that had a client, or was about to, is left behind when the user of     *)
(* another, or a command that crosses its Host.Add, removes that client.   *)
Leaving(c) == adder[<<c, "user">>].at = "removed" /\ adder[<<c, "user">>].c = tools[c]

RegistryIsTrue ==
  \A c \in Controllers : tools[c] \in Clients /\ host = "open" =>
    \/ /\ tools[c] \in Range(clients)
       /\ client[tools[c]].process # "dead" \/ client[tools[c]].way = "eager"
    \/ Leaving(c)
    \/ <<c, tools[c]>> \in crossed

(* A call that waits for a server elsewhere, or for the lock that such a   *)
(* call holds.                                                             *)
HeldUp(c, k) ==
  \/ AtServer(c, k)
  \/ call[c][k] = "spawns" /\ ~Answered(<<c, "spawn">>)
  \/ call[c][k] \in {"picked", "again"} /\ lock[c] # Nobody /\ AtServer(c, lock[c])

(* Every call of a tool returns, also one that waits for the lock that     *)
(* another holds across the call of the real tool, unless a server         *)
(* elsewhere never answers it or the one it waits for.                     *)
CallsReturn ==
  \A c \in Controllers, k \in Callers :
    []<>(call[c][k] = "none") \/ <>[]HeldUp(c, k)

(* No process outlives the host for ever, whoever was connecting it when   *)
(* Close came (addConnected), and whoever still listed prompts.            *)
NothingOutlives ==
  host = "closed" ~> \A i \in Clients : client[i].process # "live" /\ client[i].listers = {}

(* What was begun ends: calls, and the processes of a closed host.         *)
AllEnds == CallsReturn /\ NothingOutlives

(* What desktop/shared_host.go:11 says: "Multiple controllers (one per     *)
(* tab) use the same Host so MCP subprocesses (CodeGraph, etc.) are        *)
(* spawned once per project".  The spawn of a second tab is refused,       *)
(* because the first has the server connected.                             *)
SharedByAllTabs ==
  \A c, d \in Controllers :
    tools[d] \in Range(clients) /\ c # d /\ status[c] = "open" => spawn[c].state # "failed"

(* What Add says of itself (internal/plugin/plugin.go:711): "Errors if the *)
(* name is taken."  Two that connect at a time are both entered.           *)
NameIsTaken == Len(clients) <= 1

(* What fetchPrompts says (internal/plugin/plugin.go:481): no "stale       *)
(* prompt entry for a disconnected server".  The look is for the name, and *)
(* a server that was connected again has it.                               *)
PromptsOfConnected == prompts \subseteq Range(clients)

(* What the comment of DisconnectMCPServer says                            *)
(* (internal/control/controller.go): the server "reconnects on the next    *)
(* session start", or when the user says so.  A spawn that was under way   *)
(* connects it.                                                            *)
StaysDisconnected ==
  [][\A c \in Controllers : SpawnDone(c) => tools[c] # NoTools]_vars

(* What Add says of its context (internal/plugin/plugin.go:709): "pass the *)
(* session-scoped context".  StartAvailableInto passes one that it cancels *)
(* when it returns, and the process dies.                                  *)
EagerLives ==
  [][\A c \in Controllers : EagerEnd(c) /\ tools'[c] # tools[c]
       => client'[tools'[c]].process # "dead"]_vars

=============================================================================
