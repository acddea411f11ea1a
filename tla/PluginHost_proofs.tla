------------------------- MODULE PluginHost_proofs -------------------------
(***************************************************************************)
(* The handshakes of PluginHost, what Close leaves, and whose tools the    *)
(* registries have, for any number of controllers, calls, connections and  *)
(* commands.                                                               *)
(***************************************************************************)
EXTENDS PluginHost, TLAPS

Places == {"none", "check", "handshake", "done", "failed", "removed", "phaseB"}
States == {"idle", "inFlight", "ready", "failed"}
Calls  == {"none", "picked", "again", "spawns", "forwarded"}
Listers == Controllers \cup {Own}
Procs  == [process : {"none", "live", "dead", "remote"}, listers : SUBSET Listers,
           way : Ways \cup {"none"}]
Parties == Callers \cup {Nobody, Deferred}

HostTypes ==
  /\ host \in {"open", "closing", "closed"} /\ made \in 0..MaxClients
  /\ clients \in Seq(Clients) /\ prompts \subseteq Clients
  /\ client \in [Clients -> Procs]

AdderTypes == adder \in [Adders -> [at : Places, c : 0..MaxClients, by : Parties]]

SpawnTypes ==
  /\ spawn \in [Controllers -> [state : States, real : 0..MaxClients]]
  /\ cached \in [Controllers -> BOOLEAN]
  /\ lock \in [Controllers -> Callers \cup {Nobody}]
  /\ call \in [Controllers -> [Callers -> Calls]]

UserTypes ==
  /\ status \in [Controllers -> {"unbuilt", "open", "closed"}]
  /\ tools \in [Controllers -> 0..(MaxClients + 1)]

Types == HostTypes /\ AdderTypes /\ SpawnTypes /\ UserTypes

(* Whoever refers to a client refers to one that was made.                 *)
MadeInv ==
  /\ \A i \in 1..Len(clients) : clients[i] <= made
  /\ \A i \in prompts : i <= made
  /\ \A i \in Clients : client[i].process = "none" <=> i > made
  /\ \A i \in Clients : i > made => client[i].listers = {}
  /\ \A a \in Adders : adder[a].at \in {"handshake", "done", "removed"} => adder[a].c \in 1..made
  /\ \A c \in Controllers : tools[c] \in {NoTools, Placeholders} \cup 1..made

(* Who is at Host.Add has a name there, a controller that is not built has *)
(* begun nothing.                                                          *)
PartyInv ==
  /\ \A a \in Adders : adder[a].at = "none" <=> adder[a].by = Nobody
  /\ \A c \in Controllers : status[c] = "unbuilt" =>
       /\ spawn[c].state = "idle" /\ ~Busy(<<c, "spawn">>)
       /\ \A k \in Callers : call[c][k] = "none"

Basics == Types /\ MadeInv /\ PartyInv

IInv == Basics /\ OneHandshake /\ NoGhostPrompts /\ CloseIsFinal

USE HostBounds, CallerNames

LEMMA Names ==
  /\ \A c \in Controllers, w \in Ways : <<c, w>> \in Adders
  /\ \A c, d \in Controllers, v, w \in Ways : <<c, v>> = <<d, w>> <=> c = d /\ v = w
  /\ {"spawn", "user", "eager"} \subseteq Ways
  /\ Nobody \notin Callers /\ Deferred \notin Callers /\ Nobody # Deferred
BY DEF Adders, Ways, Nobody, Deferred

LEMMA InitIInv == Init => IInv
<1> SUFFICES ASSUME Init PROVE IInv
  OBVIOUS
<1>1. Types
  BY DEF Init, Types, HostTypes, AdderTypes, SpawnTypes, UserTypes, Unmade, Resting, Places, States,
         Calls, Procs, Parties, Ways, Clients, NoTools
<1>2. MadeInv /\ PartyInv
  BY Names DEF Init, MadeInv, PartyInv, Busy, Unmade, Resting, Clients, NoTools
<1>3. OneHandshake
  BY Names DEF Init, OneHandshake, Busy, Resting
<1>4. NoGhostPrompts /\ CloseIsFinal
  BY DEF Init, NoGhostPrompts, CloseIsFinal
<1> QED
  BY <1>1, <1>2, <1>3, <1>4 DEF IInv, Basics

-----------------------------------------------------------------------------
(* The steps, by what they change.                                         *)

(* A step of Host.Add leaves everybody else, and who runs it, alone.       *)
LEMMA AddingFrame ==
  ASSUME Basics, NEW a \in Adders, Adding(a)
  PROVE  /\ adder[a].at # "none" /\ adder'[a].at # "none" /\ adder'[a].by = adder[a].by
         /\ \A b \in Adders \ {a} : adder'[b] = adder[b]
         /\ UNCHANGED <<cached, spawn, lock, call, status, tools, host, prompts>>
         /\ AdderTypes'
<1>0. AdderTypes
  BY DEF Basics, Types
<1>1. CASE AddRefused(a)
  BY <1>0, <1>1 DEF AddRefused, Goto, AdderTypes, Places, hostVars, spawnVars, userVars
<1>2. CASE AddStart(a)
  <2>1. made + 1 \in 0..MaxClients
    BY <1>2 DEF AddStart, Basics, Types, HostTypes
  <2>2. adder' = Started(a) /\ made' = made + 1 /\ adder[a].at = "check"
    BY <1>2 DEF AddStart
  <2>3. UNCHANGED <<cached, spawn, lock, call, status, tools, host, prompts>>
    BY <1>2 DEF AddStart, spawnVars, userVars
  <2> QED
    BY <1>0, <2>1, <2>2, <2>3 DEF Started, AdderTypes, Places
<1>3. CASE AddFail(a)
  BY <1>0, <1>3 DEF AddFail, Goto, AdderTypes, Places, spawnVars, userVars
<1>4. CASE AddLink(a)
  <2>1. adder[a].at = "handshake" /\ (Goto(a, "done") \/ Goto(a, "failed"))
    BY <1>4 DEF AddLink
  <2>2. UNCHANGED <<cached, spawn, lock, call, status, tools, host, prompts>>
    BY <1>4 DEF AddLink, spawnVars, userVars
  <2> QED
    BY <1>0, <2>1, <2>2 DEF Goto, AdderTypes, Places
<1> QED
  BY <1>1, <1>2, <1>3, <1>4 DEF Adding

(* Who begins, and who ends, leaves the others alone.                      *)
LEMMA OthersStay ==
  ASSUME AdderTypes, NEW a, NEW b \in Adders, a # b
  PROVE  /\ \A who : Begin(a, who)[b] = adder[b]
         /\ End(a) => adder'[b] = adder[b]
BY DEF AdderTypes, Begin, End

LEMMA NextCases ==
  ASSUME Next
  PROVE  \/ \E a \in Adders : Adding(a)
         \/ \E i \in Clients : Listing(i)
         \/ \E c \in Controllers, k \in Callers : PickPlaceholder(c, k) \/ Calling(c, k)
         \/ \E c \in Controllers : Ending(c)
         \/ \E c \in Controllers, tier \in Tiers, hit \in BOOLEAN : Open(c, tier, hit)
         \/ \E c \in Controllers : Close(c) \/ Connect(c) \/ DisconnectNone(c) \/ Disconnect(c)
         \/ HostClosed
<1>1. \A s \in Settings : s[1] \in Tiers /\ s[2] \in BOOLEAN
  BY HostSettings
<1> QED
  BY <1>1 DEF Next

(* The end of a child process changes nothing else.                        *)
LEMMA DieFrame ==
  ASSUME HostTypes, NEW i \in Clients
  PROVE  /\ Die(i) \in [Clients -> Procs]
         /\ Die(i)[i].process \in {client[i].process, "dead"}
         /\ Die(i)[i].process # "live" /\ Die(i)[i].way = client[i].way
         /\ Die(i)[i].listers = client[i].listers
         /\ \A j \in Clients \ {i} : Die(i)[j] = client[j]
<1>1. client \in [Clients -> Procs] /\ client[i] \in Procs
  BY DEF HostTypes
<1>2. /\ Die(i)[i] = [client[i] EXCEPT !.process = IF @ = "live" THEN "dead" ELSE @]
      /\ \A j \in Clients \ {i} : Die(i)[j] = client[j]
      /\ DOMAIN Die(i) = Clients
  BY <1>1 DEF Die
<1>3. Die(i)[i] \in Procs /\ Die(i)[i].process # "live"
  BY <1>1, <1>2 DEF Procs
<1>4. Die(i) \in [Clients -> Procs]
  BY <1>1, <1>2, <1>3 DEF Die
<1> QED
  BY <1>1, <1>2, <1>3, <1>4 DEF Procs

LEMMA HostTypesStep ==
  ASSUME Basics, Next PROVE HostTypes'
<1>0. HostTypes /\ AdderTypes /\ MadeInv
  BY DEF Basics, Types
<1>1. \A i \in Clients : Die(i) \in [Clients -> Procs]
  BY <1>0, DieFrame
<1>2. \A i \in Clients, v \in SUBSET Listers : [client EXCEPT ![i].listers = v] \in [Clients -> Procs]
  BY <1>0 DEF HostTypes, Procs
<1>10. \A i \in Clients, d \in [Clients -> Procs] : d[i].listers \ {Own} \in SUBSET Listers
  BY DEF Procs
<1>3. ASSUME NEW a \in Adders, Adding(a) PROVE HostTypes'
  <2>1. CASE AddRefused(a)
    BY <1>0, <2>1 DEF AddRefused, HostTypes, hostVars
  <2>2. CASE AddStart(a)
    <3>1. made + 1 \in Clients /\ made + 1 \in 0..MaxClients
      BY <1>0, <2>2 DEF AddStart, HostTypes, Clients
    <3>2. a[2] \in Ways
      BY DEF Adders
    <3>3. PICK kind \in {"live", "remote"} :
            client' = [client EXCEPT ![made'] = [process |-> kind, listers |-> {}, way |-> a[2]]]
      BY <2>2 DEF AddStart
    <3>4. client' \in [Clients -> Procs]
      <4>1. [process |-> kind, listers |-> {}, way |-> a[2]] \in Procs
        BY <3>2 DEF Procs
      <4> QED
        BY <1>0, <2>2, <3>3, <4>1 DEF AddStart, HostTypes
    <3> QED
      BY <1>0, <2>2, <3>1, <3>4 DEF AddStart, HostTypes
  <2>3. CASE AddFail(a)
    <3>1. adder[a].at = "handshake" => adder[a].c \in Clients
      BY <1>0 DEF MadeInv, HostTypes, Clients
    <3> QED
      BY <1>0, <1>1, <2>3, <3>1 DEF AddFail, HostTypes
  <2>4. CASE AddLink(a)
    <3>1. adder[a].c \in Clients
      BY <1>0, <2>4 DEF AddLink, MadeInv, HostTypes, Clients
    <3>2. CASE StillOpen
      <4>1. Append(clients, adder[a].c) \in Seq(Clients)
        BY <1>0, <3>1 DEF HostTypes
      <4>2. [client EXCEPT ![adder[a].c].listers = {Own}] \in [Clients -> Procs]
        BY <1>2, <3>1 DEF Listers
      <4> QED
        BY <1>0, <2>4, <3>2, <4>1, <4>2 DEF AddLink, HostTypes
    <3>3. CASE ~StillOpen
      <4>1. Die(adder[a].c) \in [Clients -> Procs]
        BY <1>1, <3>1
      <4> QED
        BY <1>0, <2>4, <3>3, <4>1 DEF AddLink, HostTypes
    <3> QED
      BY <3>2, <3>3
  <2> QED
    BY <1>3, <2>1, <2>2, <2>3, <2>4 DEF Adding
<1>4. ASSUME NEW i \in Clients, Listing(i) PROVE HostTypes'
  <2>1. ASSUME NEW who \in client[i].listers, ListPrompts(i, who) \/ ListFails(i, who)
        PROVE HostTypes'
    <3>1. client[i].listers \ {who} \in SUBSET Listers
      BY <1>0 DEF HostTypes, Procs
    <3>2. client' = [client EXCEPT ![i].listers = client[i].listers \ {who}]
      BY <1>0, <2>1 DEF ListPrompts, ListFails, Stops, HostTypes
    <3>3. client' \in [Clients -> Procs]
      BY <1>2, <3>1, <3>2
    <3> QED
      BY <1>0, <2>1, <3>3 DEF ListPrompts, ListFails, HostTypes
  <2>2. CASE KilledByContext(i)
    <3>1. Die(i) \in [Clients -> Procs]
      BY <1>1
    <3>2. \A d \in [Clients -> Procs] :
            [d EXCEPT ![i].listers = @ \ {Own}] \in [Clients -> Procs]
      BY DEF Procs
    <3>3. client' \in [Clients -> Procs]
      BY <2>2, <3>1, <3>2 DEF KilledByContext
    <3> QED
      BY <1>0, <2>2, <3>3 DEF KilledByContext, HostTypes
  <2> QED
    BY <1>4, <2>1, <2>2 DEF Listing
<1>5. ASSUME NEW c \in Controllers, NEW k \in Callers, PickPlaceholder(c, k) \/ Calling(c, k)
      PROVE HostTypes'
  BY <1>0, <1>5 DEF PickPlaceholder, Calling, ExecuteReady, ExecuteTooEarly, ExecuteAgain, ExecuteSync,
     ExecuteDeferred, ForwardReturns, HostTypes, hostVars
<1>6. ASSUME NEW c \in Controllers, Ending(c) PROVE HostTypes'
  <2>1. CASE SpawnDone(c) \/ SpawnFailed(c) \/ ConnectEnd(c)
    BY <1>0, <2>1 DEF SpawnDone, SpawnFailed, ConnectEnd, HostTypes, hostVars
  <2>2. CASE EagerEnd(c)
    <3>1. adder[<<c, "eager">>].at = "done" => adder[<<c, "eager">>].c \in Clients
      BY <1>0, Names DEF MadeInv, HostTypes, Clients
    <3>2. \A j \in Clients, d \in [Clients -> Procs] :
            [d EXCEPT ![j].listers = @ \ {Own}] \in [Clients -> Procs]
      BY DEF Procs
    <3>3. client' \in [Clients -> Procs]
      <4>1. CASE adder[<<c, "eager">>].at = "done"
        <5>. DEFINE j == adder[<<c, "eager">>].c
        <5>1. client' = [Die(j) EXCEPT ![j].listers = @ \ {Own}]
          BY <2>2, <4>1 DEF EagerEnd
        <5>2. j \in Clients /\ Die(j) \in [Clients -> Procs]
          BY <1>1, <3>1, <4>1
        <5> QED
          BY <3>2, <5>1, <5>2
      <4>2. CASE adder[<<c, "eager">>].at # "done"
        BY <1>0, <2>2, <4>2 DEF EagerEnd, HostTypes
      <4> QED
        BY <4>1, <4>2
    <3> QED
      BY <1>0, <2>2, <3>3 DEF EagerEnd, HostTypes
  <2>3. CASE DisconnectEnd(c)
    <3>1. adder[<<c, "user">>].c \in Clients
      BY <1>0, <2>3, Names DEF DisconnectEnd, MadeInv, HostTypes, Clients
    <3> QED
      BY <1>0, <1>1, <2>3, <3>1 DEF DisconnectEnd, HostTypes
  <2>4. CASE StartPhaseB(c)
    <3>1. \A i \in Clients : [client[i] EXCEPT !.listers = @ \cup {c}] \in Procs
      BY <1>0 DEF HostTypes, Procs, Listers
    <3>2. client' \in [Clients -> Procs]
      BY <1>0, <2>4, <3>1 DEF StartPhaseB, HostTypes
    <3> QED
      BY <1>0, <2>4, <3>2 DEF StartPhaseB, HostTypes
  <2> QED
    BY <1>6, <2>1, <2>2, <2>3, <2>4 DEF Ending
<1>7. ASSUME NEW c \in Controllers, NEW tier \in Tiers, NEW hit \in BOOLEAN, Open(c, tier, hit)
      PROVE HostTypes'
  BY <1>0, <1>7 DEF Open, HostTypes, hostVars
<1>8. ASSUME NEW c \in Controllers, Close(c) \/ Connect(c) \/ DisconnectNone(c) \/ Disconnect(c)
      PROVE HostTypes'
  <2>1. CASE Close(c)
    BY <1>0, <2>1 DEF Close, HostTypes
  <2>2. CASE Connect(c) \/ DisconnectNone(c)
    BY <1>0, <2>2 DEF Connect, DisconnectNone, HostTypes, hostVars
  <2>3. CASE Disconnect(c)
    <3>1. Tail(clients) \in Seq(Clients)
      BY <1>0, <2>3 DEF Disconnect, HostTypes
    <3> QED
      BY <1>0, <2>3, <3>1 DEF Disconnect, HostTypes
  <2> QED
    BY <1>8, <2>1, <2>2, <2>3
<1>9. ASSUME HostClosed PROVE HostTypes'
  <2>1. client' \in [Clients -> Procs]
    BY <1>0, <1>1, <1>9 DEF HostClosed, HostTypes
  <2> QED
    BY <1>0, <1>9, <2>1 DEF HostClosed, HostTypes
<1> QED
  BY NextCases, <1>3, <1>4, <1>5, <1>6, <1>7, <1>8, <1>9

LEMMA AdderTypesStep ==
  ASSUME Basics, Next PROVE AdderTypes'
<1>0. HostTypes /\ AdderTypes /\ SpawnTypes
  BY DEF Basics, Types
<1>1. \A a \in Adders, who \in Parties : Begin(a, who) \in [Adders -> [at : Places, c : 0..MaxClients, by : Parties]]
  BY <1>0 DEF AdderTypes, Begin, Places
<1>2. \A a \in Adders : End(a) => AdderTypes'
  BY <1>0 DEF AdderTypes, End, Resting, Places, Parties
<1>3. ASSUME NEW i \in Clients, Listing(i) PROVE AdderTypes'
  BY <1>0, <1>3 DEF Listing, ListPrompts, ListFails, KilledByContext, AdderTypes
<1>4. ASSUME NEW c \in Controllers, NEW k \in Callers, PickPlaceholder(c, k) \/ Calling(c, k)
      PROVE AdderTypes'
  <2>1. k \in Parties /\ Deferred \in Parties
    BY DEF Parties
  <2> QED
    BY <1>0, <1>1, <1>4, <2>1, Names
       DEF PickPlaceholder, Calling, ExecuteReady, ExecuteTooEarly, ExecuteAgain, ExecuteSync,
           ExecuteDeferred, ForwardReturns, AdderTypes
<1>5. ASSUME NEW c \in Controllers, Ending(c) PROVE AdderTypes'
  <2>1. CASE EagerEnd(c)
    <3>1. [at |-> "phaseB", c |-> 0, by |-> Deferred] \in [at : Places, c : 0..MaxClients, by : Parties]
      BY DEF Places, Parties
    <3> QED
      BY <1>0, <2>1, <3>1 DEF EagerEnd, AdderTypes
  <2>2. CASE ~EagerEnd(c)
    BY <1>2, <1>5, <2>2, Names DEF Ending, SpawnDone, SpawnFailed, StartPhaseB, ConnectEnd, DisconnectEnd
  <2> QED
    BY <2>1, <2>2
<1>6. ASSUME NEW c \in Controllers, NEW tier \in Tiers, NEW hit \in BOOLEAN, Open(c, tier, hit)
      PROVE AdderTypes'
  BY <1>0, <1>1, <1>6, Names DEF Open, AdderTypes, Tiers, Parties
<1>7. ASSUME NEW c \in Controllers, Close(c) \/ Connect(c) \/ DisconnectNone(c) PROVE AdderTypes'
  BY <1>0, <1>1, <1>7, Names DEF Close, Connect, DisconnectNone, AdderTypes, Parties
<1>8. ASSUME NEW c \in Controllers, Disconnect(c) PROVE AdderTypes'
  <2>1. Head(clients) \in 0..MaxClients
    BY <1>0, <1>8 DEF Disconnect, HostTypes, Clients
  <2> QED
    BY <1>0, <1>8, <2>1, Names DEF Disconnect, AdderTypes, Places, Parties
<1>9. ASSUME HostClosed PROVE AdderTypes'
  BY <1>0, <1>9 DEF HostClosed, AdderTypes
<1> QED
  BY NextCases, AddingFrame, <1>3, <1>4, <1>5, <1>6, <1>7, <1>8, <1>9

LEMMA SpawnTypesStep ==
  ASSUME Basics, Next PROVE SpawnTypes'
<1>0. AdderTypes /\ SpawnTypes
  BY DEF Basics, Types
<1>. DEFINE Spawns == [state : States, real : 0..MaxClients]
<1>1. ASSUME NEW c \in Controllers, NEW v \in States
      PROVE  [spawn EXCEPT ![c].state = v] \in [Controllers -> Spawns]
  <2>1. spawn[c] \in Spawns
    BY <1>0 DEF SpawnTypes
  <2>2. [spawn[c] EXCEPT !.state = v] \in Spawns
    BY <2>1
  <2> QED
    BY <1>0, <2>2 DEF SpawnTypes
<1>2. ASSUME NEW c \in Controllers, NEW k \in Callers, NEW v \in Calls
      PROVE  [call EXCEPT ![c][k] = v] \in [Controllers -> [Callers -> Calls]]
  BY <1>0 DEF SpawnTypes
<1>10. /\ {"inFlight", "failed", "idle", "ready"} = States
       /\ {"none", "picked", "again", "spawns", "forwarded"} = Calls
  BY DEF States, Calls
<1> HIDE DEF Spawns
<1>3. ASSUME NEW a \in Adders, Adding(a) PROVE SpawnTypes'
  BY <1>0, <1>3, AddingFrame DEF SpawnTypes
<1>4. ASSUME NEW i \in Clients, Listing(i) PROVE SpawnTypes'
  BY <1>0, <1>4 DEF Listing, ListPrompts, ListFails, KilledByContext, SpawnTypes, spawnVars
<1>5. ASSUME NEW c \in Controllers, NEW k \in Callers, PickPlaceholder(c, k) \/ Calling(c, k)
      PROVE SpawnTypes'
  <2>0. \E v \in Calls : call' = [call EXCEPT ![c][k] = v]
    BY <1>5, <1>10 DEF PickPlaceholder, Calling, ExecuteReady, ExecuteTooEarly, ExecuteAgain, ExecuteSync,
       ExecuteDeferred, ForwardReturns, Returns
  <2>1. call' \in [Controllers -> [Callers -> Calls]]
    BY <1>2, <2>0
  <2>2. spawn' = spawn \/ \E v \in States : spawn' = [spawn EXCEPT ![c].state = v]
    BY <1>5, <1>10 DEF PickPlaceholder, Calling, ExecuteReady, ExecuteTooEarly, ExecuteAgain, ExecuteSync,
       ExecuteDeferred, ForwardReturns, SyncStart, Spawning, Failed
  <2>3. spawn' \in [Controllers -> Spawns]
    BY SMTT(20), <1>0, <1>1, <2>2 DEF SpawnTypes, Spawns
  <2>4. cached' = cached /\ (lock' = lock \/ lock' = [lock EXCEPT ![c] = Nobody])
    BY <1>5 DEF PickPlaceholder, Calling, ExecuteReady, ExecuteTooEarly, ExecuteAgain, ExecuteSync,
       ExecuteDeferred, ForwardReturns, Release
  <2> QED
    BY <1>0, <2>1, <2>3, <2>4 DEF SpawnTypes, Spawns
<1>6. ASSUME NEW c \in Controllers, Ending(c) PROVE SpawnTypes'
  <2>1. CASE SpawnDone(c)
    <3>. DEFINE a == <<c, "spawn">>
    <3>1. adder[a].c \in 0..MaxClients /\ adder[a].by \in Parties \ {Nobody}
      BY <1>0, <2>1, Names DEF AdderTypes, SpawnDone, Basics, PartyInv
    <3>2. spawn' \in [Controllers -> Spawns]
      <4>1. [state |-> "ready", real |-> adder[a].c] \in Spawns
        BY <1>10, <3>1 DEF Spawns
      <4>2. spawn' = [spawn EXCEPT ![c] = [state |-> "ready", real |-> adder[a].c]]
        BY <2>1 DEF SpawnDone
      <4> QED
        BY <1>0, <4>1, <4>2 DEF SpawnTypes, Spawns
    <3>3. CASE adder[a].by = Deferred
      BY <1>0, <2>1, <3>2, <3>3 DEF SpawnDone, SpawnTypes, Spawns
    <3>4. CASE adder[a].by \in Callers
      <4>. DEFINE k == adder[a].by
      <4>1. /\ call' = [call EXCEPT ![c][k] = "forwarded"]
            /\ lock' = [lock EXCEPT ![c] = k] /\ cached' = cached
        BY <2>1, <3>4, Names DEF SpawnDone
      <4>2. call' \in [Controllers -> [Callers -> Calls]]
        BY <1>2, <1>10, <3>4, <4>1
      <4> QED
        BY <1>0, <3>2, <3>4, <4>1, <4>2 DEF SpawnTypes, Spawns
    <3> QED
      BY <3>1, <3>3, <3>4 DEF Parties
  <2>2. CASE SpawnFailed(c)
    <3>. DEFINE a == <<c, "spawn">>
    <3>1. adder[a].by \in Parties \ {Nobody}
      BY <1>0, <2>2, Names DEF AdderTypes, SpawnFailed, Basics, PartyInv
    <3>2. spawn' \in [Controllers -> Spawns]
      BY <1>1, <1>10, <2>2 DEF SpawnFailed, Failed
    <3>3. CASE adder[a].by = Deferred
      BY <1>0, <2>2, <3>2, <3>3 DEF SpawnFailed, SpawnTypes, Spawns
    <3>4. CASE adder[a].by \in Callers
      <4>. DEFINE k == adder[a].by
      <4>1. call' = [call EXCEPT ![c][k] = "none"] /\ lock' = lock /\ cached' = cached
        BY <2>2, <3>4, Names DEF SpawnFailed, Returns
      <4>2. call' \in [Controllers -> [Callers -> Calls]]
        BY <1>2, <1>10, <3>4, <4>1
      <4> QED
        BY <1>0, <3>2, <4>1, <4>2 DEF SpawnTypes, Spawns
    <3> QED
      BY <3>1, <3>3, <3>4 DEF Parties
  <2>3. CASE EagerEnd(c) \/ StartPhaseB(c) \/ ConnectEnd(c) \/ DisconnectEnd(c)
    BY <1>0, <2>3 DEF EagerEnd, StartPhaseB, ConnectEnd, DisconnectEnd, SpawnTypes, spawnVars
  <2> QED
    BY <1>6, <2>1, <2>2, <2>3 DEF Ending
<1>7. ASSUME NEW c \in Controllers, NEW tier \in Tiers, NEW hit \in BOOLEAN, Open(c, tier, hit)
      PROVE SpawnTypes'
  <2>1. spawn' = spawn \/ spawn' = [spawn EXCEPT ![c].state = "inFlight"]
    BY <1>7 DEF Open, Spawning
  <2>2. spawn' \in [Controllers -> Spawns]
    BY SMTT(20), <1>0, <1>1, <1>10, <2>1 DEF SpawnTypes, Spawns
  <2> QED
    BY <1>0, <1>7, <2>2 DEF Open, SpawnTypes, Spawns
<1>8. ASSUME NEW c \in Controllers, Close(c) \/ Connect(c) \/ DisconnectNone(c) \/ Disconnect(c)
      PROVE SpawnTypes'
  BY <1>0, <1>8 DEF Close, Connect, DisconnectNone, Disconnect, SpawnTypes, spawnVars
<1>9. ASSUME HostClosed PROVE SpawnTypes'
  BY <1>0, <1>9 DEF HostClosed, SpawnTypes, spawnVars
<1> QED
  BY NextCases, <1>3, <1>4, <1>5, <1>6, <1>7, <1>8, <1>9

LEMMA UserTypesStep ==
  ASSUME Basics, Next PROVE UserTypes'
<1>0. HostTypes /\ AdderTypes /\ UserTypes
  BY DEF Basics, Types
<1>. DEFINE Tools == 0..(MaxClients + 1)
<1>1. \A a \in Adders : adder[a].c \in Tools
  BY <1>0 DEF AdderTypes, HostTypes
<1>2. NoTools \in Tools /\ Placeholders \in Tools
  BY DEF NoTools, Placeholders
<1>3. ASSUME NEW a \in Adders, Adding(a) PROVE UserTypes'
  BY <1>0, <1>3, AddingFrame DEF UserTypes
<1>4. ASSUME NEW i \in Clients, Listing(i) PROVE UserTypes'
  BY <1>0, <1>4 DEF Listing, ListPrompts, ListFails, KilledByContext, UserTypes, userVars
<1>5. ASSUME NEW c \in Controllers, NEW k \in Callers, PickPlaceholder(c, k) \/ Calling(c, k)
      PROVE UserTypes'
  BY <1>0, <1>5 DEF PickPlaceholder, Calling, ExecuteReady, ExecuteTooEarly, ExecuteAgain, ExecuteSync,
     ExecuteDeferred, ForwardReturns, UserTypes, userVars
<1>6. ASSUME NEW c \in Controllers, Ending(c) PROVE UserTypes'
  <2>1. \A w \in Ways : adder[<<c, w>>].c \in Tools
    BY <1>1, Names
  <2>2. status' = status /\ \E t \in Tools : tools' = tools \/ tools' = [tools EXCEPT ![c] = t]
    BY <1>2, <1>6, <2>1, Names
       DEF Ending, SpawnDone, SpawnFailed, EagerEnd, StartPhaseB, ConnectEnd, DisconnectEnd, DropTools, userVars
  <2> QED
    BY <1>0, <2>2 DEF UserTypes
<1>7. ASSUME NEW c \in Controllers, NEW tier \in Tiers, NEW hit \in BOOLEAN, Open(c, tier, hit)
      PROVE UserTypes'
  BY <1>0, <1>2, <1>7 DEF Open, UserTypes
<1>8. ASSUME NEW c \in Controllers, Close(c) \/ Connect(c) \/ DisconnectNone(c) \/ Disconnect(c)
      PROVE UserTypes'
  BY <1>0, <1>2, <1>8 DEF Close, Connect, DisconnectNone, Disconnect, Command, UserTypes
<1>9. ASSUME HostClosed PROVE UserTypes'
  BY <1>0, <1>9 DEF HostClosed, UserTypes, userVars
<1> QED
  BY NextCases, <1>3, <1>4, <1>5, <1>6, <1>7, <1>8, <1>9

LEMMA TypesStep ==
  ASSUME Basics, Next PROVE Types'
BY HostTypesStep, AdderTypesStep, SpawnTypesStep, UserTypesStep DEF Types

-----------------------------------------------------------------------------
(* MadeInv, one conjunct at a time.                                        *)

LEMMA MadeGrows ==
  ASSUME Basics, Next
  PROVE  /\ made <= made' /\ made \in Nat /\ made' \in Nat
         /\ made' = made \/ \E a \in Adders : AddStart(a)
<1>1. made' = made \/ \E a \in Adders : AddStart(a)
  BY DEF Next, Adding, AddRefused, AddFail, AddLink, Listing, ListPrompts, ListFails,
     KilledByContext, PickPlaceholder, Calling, ExecuteReady, ExecuteTooEarly, ExecuteAgain, ExecuteSync,
     ExecuteDeferred, ForwardReturns, Ending, SpawnDone, SpawnFailed, EagerEnd, StartPhaseB, ConnectEnd, DisconnectEnd,
     Open, Close, Connect, DisconnectNone, Disconnect, HostClosed, hostVars
<1>2. made \in Nat
  BY DEF Basics, Types, HostTypes
<1> QED
  BY <1>1, <1>2 DEF AddStart

(* Where client i stands after a step.                                     *)
LEMMA ClientsStep ==
  ASSUME Basics, Next, NEW i \in Clients
  PROVE  /\ client'[i].process = "none" <=> i > made'
         /\ i > made' => client'[i].listers = {}
<1>0. HostTypes /\ AdderTypes /\ MadeInv /\ HostTypes'
  BY HostTypesStep DEF Basics, Types
<1>1. /\ client[i].process = "none" <=> i > made
      /\ i > made => client[i].listers = {}
  BY <1>0 DEF MadeInv
<1>2. CASE client'[i] = client[i] /\ made' = made
  BY <1>1, <1>2
<1>3. CASE made' = made /\ client'[i].process \in {client[i].process, "dead"} /\ i <= made
  BY SMTT(20), <1>0, <1>1, <1>3 DEF HostTypes
<1>5. ASSUME NEW a \in Adders, AddStart(a)
      PROVE  /\ client'[i].process = "none" <=> i > made'
             /\ i > made' => client'[i].listers = {}
  <2>1. made' = made + 1 /\ made' \in Clients /\ made \in Nat
    BY <1>0, <1>5 DEF AddStart, HostTypes, Clients
  <2>2. CASE i = made'
    BY <1>0, <1>5, <2>1, <2>2 DEF AddStart, HostTypes, Clients
  <2>3. CASE i # made'
    <3>1. client'[i] = client[i]
      BY <1>0, <1>5, <2>3 DEF AddStart, HostTypes
    <3> QED
      BY <1>1, <2>1, <2>3, <3>1 DEF Clients
  <2> QED
    BY <2>2, <2>3
<1>. DEFINE Same == client'[i] = client[i] /\ made' = made
            Kept == made' = made /\ i <= made /\ client'[i].process \in {client[i].process, "dead"}
<1>6. ASSUME NEW a \in Adders, Adding(a), ~AddStart(a) PROVE Same \/ Kept
  <2>1. CASE AddRefused(a)
    BY <2>1 DEF AddRefused, hostVars
  <2>2. CASE AddFail(a)
    <3>1. adder[a].at # "check" => adder[a].c \in 1..made
      BY <1>0, <2>2 DEF AddFail, MadeInv
    <3> QED
      BY <1>0, <2>2, <3>1 DEF AddFail, Die, HostTypes, Procs
  <2>3. CASE AddLink(a)
    <3>. DEFINE j == adder[a].c
    <3>1. j \in 1..made /\ j \in Clients
      BY <1>0, <2>3 DEF AddLink, MadeInv, HostTypes, Clients
    <3>2. /\ made' = made
          /\ client' = [client EXCEPT ![j].listers = {Own}] \/ client' = Die(j)
      BY <2>3 DEF AddLink
    <3>3. CASE client' = [client EXCEPT ![j].listers = {Own}]
      BY <1>0, <3>1, <3>2, <3>3 DEF HostTypes, Procs
    <3>4. CASE client' = Die(j)
      BY <1>0, <3>1, <3>2, <3>4, DieFrame
    <3> QED
      BY <3>2, <3>3, <3>4
  <2> QED
    BY <1>6, <2>1, <2>2, <2>3 DEF Adding
<1>7. ASSUME NEW j \in Clients, Listing(j) PROVE Same \/ Kept
  <2>1. ASSUME NEW who \in client[j].listers, ListPrompts(j, who) \/ ListFails(j, who)
        PROVE Same \/ Kept
    <3>1. j <= made
      BY <1>0 DEF MadeInv, HostTypes, Clients
    <3> QED
      BY <1>0, <2>1, <3>1 DEF ListPrompts, ListFails, Stops, HostTypes, Procs
  <2>2. CASE KilledByContext(j)
    <3>1. j <= made
      BY <1>0, <2>2 DEF KilledByContext, MadeInv, HostTypes, Clients
    <3> QED
      BY <1>0, <2>2, <3>1 DEF KilledByContext, Die, HostTypes, Procs
  <2> QED
    BY <1>7, <2>1, <2>2 DEF Listing
<1>8. ASSUME NEW c \in Controllers, NEW k \in Callers, PickPlaceholder(c, k) \/ Calling(c, k)
      PROVE Same
  BY <1>8 DEF PickPlaceholder, Calling, ExecuteReady, ExecuteTooEarly, ExecuteAgain, ExecuteSync,
     ExecuteDeferred, ForwardReturns, hostVars
<1>9. ASSUME NEW c \in Controllers, Ending(c) PROVE Same \/ Kept
  <2>1. CASE SpawnDone(c) \/ SpawnFailed(c) \/ ConnectEnd(c)
    BY <2>1 DEF SpawnDone, SpawnFailed, ConnectEnd, hostVars
  <2>2. CASE EagerEnd(c)
    <3>1. adder[<<c, "eager">>].at = "done" => adder[<<c, "eager">>].c \in 1..made
      BY <1>0, Names DEF MadeInv
    <3>2. CASE adder[<<c, "eager">>].at = "done"
      <4>1. PICK d \in 1..made : /\ client' = [Die(d) EXCEPT ![d].listers = @ \ {Own}]
                                 /\ made' = made
        BY <2>2, <3>1, <3>2 DEF EagerEnd
      <4>2. d \in Clients
        BY <1>0, <4>1 DEF HostTypes, Clients
      <4>3. Die(d) \in [Clients -> Procs] /\ Die(d)[d].process \in {client[d].process, "dead"}
        BY <1>0, <4>2, DieFrame
      <4>4. /\ client'[d].process \in {client[d].process, "dead"}
            /\ \A j \in Clients \ {d} : client'[j] = client[j]
        BY <1>0, <4>1, <4>2, <4>3, DieFrame DEF Procs
      <4> QED
        BY <4>1, <4>4
    <3>3. CASE adder[<<c, "eager">>].at = "failed"
      BY <2>2, <3>3 DEF EagerEnd
    <3> QED
      BY <2>2, <3>2, <3>3 DEF EagerEnd
  <2>3. CASE DisconnectEnd(c)
    <3>1. adder[<<c, "user">>].c \in 1..made
      BY <1>0, <2>3, Names DEF DisconnectEnd, MadeInv
    <3> QED
      BY <1>0, <2>3, <3>1 DEF DisconnectEnd, Die, HostTypes, Procs
  <2>4. CASE StartPhaseB(c)
    <3>1. /\ made' = made
          /\ \/ client'[i] = client[i]
             \/ i \in Range(clients) /\ client'[i] = [client[i] EXCEPT !.listers = @ \cup {c}]
      BY <2>4 DEF StartPhaseB
    <3>2. i \in Range(clients) => i <= made
      BY <1>0 DEF Range, MadeInv, HostTypes
    <3>3. client[i] \in Procs
      BY <1>0 DEF HostTypes
    <3> QED
      BY <3>1, <3>2, <3>3 DEF Procs
  <2> QED
    BY <1>9, <2>1, <2>2, <2>3, <2>4 DEF Ending
<1>10. ASSUME NEW c \in Controllers, \/ \E tier \in Tiers, hit \in BOOLEAN : Open(c, tier, hit)
                                     \/ Close(c) \/ Connect(c) \/ DisconnectNone(c) \/ Disconnect(c)
       PROVE Same
  BY <1>10 DEF Open, Close, Connect, DisconnectNone, Disconnect, hostVars
<1>11. ASSUME HostClosed PROVE Same \/ Kept
  <2>1. made' = made /\ client'[i] = IF i \in Range(clients) THEN Die(i)[i] ELSE client[i]
    BY <1>11 DEF HostClosed
  <2>2. i \in Range(clients) => i <= made
    BY <1>0 DEF Range, MadeInv, HostTypes
  <2> QED
    BY <1>0, <2>1, <2>2 DEF Die, HostTypes, Procs
<1> QED
  BY NextCases, <1>2, <1>3, <1>5, <1>6, <1>7, <1>8, <1>9, <1>10, <1>11

(* Whoever has a client has one that was made.                             *)
LEMMA AddersStep ==
  ASSUME Basics, Next, NEW a \in Adders,
         adder'[a].at \in {"handshake", "done", "removed"}
  PROVE  adder'[a].c \in 1..made'
<1>0. HostTypes /\ AdderTypes /\ MadeInv
  BY DEF Basics, Types
<1>1. made <= made' /\ made \in Nat /\ made' \in Nat
  BY MadeGrows
<1>2. CASE adder'[a] = adder[a]
  BY <1>0, <1>1, <1>2 DEF MadeInv
<1>3. ASSUME NEW b \in Adders, Adding(b) PROVE adder'[a].c \in 1..made'
  <2>1. CASE a # b
    BY <1>2, <1>3, <2>1, AddingFrame
  <2>2. CASE a = b /\ AddStart(b)
    BY <1>0, <1>1, <2>2 DEF AddStart, Started, AdderTypes
  <2>3. CASE a = b /\ (AddRefused(b) \/ AddFail(b))
    BY <1>0, <2>3 DEF AddRefused, AddFail, Goto, AdderTypes
  <2>4. CASE a = b /\ AddLink(b)
    <3>1. adder'[a].c = adder[a].c /\ adder[a].at \in {"handshake"}
      BY <1>0, <2>4 DEF AddLink, Goto, AdderTypes
    <3> QED
      BY <1>0, <1>1, <3>1 DEF MadeInv
  <2> QED
    BY <1>3, <2>1, <2>2, <2>3, <2>4 DEF Adding
<1>4. ASSUME NEW i \in Clients, Listing(i) PROVE adder'[a].c \in 1..made'
  BY <1>2, <1>4 DEF Listing, ListPrompts, ListFails, KilledByContext
<1>5. ASSUME NEW b \in Adders, NEW who, adder' = Begin(b, who) PROVE adder'[a].c \in 1..made'
  BY <1>0, <1>2, <1>5 DEF Begin, AdderTypes
<1>6. ASSUME NEW b \in Adders, End(b) PROVE adder'[a].c \in 1..made'
  BY <1>0, <1>2, <1>6 DEF End, Resting, AdderTypes
<1>7. ASSUME NEW c \in Controllers, NEW k \in Callers, PickPlaceholder(c, k) \/ Calling(c, k)
      PROVE adder'[a].c \in 1..made'
  BY <1>2, <1>5, <1>7, Names DEF PickPlaceholder, Calling, ExecuteReady, ExecuteTooEarly, ExecuteAgain,
     ExecuteSync, ExecuteDeferred, ForwardReturns
<1>8. ASSUME NEW c \in Controllers, Ending(c) PROVE adder'[a].c \in 1..made'
  <2>1. CASE EagerEnd(c)
    BY <1>0, <1>2, <2>1 DEF EagerEnd, AdderTypes
  <2>2. CASE ~EagerEnd(c)
    BY <1>6, <1>8, <2>2, Names DEF Ending, SpawnDone, SpawnFailed, StartPhaseB, ConnectEnd, DisconnectEnd
  <2> QED
    BY <2>1, <2>2
<1>9. ASSUME NEW c \in Controllers, NEW tier \in Tiers, NEW hit \in BOOLEAN, Open(c, tier, hit)
      PROVE adder'[a].c \in 1..made'
  BY <1>2, <1>5, <1>9, Names DEF Open, Tiers
<1>10. ASSUME NEW c \in Controllers, Close(c) \/ Connect(c) \/ DisconnectNone(c) \/ HostClosed
       PROVE adder'[a].c \in 1..made'
  BY <1>2, <1>5, <1>10, Names DEF Close, Connect, DisconnectNone, HostClosed
<1>11. ASSUME NEW c \in Controllers, Disconnect(c) PROVE adder'[a].c \in 1..made'
  <2>1. Head(clients) \in 1..made
    BY <1>0, <1>11 DEF Disconnect, MadeInv, HostTypes, Clients
  <2>2. CASE a = <<c, "user">>
    BY <1>0, <1>1, <1>11, <2>1, <2>2 DEF Disconnect, AdderTypes
  <2>3. CASE a # <<c, "user">>
    BY <1>0, <1>2, <1>11, <2>3 DEF Disconnect, AdderTypes
  <2> QED
    BY <2>2, <2>3
<1>12. ASSUME HostClosed PROVE adder'[a].c \in 1..made'
  BY <1>2, <1>12 DEF HostClosed
<1> QED
  BY NextCases, <1>3, <1>4, <1>7, <1>8, <1>9, <1>10, <1>11, <1>12

(* Where the list comes from.                                              *)
LEMMA ListStep ==
  ASSUME Next
  PROVE  \/ clients' = clients
         \/ \E a \in Adders : AddLink(a) /\ clients' = Append(clients, adder[a].c)
         \/ clients # <<>> /\ clients' = Tail(clients)
BY ZenonT(30) DEF Next, Adding, AddRefused, AddStart, AddFail, AddLink, Listing, ListPrompts, ListFails,
   KilledByContext, PickPlaceholder, Calling, ExecuteReady, ExecuteTooEarly, ExecuteAgain, ExecuteSync,
     ExecuteDeferred, ForwardReturns, Ending, SpawnDone, SpawnFailed, EagerEnd, StartPhaseB, ConnectEnd, DisconnectEnd,
     Open, Close, Connect, DisconnectNone, Disconnect, HostClosed, hostVars

LEMMA MadeInvStep ==
  ASSUME Basics, Next PROVE MadeInv'
<1>0. HostTypes /\ AdderTypes /\ UserTypes /\ MadeInv
  BY DEF Basics, Types
<1>1. made <= made' /\ made \in Nat /\ made' \in Nat
  BY MadeGrows
<1>2. \A i \in 1..Len(clients') : clients'[i] <= made'
  <2>1. CASE clients' = clients
    BY <1>0, <1>1, <2>1 DEF MadeInv, HostTypes, Clients
  <2>2. ASSUME NEW a \in Adders, AddLink(a), clients' = Append(clients, adder[a].c)
        PROVE \A i \in 1..Len(clients') : clients'[i] <= made'
    BY <1>0, <1>1, <2>2 DEF AddLink, MadeInv, HostTypes, Clients
  <2>3. ASSUME clients # <<>>, clients' = Tail(clients)
        PROVE \A i \in 1..Len(clients') : clients'[i] <= made'
    BY <1>0, <1>1, <2>3 DEF MadeInv, HostTypes, Clients
  <2> QED
    BY <2>1, <2>2, <2>3, ListStep
<1>3. \A i \in prompts' : i <= made'
  <2>1. \/ prompts' = prompts \/ prompts' = {}
        \/ \E i \in Clients : client[i].listers # {} /\ prompts' = prompts \cup {i}
    BY ZenonT(30) DEF Next, Adding, AddRefused, AddStart, AddFail, AddLink, Listing, ListPrompts, ListFails,
       KilledByContext, PickPlaceholder, Calling, ExecuteReady, ExecuteTooEarly, ExecuteAgain, ExecuteSync,
       ExecuteDeferred, ForwardReturns, Ending, SpawnDone, SpawnFailed, EagerEnd, StartPhaseB, ConnectEnd, DisconnectEnd,
       Open, Close, Connect, DisconnectNone, Disconnect, HostClosed, hostVars
  <2>2. \A i \in prompts : i <= made /\ i \in Nat
    BY <1>0 DEF MadeInv, HostTypes, Clients
  <2>3. \A i \in Clients : client[i].listers # {} => i <= made /\ i \in Nat
    BY <1>0 DEF MadeInv, HostTypes, Clients
  <2>4. \A i \in prompts' : i <= made /\ i \in Nat
    BY <2>1, <2>2, <2>3
  <2> QED
    BY <1>1, <2>4
<1>4. \A c \in Controllers : tools'[c] \in {NoTools, Placeholders} \cup 1..made'
  <2>1. CASE tools' = tools
    BY <1>0, <1>1, <2>1 DEF MadeInv
  <2>2. ASSUME NEW d \in Controllers, NEW t \in {NoTools, Placeholders} \cup 1..made,
               tools' = [tools EXCEPT ![d] = t]
        PROVE \A c \in Controllers : tools'[c] \in {NoTools, Placeholders} \cup 1..made'
    BY <1>0, <1>1, <2>2 DEF MadeInv, UserTypes
  <2>3. ASSUME NEW d \in Controllers, Ending(d)
        PROVE \/ tools' = tools
              \/ \E t \in {NoTools, Placeholders} \cup 1..made : tools' = [tools EXCEPT ![d] = t]
    <3>1. \A w \in Ways : adder[<<d, w>>].at = "done" => adder[<<d, w>>].c \in 1..made
      BY <1>0, Names DEF MadeInv
    <3> QED
      BY <2>3, <3>1, Names
         DEF Ending, SpawnDone, SpawnFailed, EagerEnd, StartPhaseB, ConnectEnd, DisconnectEnd, DropTools
  <2>4. \/ tools' = tools \/ \E d \in Controllers : Ending(d)
        \/ \E d \in Controllers, t \in {NoTools, Placeholders} : tools' = [tools EXCEPT ![d] = t]
    BY NextCases, AddingFrame
       DEF Listing, ListPrompts, ListFails,
       KilledByContext, PickPlaceholder, Calling, ExecuteReady, ExecuteTooEarly, ExecuteAgain, ExecuteSync,
       ExecuteDeferred, ForwardReturns, Open, Close, Connect, DisconnectNone, Disconnect, HostClosed
  <2> QED
    BY <2>1, <2>2, <2>3, <2>4
<1> QED
  BY <1>2, <1>3, <1>4, ClientsStep, AddersStep DEF MadeInv

LEMMA PartyInvStep ==
  ASSUME Basics, Next PROVE PartyInv'
<1>0. AdderTypes /\ SpawnTypes /\ UserTypes /\ PartyInv
  BY DEF Basics, Types
<1>1. ASSUME NEW a \in Adders PROVE adder'[a].at = "none" <=> adder'[a].by = Nobody
  <2>1. CASE adder'[a] = adder[a]
    BY <1>0, <2>1 DEF PartyInv
  <2>2. ASSUME NEW b \in Adders, Adding(b) PROVE adder'[a].at = "none" <=> adder'[a].by = Nobody
    BY <1>0, <2>2, AddingFrame DEF PartyInv
  <2>3. ASSUME NEW b \in Adders, NEW who \in Callers \cup {Deferred}, adder' = Begin(b, who)
        PROVE adder'[a].at = "none" <=> adder'[a].by = Nobody
    BY <1>0, <2>1, <2>3, Names DEF Begin, AdderTypes
  <2>4. ASSUME NEW b \in Adders, End(b) PROVE adder'[a].at = "none" <=> adder'[a].by = Nobody
    BY <1>0, <2>1, <2>4 DEF End, Resting, AdderTypes
  <2>5. ASSUME NEW c \in Controllers, Disconnect(c)
        PROVE adder'[a].at = "none" <=> adder'[a].by = Nobody
    BY <1>0, <2>1, <2>5, Names DEF Disconnect, AdderTypes
  <2>7. ASSUME NEW c \in Controllers, EagerEnd(c)
        PROVE adder'[a].at = "none" <=> adder'[a].by = Nobody
    BY <1>0, <2>1, <2>7, Names DEF EagerEnd, AdderTypes
  <2>6. \/ adder' = adder \/ \E b \in Adders : Adding(b) \/ End(b)
        \/ \E b \in Adders, who \in Callers \cup {Deferred} : adder' = Begin(b, who)
        \/ \E c \in Controllers : Disconnect(c) \/ EagerEnd(c)
    BY ZenonT(30), NextCases, Names
       DEF Listing, ListPrompts, ListFails,
       KilledByContext, PickPlaceholder, Calling, ExecuteReady, ExecuteTooEarly, ExecuteAgain, ExecuteSync,
       ExecuteDeferred, ForwardReturns, Ending, SpawnDone, SpawnFailed, StartPhaseB, ConnectEnd, DisconnectEnd,
       Open, Tiers, Close, Connect, DisconnectNone, HostClosed
  <2> QED
    BY <2>1, <2>2, <2>3, <2>4, <2>5, <2>6, <2>7
<1>2. ASSUME NEW c \in Controllers, status'[c] = "unbuilt"
      PROVE  /\ spawn'[c].state = "idle" /\ ~Busy(<<c, "spawn">>)'
             /\ \A k \in Callers : call'[c][k] = "none"
  <2>0. status[c] = "unbuilt"
    BY ZenonT(30), <1>0, <1>2 DEF Next, Adding, AddRefused, AddStart, AddFail, AddLink, Listing, ListPrompts,
       ListFails, KilledByContext, PickPlaceholder, Calling, ExecuteReady, ExecuteTooEarly, ExecuteAgain,
       ExecuteSync, ExecuteDeferred, ForwardReturns, Ending, SpawnDone, SpawnFailed, EagerEnd, StartPhaseB, ConnectEnd,
       DisconnectEnd, Open, Close, Connect, DisconnectNone, Disconnect, Command, HostClosed, userVars, UserTypes
  <2>1. /\ spawn[c].state = "idle" /\ adder[<<c, "spawn">>].at = "none"
        /\ \A k \in Callers : call[c][k] = "none"
    BY <1>0, <2>0 DEF PartyInv, Busy
  <2>2. SUFFICES /\ spawn'[c].state = "idle" /\ adder'[<<c, "spawn">>].at = "none"
                 /\ \A k \in Callers : call'[c][k] = "none"
    BY DEF Busy
  <2>3. ASSUME NEW a \in Adders, Adding(a)
        PROVE  /\ spawn'[c] = spawn[c] /\ adder'[<<c, "spawn">>] = adder[<<c, "spawn">>]
               /\ call'[c] = call[c]
    BY <2>1, <2>3, AddingFrame, Names
  <2>4. ASSUME NEW i \in Clients, Listing(i)
        PROVE  spawn' = spawn /\ adder' = adder /\ call' = call
    BY <2>4 DEF Listing, ListPrompts, ListFails, KilledByContext, spawnVars
  <2>5. ASSUME NEW d \in Controllers, NEW k \in Callers, PickPlaceholder(d, k) \/ Calling(d, k)
        PROVE  /\ spawn'[c] = spawn[c] /\ adder'[<<c, "spawn">>] = adder[<<c, "spawn">>]
               /\ call'[c] = call[c]
    <3>1. c # d
      BY <2>0, <2>1, <2>5 DEF PickPlaceholder, Calling, ExecuteReady, ExecuteTooEarly, ExecuteAgain,
         ExecuteSync, ExecuteDeferred, ForwardReturns, Runs
    <3>2. <<c, "spawn">> # <<d, "spawn">>
      BY <3>1
    <3>3. call'[c] = call[c] /\ spawn'[c] = spawn[c]
      BY <1>0, <2>5, <3>1 DEF PickPlaceholder, Calling, ExecuteReady, ExecuteTooEarly, ExecuteAgain,
         ExecuteSync, SyncStart, ExecuteDeferred, ForwardReturns, Returns, Spawning, Failed, SpawnTypes
    <3>4. adder' = adder \/ \E who : adder' = Begin(<<d, "spawn">>, who)
      BY <2>5 DEF PickPlaceholder, Calling, ExecuteReady, ExecuteTooEarly, ExecuteAgain,
         ExecuteSync, ExecuteDeferred, ForwardReturns
    <3>5. adder'[<<c, "spawn">>] = adder[<<c, "spawn">>]
      <4>1. <<c, "spawn">> \in Adders
        BY Names
      <4>2. \A who : Begin(<<d, "spawn">>, who)[<<c, "spawn">>] = adder[<<c, "spawn">>]
        BY <1>0, <3>2, <4>1, OthersStay
      <4> QED
        BY <3>4, <4>2
    <3> QED
      BY <3>3, <3>5
  <2>6. ASSUME NEW d \in Controllers, Ending(d)
        PROVE  /\ spawn'[c] = spawn[c] /\ adder'[<<c, "spawn">>] = adder[<<c, "spawn">>]
               /\ call'[c] = call[c]
    <3>1. CASE SpawnDone(d) \/ SpawnFailed(d)
      <4>1. c # d /\ <<c, "spawn">> # <<d, "spawn">>
        BY <2>1, <3>1 DEF SpawnDone, SpawnFailed
      <4>2. adder'[<<c, "spawn">>] = adder[<<c, "spawn">>]
        BY <1>0, <3>1, <4>1, Names, OthersStay DEF SpawnDone, SpawnFailed
      <4>3. call'[c] = call[c] /\ spawn'[c] = spawn[c]
        BY <1>0, <3>1, <4>1 DEF SpawnDone, SpawnFailed, Failed, Returns, SpawnTypes
      <4> QED
        BY <4>2, <4>3
    <3>2. CASE EagerEnd(d) \/ StartPhaseB(d) \/ ConnectEnd(d) \/ DisconnectEnd(d)
      <4>1. <<c, "spawn">> # <<d, "eager">> /\ <<c, "spawn">> # <<d, "user">>
        BY Names
      <4> QED
        BY <1>0, <3>2, <4>1, Names
           DEF EagerEnd, StartPhaseB, ConnectEnd, DisconnectEnd, End, AdderTypes, spawnVars
    <3> QED
      BY <2>6, <3>1, <3>2 DEF Ending
  <2>7. ASSUME NEW d \in Controllers, NEW tier \in Tiers, NEW hit \in BOOLEAN, Open(d, tier, hit)
        PROVE  /\ spawn'[c] = spawn[c] /\ adder'[<<c, "spawn">>] = adder[<<c, "spawn">>]
               /\ call'[c] = call[c]
    <3>1. c # d
      BY <1>0, <1>2, <2>7 DEF Open, UserTypes
    <3>2. <<c, "spawn">> # <<d, "spawn">> /\ <<c, "spawn">> # <<d, "eager">>
      BY <3>1
    <3>3. adder' = adder \/ \E w \in {"eager", "spawn"} : adder' = Begin(<<d, w>>, Deferred)
      BY <2>7 DEF Open, Tiers
    <3>4. adder'[<<c, "spawn">>] = adder[<<c, "spawn">>]
      BY <1>0, <3>2, <3>3, Names, OthersStay
    <3>5. call'[c] = call[c] /\ spawn'[c] = spawn[c]
      BY <1>0, <2>7, <3>1 DEF Open, Spawning, SpawnTypes
    <3> QED
      BY <3>4, <3>5
  <2>8. ASSUME NEW d \in Controllers, Close(d) \/ Connect(d) \/ DisconnectNone(d) \/ Disconnect(d)
        PROVE  /\ spawn'[c] = spawn[c] /\ adder'[<<c, "spawn">>] = adder[<<c, "spawn">>]
               /\ call'[c] = call[c]
    <3>1. <<c, "spawn">> # <<d, "user">>
      BY Names
    <3> QED
      BY <1>0, <2>8, <3>1, Names DEF Close, Connect, DisconnectNone, Disconnect, Begin, AdderTypes, spawnVars
  <2>9. ASSUME HostClosed PROVE spawn' = spawn /\ adder' = adder /\ call' = call
    BY <2>9 DEF HostClosed, spawnVars
  <2> QED
    BY NextCases, <2>1, <2>3, <2>4, <2>5, <2>6, <2>7, <2>8, <2>9
<1> QED
  BY <1>1, <1>2 DEF PartyInv

LEMMA BasicsStep ==
  ASSUME Basics, Next PROVE Basics'
BY TypesStep, MadeInvStep, PartyInvStep DEF Basics

-----------------------------------------------------------------------------
(* OneHandshake, one controller at a time.                                 *)

Handshake(c) ==
  /\ spawn[c].state = "inFlight" <=> adder[<<c, "spawn">>].at # "none"
  /\ \A k \in Callers : call[c][k] = "spawns" <=> adder[<<c, "spawn">>].by = k
  /\ lock[c] # Nobody => call[c][lock[c]] = "forwarded"

LEMMA HandshakeStep ==
  ASSUME Basics, OneHandshake, Next, NEW c \in Controllers PROVE Handshake(c)'
<1>. DEFINE a == <<c, "spawn">>
<1>0. /\ AdderTypes /\ SpawnTypes /\ UserTypes /\ PartyInv /\ Handshake(c)
      /\ a \in Adders /\ (adder[a].at = "none" <=> adder[a].by = Nobody)
      /\ lock[c] \in Callers \cup {Nobody}
  BY Names DEF Basics, Types, SpawnTypes, OneHandshake, Handshake, Busy, PartyInv
<1>1. ASSUME /\ spawn'[c] = spawn[c] /\ call'[c] = call[c] /\ lock'[c] = lock[c]
             /\ adder'[a].by = adder[a].by /\ (adder'[a].at = "none" <=> adder[a].at = "none")
      PROVE  Handshake(c)'
  BY <1>0, <1>1 DEF Handshake
<1>11. ASSUME NEW k \in Callers, NEW v, call' = [call EXCEPT ![c][k] = v], v # "spawns",
              call[c][k] # "spawns", lock[c] # k, lock' = lock, adder' = adder,
              spawn'[c].state = "inFlight" <=> spawn[c].state = "inFlight"
       PROVE  Handshake(c)'
  <2>1. call'[c][k] = v /\ \A j \in Callers \ {k} : call'[c][j] = call[c][j]
    BY <1>0, <1>11 DEF SpawnTypes
  <2>2. lock[c] # Nobody => call'[c][lock[c]] = "forwarded"
    BY <1>0, <1>11, <2>1 DEF Handshake
  <2>3. \A j \in Callers : call'[c][j] = "spawns" <=> adder[a].by = j
    BY <1>0, <1>11, <2>1 DEF Handshake
  <2> QED
    BY <1>0, <1>11, <2>2, <2>3 DEF Handshake
<1>2. ASSUME NEW b \in Adders, Adding(b) PROVE Handshake(c)'
  <2>1. CASE b = a
    BY <1>1, <1>2, <2>1, AddingFrame
  <2>2. CASE b # a
    BY <1>0, <1>1, <1>2, <2>2, AddingFrame
  <2> QED
    BY <2>1, <2>2
<1>3. ASSUME NEW i \in Clients, Listing(i) PROVE Handshake(c)'
  BY <1>1, <1>3 DEF Listing, ListPrompts, ListFails, KilledByContext, spawnVars
<1>4. ASSUME NEW d \in Controllers, NEW k \in Callers, PickPlaceholder(d, k) \/ Calling(d, k)
      PROVE Handshake(c)'
  <2>1. CASE d # c
    <3>1. /\ spawn'[c] = spawn[c] /\ call'[c] = call[c] /\ lock'[c] = lock[c]
      BY <1>0, <1>4, <2>1 DEF PickPlaceholder, Calling, ExecuteReady, ExecuteTooEarly, ExecuteAgain,
         ExecuteSync, SyncStart, ExecuteDeferred, ForwardReturns, Returns, Release, Spawning, Failed, SpawnTypes
    <3>2. adder' = adder \/ \E who : adder' = Begin(<<d, "spawn">>, who)
      BY <1>4 DEF PickPlaceholder, Calling, ExecuteReady, ExecuteTooEarly, ExecuteAgain,
         ExecuteSync, ExecuteDeferred, ForwardReturns
    <3>3. adder'[a] = adder[a]
      BY <1>0, <2>1, <3>2, Names, OthersStay
    <3> QED
      BY <1>1, <3>1, <3>3
  <2>2. CASE d = c
    <3>0. \A v : [call EXCEPT ![c][k] = v][c] = [call[c] EXCEPT ![k] = v]
      BY <1>0 DEF SpawnTypes
    <3>1. CASE PickPlaceholder(c, k)
      <4>1. call[c][k] = "none" /\ lock[c] # k
        BY <1>0, <3>1, Names DEF PickPlaceholder, Handshake
      <4> QED
        BY <1>11, <3>1, <4>1 DEF PickPlaceholder
    <3>2. CASE ExecuteReady(c, k) \/ ExecuteTooEarly(c, k)
      BY <1>11, <3>2, Names DEF ExecuteReady, ExecuteTooEarly, Runs, Returns
    <3>3. CASE ExecuteAgain(c, k)
      <4>1. spawn[c].state = "failed" /\ spawn'[c].state = "idle"
        BY <1>0, <3>3 DEF ExecuteAgain, SpawnTypes
      <4> QED
        BY <1>11, <3>3, <4>1, Names DEF ExecuteAgain, Runs
    <3>4. CASE ExecuteSync(c, k)
      <4>1. /\ call[c][k] \in {"picked", "again"} /\ lock[c] = Nobody /\ lock' = lock
            /\ call'[c] = [call[c] EXCEPT ![k] = "spawns"]
        BY <3>0, <3>4 DEF ExecuteSync, Runs
      <4>2. spawn[c].state = "idle" /\ spawn'[c].state = "inFlight"
        BY <1>0, <3>4 DEF ExecuteSync, SyncStart, Spawning, SpawnTypes
      <4>3. adder'[a].at = "check" /\ adder'[a].by = k
        BY <1>0, <3>4 DEF ExecuteSync, Begin, AdderTypes
      <4>4. adder[a].at = "none" /\ adder[a].by = Nobody
        BY <1>0, <4>2 DEF Handshake
      <4> QED
        BY <1>0, <4>1, <4>2, <4>3, <4>4, Names DEF Handshake, SpawnTypes
    <3>5. CASE ExecuteDeferred(c, k)
      <4>1. /\ call[c][k] \in {"picked", "again"} /\ lock[c] = Nobody /\ lock' = lock
            /\ call'[c] = [call[c] EXCEPT ![k] = "none"] /\ spawn[c].state = "idle"
        BY <3>0, <3>5 DEF ExecuteDeferred, Runs, Returns
      <4>2. \/ spawn'[c].state = "inFlight" /\ adder' = Begin(a, Deferred)
            \/ spawn'[c].state = "failed" /\ adder' = adder
        BY <1>0, <3>5 DEF ExecuteDeferred, Spawning, Failed, SpawnTypes
      <4>3. adder[a].at = "none" /\ adder[a].by = Nobody
        BY <1>0, <4>1 DEF Handshake
      <4>4. CASE spawn'[c].state = "inFlight" /\ adder' = Begin(a, Deferred)
        <5>1. adder'[a].at = "check" /\ adder'[a].by = Deferred
          BY <1>0, <4>4 DEF Begin, AdderTypes
        <5>2. \A j \in Callers : call'[c][j] # "spawns" /\ adder'[a].by # j
          BY <1>0, <4>1, <4>3, <5>1, Names DEF Handshake, SpawnTypes
        <5> QED
          BY <4>1, <4>4, <5>1, <5>2 DEF Handshake
      <4>5. CASE spawn'[c].state = "failed" /\ adder' = adder
        BY <1>11, <3>5, <4>1, <4>5, Names DEF ExecuteDeferred, Returns
      <4> QED
        BY <4>2, <4>4, <4>5
    <3>6. CASE ForwardReturns(c, k)
      <4>1. call[c][k] = "forwarded" /\ call'[c] = [call[c] EXCEPT ![k] = "none"]
        BY <3>0, <3>6 DEF ForwardReturns, Returns
      <4>2. spawn' = spawn /\ adder' = adder
        BY <3>6 DEF ForwardReturns
      <4>3. lock'[c] = IF lock[c] = k THEN Nobody ELSE lock[c]
        BY <1>0, <3>6 DEF ForwardReturns, Release, SpawnTypes
      <4>4. \A j \in Callers : call'[c][j] = IF j = k THEN "none" ELSE call[c][j]
        BY <1>0, <4>1 DEF SpawnTypes
      <4>5. lock'[c] # Nobody => call'[c][lock'[c]] = "forwarded"
        BY <1>0, <4>3, <4>4 DEF Handshake
      <4> QED
        BY <1>0, <4>1, <4>2, <4>4, <4>5 DEF Handshake
    <3> QED
      BY <1>4, <2>2, <3>1, <3>2, <3>3, <3>4, <3>5, <3>6 DEF Calling
  <2> QED
    BY <2>1, <2>2
<1>5. ASSUME NEW d \in Controllers, SpawnDone(d) \/ SpawnFailed(d) PROVE Handshake(c)'
  <2>0. <<d, "spawn">> \in Adders
    BY Names
  <2>. DEFINE k == adder[<<d, "spawn">>].by
  <2>1. k = Deferred \/ k \in Callers
    BY <1>0, <1>5, <2>0 DEF SpawnDone, SpawnFailed, AdderTypes, PartyInv, Parties
  <2>2. CASE d # c
    <3>1. adder'[a] = adder[a]
      BY <1>0, <1>5, <2>2, Names, OthersStay DEF SpawnDone, SpawnFailed
    <3>2. /\ spawn'[c] = spawn[c] /\ call'[c] = call[c] /\ lock'[c] = lock[c]
      BY <1>0, <1>5, <2>2 DEF SpawnDone, SpawnFailed, Failed, Returns, SpawnTypes
    <3> QED
      BY <1>1, <3>1, <3>2
  <2>3. CASE d = c
    <3>0. \A v : [call EXCEPT ![c][k] = v][c] = [call[c] EXCEPT ![k] = v]
      BY <1>0 DEF SpawnTypes
    <3>1. adder'[a].at = "none" /\ adder'[a].by = Nobody
      BY <1>0, <1>5, <2>3 DEF SpawnDone, SpawnFailed, End, Resting, AdderTypes
    <3>2. spawn'[c].state # "inFlight"
      BY <1>0, <1>5, <2>3 DEF SpawnDone, SpawnFailed, Failed, SpawnTypes
    <3>3. CASE k = Deferred
      <4>1. call' = call /\ lock' = lock
        BY <1>5, <2>3, <3>3 DEF SpawnDone, SpawnFailed
      <4> QED
        BY <1>0, <2>3, <3>1, <3>2, <3>3, <4>1, Names DEF Handshake
    <3>4. CASE k \in Callers
      <4>1. call[c][k] = "spawns" /\ \A j \in Callers \ {k} : call[c][j] # "spawns"
        BY <1>0, <2>3, <3>4 DEF Handshake
      <4>2. \/ call'[c] = [call[c] EXCEPT ![k] = "forwarded"] /\ lock'[c] = k
            \/ call'[c] = [call[c] EXCEPT ![k] = "none"] /\ lock' = lock
        <5>1. CASE SpawnDone(c)
          <6>1. call' = [call EXCEPT ![c][k] = "forwarded"] /\ lock' = [lock EXCEPT ![c] = k]
            BY <2>3, <3>4, <5>1, Names DEF SpawnDone
          <6> QED
            BY <1>0, <3>0, <6>1 DEF SpawnTypes
        <5>2. CASE SpawnFailed(c)
          <6>1. call' = [call EXCEPT ![c][k] = "none"] /\ lock' = lock
            BY <2>3, <3>4, <5>2, Names DEF SpawnFailed, Returns
          <6> QED
            BY <3>0, <6>1
        <5> QED
          BY <1>5, <2>3, <5>1, <5>2
      <4>5. call[c] \in [Callers -> Calls]
        BY <1>0 DEF SpawnTypes
      <4>6. \A j \in Callers \ {k} : call'[c][j] = call[c][j]
        BY <3>4, <4>2, <4>5
      <4>7. \/ call'[c][k] = "forwarded" /\ lock'[c] = k
            \/ call'[c][k] = "none" /\ lock'[c] = lock[c]
        BY <3>4, <4>2, <4>5
      <4>3. \A j \in Callers : call'[c][j] # "spawns"
        BY <4>1, <4>6, <4>7
      <4>4. lock'[c] # Nobody => call'[c][lock'[c]] = "forwarded"
        BY <1>0, <4>1, <4>6, <4>7 DEF Handshake
      <4> QED
        BY <3>1, <3>2, <4>3, <4>4, Names DEF Handshake
    <3> QED
      BY <2>1, <3>3, <3>4
  <2> QED
    BY <2>2, <2>3
<1>6. ASSUME NEW d \in Controllers, EagerEnd(d) \/ StartPhaseB(d) \/ ConnectEnd(d) \/ DisconnectEnd(d)
      PROVE Handshake(c)'
  <2>1. adder'[a] = adder[a]
    <3>1. CASE EagerEnd(d)
      BY <1>0, <3>1, Names DEF EagerEnd, AdderTypes
    <3>2. CASE ~EagerEnd(d)
      BY <1>0, <1>6, <3>2, Names, OthersStay DEF StartPhaseB, ConnectEnd, DisconnectEnd
    <3> QED
      BY <3>1, <3>2
  <2> QED
    BY <1>1, <1>6, <2>1 DEF EagerEnd, StartPhaseB, ConnectEnd, DisconnectEnd, spawnVars
<1>7. ASSUME NEW d \in Controllers, NEW tier \in Tiers, NEW hit \in BOOLEAN, Open(d, tier, hit)
      PROVE Handshake(c)'
  <2>0. call' = call /\ lock' = lock
    BY <1>7 DEF Open
  <2>1. CASE d = c /\ tier = "background"
    <3>1. adder[a].at = "none" /\ \A k \in Callers : call[c][k] = "none"
      BY <1>0, <1>7, <2>1 DEF Open, PartyInv, Busy
    <3>2. adder'[a].at = "check" /\ adder'[a].by = Deferred
      BY <1>0, <1>7, <2>1 DEF Open, Begin, AdderTypes
    <3>3. spawn'[c].state = "inFlight"
      BY <1>0, <1>7, <2>1 DEF Open, Spawning, SpawnTypes
    <3> QED
      BY <1>0, <2>0, <3>1, <3>2, <3>3, Names DEF Handshake
  <2>2. CASE ~(d = c /\ tier = "background")
    <3>1. spawn'[c] = spawn[c]
      BY <1>0, <1>7, <2>2 DEF Open, Spawning, SpawnTypes
    <3>2. \/ adder' = adder \/ adder' = Begin(<<d, "eager">>, Deferred)
          \/ d # c /\ adder' = Begin(<<d, "spawn">>, Deferred)
      BY <1>7, <2>2 DEF Open, Tiers
    <3>3. \A w \in Ways : a # <<d, w>> => Begin(<<d, w>>, Deferred)[a] = adder[a]
      BY <1>0, OthersStay
    <3>4. a # <<d, "eager">> /\ (d # c => a # <<d, "spawn">>) /\ {"eager", "spawn"} \subseteq Ways
      BY Names
    <3>5. adder'[a] = adder[a]
      BY <3>2, <3>3, <3>4
    <3> QED
      BY <1>1, <2>0, <3>1, <3>5
  <2> QED
    BY <2>1, <2>2
<1>8. ASSUME NEW d \in Controllers, Close(d) \/ Connect(d) \/ DisconnectNone(d) PROVE Handshake(c)'
  <2>0. a # <<d, "user">>
    BY Names
  <2>1. adder'[a] = adder[a]
    <3>1. adder' = adder \/ adder' = Begin(<<d, "user">>, Deferred)
      BY <1>8 DEF Close, Connect, DisconnectNone
    <3> QED
      BY <1>0, <2>0, <3>1, OthersStay
  <2> QED
    BY <1>1, <1>8, <2>1 DEF Close, Connect, DisconnectNone, spawnVars
<1>9. ASSUME NEW d \in Controllers, Disconnect(d) PROVE Handshake(c)'
  <2>1. adder'[a] = adder[a]
    BY <1>0, <1>9, Names DEF Disconnect, AdderTypes
  <2> QED
    BY <1>1, <1>9, <2>1 DEF Disconnect, spawnVars
<1>10. ASSUME HostClosed PROVE Handshake(c)'
  BY <1>1, <1>10 DEF HostClosed, spawnVars
<1> QED
  BY NextCases, <1>2, <1>3, <1>4, <1>5, <1>6, <1>7, <1>8, <1>9, <1>10 DEF Ending

LEMMA OneHandshakeStep ==
  ASSUME Basics, OneHandshake, Next PROVE OneHandshake'
BY HandshakeStep DEF Handshake, OneHandshake, Busy

-----------------------------------------------------------------------------
(* What Close leaves.                                                      *)

LEMMA NoGhostPromptsStep ==
  ASSUME Basics, NoGhostPrompts, Next PROVE NoGhostPrompts'
<1>1. ASSUME NEW a \in Adders, AddLink(a) PROVE NoGhostPrompts'
  <2>1. clients \in Seq(Clients) /\ adder[a].c \in Clients
    BY <1>1 DEF Basics, Types, HostTypes, AdderTypes, AddLink, MadeInv, Clients
  <2>2. Append(clients, adder[a].c) # <<>>
    BY <2>1
  <2> QED
    BY <1>1, <2>2 DEF AddLink, NoGhostPrompts
<1>2. ASSUME NEW a \in Adders, Adding(a), ~AddLink(a) PROVE NoGhostPrompts'
  BY <1>2 DEF Adding, AddRefused, AddStart, AddFail, hostVars, NoGhostPrompts
<1>3. ASSUME NEW i \in Clients, Listing(i) PROVE NoGhostPrompts'
  BY <1>3 DEF Listing, ListPrompts, Registered, ListFails, KilledByContext, NoGhostPrompts
<1>4. ASSUME NEW c \in Controllers, NEW k \in Callers, PickPlaceholder(c, k) \/ Calling(c, k)
      PROVE NoGhostPrompts'
  BY <1>4 DEF PickPlaceholder, Calling, ExecuteReady, ExecuteTooEarly, ExecuteAgain, ExecuteSync,
     ExecuteDeferred, ForwardReturns, hostVars, NoGhostPrompts
<1>5. ASSUME NEW c \in Controllers, Ending(c) PROVE NoGhostPrompts'
  BY <1>5 DEF Ending, SpawnDone, SpawnFailed, EagerEnd, StartPhaseB, ConnectEnd, DisconnectEnd, hostVars,
     NoGhostPrompts
<1>6. ASSUME NEW c \in Controllers, \/ \E tier \in Tiers, hit \in BOOLEAN : Open(c, tier, hit)
                                    \/ Close(c) \/ Connect(c) \/ DisconnectNone(c) \/ Disconnect(c)
      PROVE NoGhostPrompts'
  BY <1>6 DEF Open, Close, Connect, DisconnectNone, Disconnect, hostVars, NoGhostPrompts
<1>7. ASSUME HostClosed PROVE NoGhostPrompts'
  BY <1>7 DEF HostClosed, NoGhostPrompts
<1> QED
  BY NextCases, <1>1, <1>2, <1>3, <1>4, <1>5, <1>6, <1>7

(* On a closed host no spawn that Close waits for begins.                  *)
LEMMA NoSpawnStep ==
  ASSUME Basics, CloseIsFinal, Next, host' = "closed" PROVE ~DeferredRuns'
<1>. DEFINE Spawns(d) == adder[<<d, "spawn">>].at # "none" /\ adder[<<d, "spawn">>].by = Deferred
<1>0. AdderTypes /\ PartyInv
  BY DEF Basics, Types
<1>1. SUFFICES ASSUME NEW c \in Controllers PROVE ~Spawns(c)'
  BY DEF DeferredRuns, Busy
<1>. DEFINE a == <<c, "spawn">>
<1>2. a \in Adders
  BY Names
<1>3. CASE HostClosed
  BY <1>3 DEF HostClosed, Waited, DeferredRuns, Busy
<1>4. host = "closed" \/ HostClosed
  BY ZenonT(30) DEF Next, Adding, AddRefused, AddStart, AddFail, AddLink, Listing, ListPrompts, ListFails,
     KilledByContext, PickPlaceholder, Calling, ExecuteReady, ExecuteTooEarly, ExecuteAgain, ExecuteSync,
     ExecuteDeferred, ForwardReturns, Ending, SpawnDone, SpawnFailed, EagerEnd, StartPhaseB, ConnectEnd, DisconnectEnd,
     Open, Close, Connect, DisconnectNone, Disconnect, hostVars
<1>5. SUFFICES ASSUME host = "closed" PROVE ~Spawns(c)'
  BY <1>3, <1>4
<1>6. ~Spawns(c)
  BY <1>5 DEF CloseIsFinal, DeferredRuns, Busy
<1>7. ASSUME adder'[a] = adder[a] PROVE ~Spawns(c)'
  BY <1>6, <1>7
<1>8. ASSUME NEW b \in Adders, Adding(b) PROVE ~Spawns(c)'
  BY <1>2, <1>6, <1>8, AddingFrame
<1>9. ASSUME NEW b \in Adders, End(b) PROVE ~Spawns(c)'
  <2>1. CASE a = b
    BY <1>0, <1>2, <1>9, <2>1 DEF End, Resting, AdderTypes
  <2>2. CASE a # b
    BY <1>0, <1>2, <1>7, <1>9, <2>2, OthersStay
  <2> QED
    BY <2>1, <2>2
<1>10. ASSUME NEW d \in Controllers, NEW k \in Callers, adder' = Begin(<<d, "spawn">>, k) PROVE ~Spawns(c)'
  <2>1. CASE c = d
    BY <1>0, <1>2, <1>10, <2>1, Names DEF Begin, AdderTypes
  <2>2. CASE c # d
    BY <1>0, <1>2, <1>7, <1>10, <2>2, Names, OthersStay
  <2> QED
    BY <2>1, <2>2
<1>11. ASSUME NEW d \in Controllers, Connect(d) PROVE ~Spawns(c)'
  BY <1>0, <1>2, <1>7, <1>11, Names, OthersStay DEF Connect
<1>12. ASSUME NEW d \in Controllers, Disconnect(d) PROVE ~Spawns(c)'
  BY <1>0, <1>2, <1>7, <1>12, Names DEF Disconnect, AdderTypes
<1>14. ASSUME NEW d \in Controllers, EagerEnd(d) PROVE ~Spawns(c)'
  BY <1>0, <1>2, <1>7, <1>14, Names DEF EagerEnd, AdderTypes
<1>13. \/ adder' = adder \/ \E b \in Adders : Adding(b) \/ End(b)
       \/ \E d \in Controllers, k \in Callers : adder' = Begin(<<d, "spawn">>, k)
       \/ \E d \in Controllers : Connect(d) \/ Disconnect(d) \/ EagerEnd(d)
  <2>1. ASSUME NEW d \in Controllers, NEW k \in Callers, PickPlaceholder(d, k) \/ Calling(d, k)
        PROVE  adder' = adder \/ adder' = Begin(<<d, "spawn">>, k)
    BY <1>5, <2>1 DEF PickPlaceholder, Calling, ExecuteReady, ExecuteTooEarly, ExecuteAgain, ExecuteSync,
       ExecuteDeferred, MaySpawn, ForwardReturns
  <2>2. ASSUME NEW d \in Controllers, Ending(d) PROVE EagerEnd(d) \/ \E b \in Adders : End(b)
    BY <2>2, Names DEF Ending, SpawnDone, SpawnFailed, StartPhaseB, ConnectEnd, DisconnectEnd
  <2>3. \A d \in Controllers, tier \in Tiers, hit \in BOOLEAN : ~Open(d, tier, hit)
    BY <1>5 DEF Open
  <2> QED
    BY NextCases, <2>1, <2>2, <2>3
       DEF Listing, ListPrompts, ListFails, KilledByContext, Close, DisconnectNone, HostClosed
<1> QED
  BY <1>7, <1>8, <1>9, <1>10, <1>11, <1>12, <1>13, <1>14

(* What changes a client makes it, kills it, or leaves its process alone.  *)
LEMMA ProcessStep ==
  ASSUME Basics, Next, NEW i \in Clients
  PROVE  \/ client'[i].process \in {client[i].process, "dead"} /\ client'[i].way = client[i].way
         \/ i > made /\ \E a \in Adders : AddStart(a)
<1>0. HostTypes /\ AdderTypes /\ MadeInv
  BY DEF Basics, Types
<1>. DEFINE Kept == client'[i].process \in {client[i].process, "dead"} /\ client'[i].way = client[i].way
<1>1. ASSUME NEW j \in Clients, client' = Die(j) PROVE Kept
  BY <1>0, <1>1 DEF Die, HostTypes, Procs
<1>2. ASSUME NEW j \in Clients, NEW v, client' = [client EXCEPT ![j].listers = v] PROVE Kept
  BY <1>0, <1>2 DEF HostTypes, Procs
<1>3. ASSUME NEW j \in Clients, NEW v, client' = [Die(j) EXCEPT ![j].listers = v] PROVE Kept
  <2>1. Die(j) \in [Clients -> Procs]
    BY <1>0 DEF Die, HostTypes, Procs
  <2>2. client'[i].process = Die(j)[i].process /\ client'[i].way = Die(j)[i].way
    BY <1>3, <2>1 DEF Procs
  <2> QED
    BY <1>0, <2>2 DEF Die, HostTypes, Procs
<1>4. ASSUME NEW a \in Adders, AddStart(a) PROVE Kept \/ i > made
  <2>1. CASE i = made'
    BY <1>0, <1>4, <2>1 DEF AddStart, HostTypes, Clients
  <2>2. CASE i # made'
    BY <1>0, <1>4, <2>2 DEF AddStart, HostTypes
  <2> QED
    BY <2>1, <2>2
<1>5. ASSUME NEW a \in Adders, Adding(a), ~AddStart(a) PROVE Kept
  <2>1. adder[a].at \in {"handshake"} => adder[a].c \in Clients
    BY <1>0 DEF MadeInv, HostTypes, Clients
  <2>2. CASE AddRefused(a)
    BY <2>2 DEF AddRefused, hostVars
  <2>3. CASE AddFail(a)
    BY <1>1, <2>1, <2>3 DEF AddFail
  <2>4. CASE AddLink(a)
    BY <1>1, <1>2, <2>1, <2>4 DEF AddLink
  <2> QED
    BY <1>5, <2>2, <2>3, <2>4 DEF Adding
<1>6. ASSUME NEW j \in Clients, Listing(j) PROVE Kept
  <2>1. ASSUME NEW who \in client[j].listers, ListPrompts(j, who) \/ ListFails(j, who) PROVE Kept
    <3>1. client' = [client EXCEPT ![j].listers = client[j].listers \ {who}]
      BY <1>0, <2>1 DEF ListPrompts, ListFails, Stops, HostTypes
    <3> QED
      BY <1>2, <3>1
  <2>2. CASE KilledByContext(j)
    <3>1. Die(j) \in [Clients -> Procs]
      BY <1>0 DEF Die, HostTypes, Procs
    <3>2. client' = [Die(j) EXCEPT ![j].listers = Die(j)[j].listers \ {Own}]
      BY <2>2, <3>1 DEF KilledByContext
    <3> QED
      BY <1>3, <3>2
  <2> QED
    BY <1>6, <2>1, <2>2 DEF Listing
<1>7. ASSUME NEW c \in Controllers, NEW k \in Callers, PickPlaceholder(c, k) \/ Calling(c, k) PROVE Kept
  BY <1>7 DEF PickPlaceholder, Calling, ExecuteReady, ExecuteTooEarly, ExecuteAgain, ExecuteSync,
     ExecuteDeferred, ForwardReturns, hostVars
<1>8. ASSUME NEW c \in Controllers, Ending(c) PROVE Kept
  <2>1. \A w \in Ways : adder[<<c, w>>].at \in {"done", "removed"} => adder[<<c, w>>].c \in Clients
    BY <1>0, Names DEF MadeInv, HostTypes, Clients
  <2>2. CASE SpawnDone(c) \/ SpawnFailed(c) \/ ConnectEnd(c)
    BY <2>2 DEF SpawnDone, SpawnFailed, ConnectEnd, hostVars
  <2>3. CASE EagerEnd(c)
    <3>. DEFINE j == adder[<<c, "eager">>].c
    <3>1. CASE adder[<<c, "eager">>].at = "done"
      <4>1. j \in Clients /\ Die(j) \in [Clients -> Procs]
        BY <1>0, <2>1, <3>1, Names DEF Die, HostTypes, Procs
      <4>2. client' = [Die(j) EXCEPT ![j].listers = Die(j)[j].listers \ {Own}]
        BY <2>3, <3>1, <4>1 DEF EagerEnd
      <4> QED
        BY <1>3, <4>1, <4>2
    <3>2. CASE adder[<<c, "eager">>].at # "done"
      BY <2>3, <3>2 DEF EagerEnd
    <3> QED
      BY <3>1, <3>2
  <2>4. CASE DisconnectEnd(c)
    BY <1>1, <2>1, <2>4, Names DEF DisconnectEnd
  <2>5. CASE StartPhaseB(c)
    <3>1. client[i] \in Procs
      BY <1>0 DEF HostTypes
    <3> QED
      BY <2>5, <3>1 DEF StartPhaseB, Procs
  <2> QED
    BY <1>8, <2>2, <2>3, <2>4, <2>5 DEF Ending
<1>9. ASSUME NEW c \in Controllers, \/ \E tier \in Tiers, hit \in BOOLEAN : Open(c, tier, hit)
                                    \/ Close(c) \/ Connect(c) \/ DisconnectNone(c) \/ Disconnect(c)
      PROVE Kept
  BY <1>9 DEF Open, Close, Connect, DisconnectNone, Disconnect, hostVars
<1>10. ASSUME HostClosed PROVE Kept
  BY <1>0, <1>10 DEF HostClosed, Die, HostTypes, Procs
<1> QED
  BY NextCases, <1>4, <1>5, <1>6, <1>7, <1>8, <1>9, <1>10

LEMMA CloseIsFinalStep ==
  ASSUME Basics, CloseIsFinal, Next PROVE CloseIsFinal'
<1>0. HostTypes /\ HostTypes' /\ MadeInv
  BY HostTypesStep DEF Basics, Types
<1>1. SUFFICES ASSUME host' = "closed", NEW i \in Range(clients') PROVE client'[i].process # "live"
  BY NoSpawnStep DEF CloseIsFinal
<1>2. CASE HostClosed
  <2>1. clients' = clients /\ i \in Clients
    BY <1>0, <1>2 DEF HostClosed, HostTypes, Range
  <2> QED
    BY <1>0, <1>1, <1>2, <2>1 DEF HostClosed, Die, HostTypes, Procs
<1>3. CASE host = "closed" /\ ~HostClosed
  <2>1. clients' = clients \/ (clients # <<>> /\ clients' = Tail(clients))
    <3>1. \A a \in Adders : AddLink(a) => clients' = clients
      BY <1>3 DEF AddLink, StillOpen
    <3> QED
      BY <3>1, ListStep
  <2>2. i \in Range(clients) /\ i \in Clients /\ i <= made
    <3>1. PICK x \in 1..Len(clients') : i = clients'[x]
      BY <1>0, <1>1 DEF Range, HostTypes
    <3>2. PICK y \in 1..Len(clients) : i = clients[y]
      <4>1. CASE clients' = clients
        BY <3>1, <4>1
      <4>2. CASE clients # <<>> /\ clients' = Tail(clients)
        <5>1. x + 1 \in 1..Len(clients) /\ clients'[x] = clients[x + 1]
          BY <1>0, <3>1, <4>2 DEF HostTypes
        <5> QED
          BY <3>1, <5>1
      <4> QED
        BY <2>1, <4>1, <4>2
    <3> QED
      BY <1>0, <3>2 DEF Range, HostTypes, MadeInv
  <2>3. client[i].process # "live"
    BY <1>3, <2>2 DEF CloseIsFinal
  <2>4. ~(i > made)
    BY <1>0, <2>2 DEF HostTypes, Clients
  <2> QED
    BY <2>2, <2>3, <2>4, ProcessStep
<1>4. host = "closed" \/ HostClosed
  BY ZenonT(30), <1>1 DEF Next, Adding, AddRefused, AddStart, AddFail, AddLink, Listing, ListPrompts, ListFails,
     KilledByContext, PickPlaceholder, Calling, ExecuteReady, ExecuteTooEarly, ExecuteAgain, ExecuteSync,
     ExecuteDeferred, ForwardReturns, Ending, SpawnDone, SpawnFailed, EagerEnd, StartPhaseB, ConnectEnd, DisconnectEnd,
     Open, Close, Connect, DisconnectNone, Disconnect, hostVars
<1> QED
  BY <1>2, <1>3, <1>4

-----------------------------------------------------------------------------

LEMMA Stutter ==
  ASSUME IInv, UNCHANGED vars PROVE IInv'
<1>0. /\ UNCHANGED <<host, clients, prompts, made, client>> /\ UNCHANGED <<cached, spawn, lock, call>>
      /\ UNCHANGED <<status, tools, adder>>
  BY DEF vars, hostVars, spawnVars, userVars
<1>1. Types'
  BY <1>0 DEF IInv, Basics, Types, HostTypes, AdderTypes, SpawnTypes, UserTypes
<1>2. MadeInv'
  BY <1>0 DEF IInv, Basics, MadeInv
<1>3. PartyInv'
  <2>1. adder' = adder /\ status' = status /\ spawn' = spawn /\ call' = call
    BY <1>0
  <2> QED
    BY <2>1 DEF IInv, Basics, PartyInv, Busy
<1>4. OneHandshake'
  <2>1. adder' = adder /\ lock' = lock /\ spawn' = spawn /\ call' = call
    BY <1>0
  <2>2. ASSUME NEW c \in Controllers PROVE Handshake(c)'
    <3>1. Handshake(c)
      BY DEF IInv, OneHandshake, Handshake, Busy
    <3> QED
      BY <2>1, <3>1 DEF Handshake
  <2> QED
    BY <2>2 DEF Handshake, OneHandshake, Busy
<1>5. NoGhostPrompts' /\ CloseIsFinal'
  BY <1>0 DEF IInv, NoGhostPrompts, CloseIsFinal, DeferredRuns, Busy
<1> QED
  BY <1>1, <1>2, <1>3, <1>4, <1>5 DEF IInv, Basics

(* IInv is an inductive invariant of the host.                             *)
THEOREM Inductive == Spec => []IInv
<1>1. IInv /\ [Next]_vars => IInv'
  BY Stutter, BasicsStep, OneHandshakeStep, NoGhostPromptsStep, CloseIsFinalStep DEF IInv
<1> QED
  BY InitIInv, <1>1, PTL DEF Spec

(* The variables keep their types, and a client is made once.              *)
THEOREM TypeCorrect == Spec => []TypeOK
<1>1. IInv => TypeOK
  <2> SUFFICES ASSUME IInv PROVE TypeOK
    OBVIOUS
  <2>0. HostTypes /\ AdderTypes /\ SpawnTypes /\ MadeInv
    BY DEF IInv, Basics, Types
  <2>1. Range(clients) \subseteq 1..made /\ prompts \subseteq 1..made
    BY <2>0 DEF Range, HostTypes, MadeInv, Clients
  <2> QED
    BY <2>0, <2>1 DEF TypeOK, HostTypes, SpawnTypes, MadeInv, States
<1> QED
  BY Inductive, <1>1, PTL

(* A lazySpawn runs one handshake at a time, and the call that started it  *)
(* is the one that waits for it, whatever the user and the other           *)
(* controllers of the host do.                                             *)
THEOREM OneHandshakeAtATime == Spec => []OneHandshake
<1>1. IInv => OneHandshake
  BY DEF IInv
<1> QED
  BY Inductive, <1>1, PTL

(* When Close has returned no spawn runs that it waits for, no child       *)
(* process of the list lives, and no prompt is listed without a server.    *)
THEOREM CloseLeavesNothing == Spec => []NothingIsLeft
<1>1. IInv => NothingIsLeft
  BY DEF IInv, NothingIsLeft
<1> QED
  BY Inductive, <1>1, PTL

-----------------------------------------------------------------------------
(* The tools of the server.                                                *)

(* A client is entered in the list once, and leaves it for good: who is at *)
(* its handshake, or has taken it out, has it for himself.                 *)
Apart ==
  /\ \A x, y \in 1..Len(clients) : clients[x] = clients[y] => x = y
  /\ \A a \in Adders : adder[a].at \in {"handshake", "removed"} => adder[a].c \notin Range(clients)
  /\ \A a, b \in Adders :
       a # b /\ adder[a].at = "handshake" /\ adder[b].at \in {"handshake", "removed"}
         => adder[a].c # adder[b].c

EagerWay ==
  \A c \in Controllers : LET a == <<c, "eager">>
                         IN adder[a].at \in {"handshake", "done"} => client[adder[a].c].way = "eager"

(* What Host.Add returns, and what a registry has, is in the list, or one  *)
(* knows who took it out.                                                  *)
Returned ==
  \A a \in Adders : adder[a].at = "done" =>
    adder[a].c \in Range(clients) \/ <<a[1], adder[a].c>> \in crossed

Accounted ==
  \A c \in Controllers : tools[c] \in Clients =>
    tools[c] \in Range(clients) \/ Leaving(c) \/ <<c, tools[c]>> \in crossed

Alive ==
  host = "open" =>
    \A i \in Range(clients) : client[i].process # "dead" \/ client[i].way = "eager"

RInv == Basics /\ Apart /\ EagerWay /\ Returned /\ Accounted /\ Alive

(* What a list holds when one is entered at its end, or its head leaves.   *)
LEMMA Appended ==
  ASSUME NEW S, NEW s \in Seq(S), NEW e \in S
  PROVE  Range(Append(s, e)) = Range(s) \cup {e}
<1>. DEFINE t == Append(s, e)
<1>1. /\ t \in Seq(S) /\ Len(t) = Len(s) + 1 /\ t[Len(s) + 1] = e
      /\ \A x \in 1..Len(s) : t[x] = s[x]
  OBVIOUS
<1>2. DOMAIN s = 1..Len(s) /\ DOMAIN t = 1..(Len(s) + 1) /\ Len(s) \in Nat
  BY <1>1
<1> HIDE DEF t
<1>3. Range(t) \subseteq Range(s) \cup {e}
  <2> SUFFICES ASSUME NEW x \in 1..(Len(s) + 1) PROVE t[x] \in Range(s) \cup {e}
    BY <1>2 DEF Range
  <2> QED
    BY <1>1, <1>2 DEF Range
<1>4. Range(s) \cup {e} \subseteq Range(t)
  BY <1>1, <1>2 DEF Range
<1> QED
  BY <1>3, <1>4 DEF t

LEMMA Tailed ==
  ASSUME NEW S, NEW s \in Seq(S), s # <<>>
  PROVE  Range(s) = Range(Tail(s)) \cup {Head(s)}
<1>. DEFINE t == Tail(s)
<1>1. /\ t \in Seq(S) /\ Len(t) = Len(s) - 1 /\ Head(s) = s[1] /\ Len(s) \in Nat \ {0}
      /\ \A x \in 1..(Len(s) - 1) : t[x] = s[x + 1]
  OBVIOUS
<1>2. DOMAIN s = 1..Len(s) /\ DOMAIN t = 1..(Len(s) - 1)
  BY <1>1
<1> HIDE DEF t
<1>3. Range(t) \cup {Head(s)} \subseteq Range(s)
  <2>1. \A x \in 1..(Len(s) - 1) : x + 1 \in 1..Len(s)
    BY <1>1
  <2> QED
    BY <1>1, <1>2, <2>1 DEF Range
<1>4. Range(s) \subseteq Range(t) \cup {Head(s)}
  <2> SUFFICES ASSUME NEW x \in 1..Len(s) PROVE s[x] \in Range(t) \cup {Head(s)}
    BY <1>2 DEF Range
  <2>1. CASE x = 1
    BY <1>1, <2>1
  <2>2. CASE x # 1
    <3>1. x - 1 \in 1..(Len(s) - 1) /\ t[x - 1] = s[x]
      BY <1>1, <2>2
    <3> QED
      BY <1>2, <3>1 DEF Range
  <2> QED
    BY <2>1, <2>2
<1> QED
  BY <1>3, <1>4 DEF t

(* Nearly every step takes somebody out of Host.Add or leaves him there,   *)
(* and touches neither list.                                               *)
LEMMA Quiet ==
  ASSUME Basics, Next, \A a \in Adders : ~AddStart(a) /\ ~AddLink(a),
         \A c \in Controllers : ~Disconnect(c)
  PROVE  /\ clients' = clients /\ crossed' = crossed
         /\ \A a \in Adders :
              adder'[a] = adder[a] \/ adder'[a].at \notin {"handshake", "done", "removed"}
<1>. DEFINE Still == \A a \in Adders :
              adder'[a] = adder[a] \/ adder'[a].at \notin {"handshake", "done", "removed"}
<1>0. AdderTypes
  BY DEF Basics, Types
<1>2. ASSUME NEW a \in Adders, End(a) PROVE Still
  BY <1>0, <1>2 DEF End, Resting, AdderTypes
<1>3. ASSUME NEW a \in Adders, NEW who, adder' = Begin(a, who) PROVE Still
  BY <1>0, <1>3 DEF Begin, AdderTypes
<1>4. ASSUME NEW a \in Adders, Adding(a) PROVE clients' = clients /\ crossed' = crossed /\ Still
  <2>1. AddRefused(a) \/ AddFail(a)
    BY <1>4 DEF Adding
  <2>2. Goto(a, "failed")
    BY <2>1 DEF AddRefused, AddFail
  <2> QED
    BY <1>0, <2>1, <2>2 DEF AddRefused, AddFail, Goto, hostVars, userVars, AdderTypes
<1>5. ASSUME NEW i \in Clients, Listing(i) PROVE clients' = clients /\ crossed' = crossed /\ Still
  BY <1>5 DEF Listing, ListPrompts, ListFails, KilledByContext, userVars
<1>6. ASSUME NEW c \in Controllers, NEW k \in Callers, PickPlaceholder(c, k) \/ Calling(c, k)
      PROVE clients' = clients /\ crossed' = crossed /\ Still
  <2>1. adder' = adder \/ \E who : adder' = Begin(<<c, "spawn">>, who)
    BY <1>6 DEF PickPlaceholder, Calling, ExecuteReady, ExecuteTooEarly, ExecuteAgain, ExecuteSync,
       ExecuteDeferred, ForwardReturns
  <2>2. Still
    BY <1>3, <2>1, Names
  <2> QED
    BY <1>6, <2>2 DEF PickPlaceholder, Calling, ExecuteReady, ExecuteTooEarly, ExecuteAgain, ExecuteSync,
       ExecuteDeferred, ForwardReturns, hostVars, userVars
<1>7. ASSUME NEW c \in Controllers, Ending(c) PROVE clients' = clients /\ crossed' = crossed /\ Still
  <2>1. CASE EagerEnd(c)
    BY <1>0, <2>1, Names DEF EagerEnd, userVars, AdderTypes
  <2>2. CASE ~EagerEnd(c)
    <3>1. \E a \in Adders : End(a)
      BY <1>7, <2>2, Names DEF Ending, SpawnDone, SpawnFailed, StartPhaseB, ConnectEnd, DisconnectEnd
    <3> QED
      BY <1>2, <1>7, <2>2, <3>1
         DEF Ending, SpawnDone, SpawnFailed, StartPhaseB, ConnectEnd, DisconnectEnd, hostVars, userVars
  <2> QED
    BY <2>1, <2>2
<1>8. ASSUME NEW c \in Controllers, NEW tier \in Tiers, NEW hit \in BOOLEAN, Open(c, tier, hit)
      PROVE clients' = clients /\ crossed' = crossed /\ Still
  <2>1. adder' = adder \/ \E w \in {"eager", "spawn"} : adder' = Begin(<<c, w>>, Deferred)
    BY <1>8 DEF Open, Tiers
  <2>2. Still
    BY <1>3, <2>1, Names
  <2> QED
    BY <1>8, <2>2 DEF Open, hostVars
<1>9. ASSUME NEW c \in Controllers, Close(c) \/ Connect(c) \/ DisconnectNone(c)
      PROVE clients' = clients /\ crossed' = crossed /\ Still
  <2>1. adder' = adder \/ adder' = Begin(<<c, "user">>, Deferred)
    BY <1>9 DEF Close, Connect, DisconnectNone
  <2>2. Still
    BY <1>3, <2>1, Names
  <2> QED
    BY <1>9, <2>2 DEF Close, Connect, DisconnectNone, hostVars
<1>10. ASSUME HostClosed PROVE clients' = clients /\ crossed' = crossed /\ Still
  BY <1>10 DEF HostClosed, userVars
<1> QED
  BY NextCases, <1>4, <1>5, <1>6, <1>7, <1>8, <1>9, <1>10

(* The three that do more: where they leave the list and Host.Add.         *)
LEMMA Starts ==
  ASSUME Basics, NEW a \in Adders, AddStart(a)
  PROVE  /\ clients' = clients /\ crossed' = crossed /\ tools' = tools /\ made' = made + 1
         /\ adder'[a].at = "handshake" /\ adder'[a].c = made' /\ adder[a].at = "check"
         /\ \A b \in Adders \ {a} : adder'[b] = adder[b]
         /\ client'[made'].way = a[2]
<1>0. AdderTypes /\ HostTypes
  BY DEF Basics, Types
<1>1. adder' = Started(a) /\ clients' = clients /\ tools' = tools /\ crossed' = crossed
  BY DEF AddStart, userVars
<1>2. made' = made + 1 /\ made' \in Clients
  BY <1>0 DEF AddStart, HostTypes, Clients
<1>3. client'[made'].way = a[2]
  BY <1>0, <1>2 DEF AddStart, HostTypes
<1> QED
  BY <1>0, <1>1, <1>2, <1>3 DEF AddStart, Started, AdderTypes

LEMMA Links ==
  ASSUME Basics, NEW a \in Adders, AddLink(a)
  PROVE  /\ crossed' = crossed /\ tools' = tools /\ host' = host
         /\ adder[a].at = "handshake" /\ adder[a].c \in Clients
         /\ \A b \in Adders \ {a} : adder'[b] = adder[b]
         /\ \/ /\ clients' = Append(clients, adder[a].c) /\ Range(clients') = Range(clients) \cup {adder[a].c}
               /\ adder'[a].at = "done" /\ adder'[a].c = adder[a].c
               /\ client'[adder[a].c].process # "dead"
            \/ clients' = clients /\ adder'[a].at = "failed"
<1>0. AdderTypes /\ HostTypes /\ MadeInv
  BY DEF Basics, Types
<1>1. adder[a].at = "handshake" /\ adder[a].c \in Clients
  BY <1>0 DEF AddLink, MadeInv, HostTypes, Clients
<1>2. crossed' = crossed /\ tools' = tools /\ host' = host
  BY DEF AddLink, userVars
<1>3. CASE StillOpen
  <2>1. /\ clients' = Append(clients, adder[a].c) /\ Goto(a, "done")
        /\ client' = [client EXCEPT ![adder[a].c].listers = {Own}] /\ client[adder[a].c].process # "dead"
    BY <1>3 DEF AddLink
  <2>2. Range(clients') = Range(clients) \cup {adder[a].c}
    BY <1>0, <1>1, <2>1, Appended DEF HostTypes
  <2>3. client'[adder[a].c].process # "dead"
    BY <1>0, <1>1, <2>1 DEF HostTypes, Procs
  <2> QED
    BY <1>0, <1>1, <1>2, <2>1, <2>2, <2>3 DEF Goto, AdderTypes
<1>4. CASE ~StillOpen
  BY <1>0, <1>1, <1>2, <1>4 DEF AddLink, Goto, AdderTypes
<1> QED
  BY <1>3, <1>4

LEMMA Leaves ==
  ASSUME Basics, NEW c \in Controllers, Disconnect(c)
  PROVE  /\ clients # <<>> /\ clients' = Tail(clients) /\ tools' = tools /\ host' = host
         /\ Range(clients) = Range(clients') \cup {Head(clients)}
         /\ crossed' = crossed \cup (LeftWith(c, Head(clients)) \X {Head(clients)})
         /\ adder[<<c, "user">>].at = "none"
         /\ adder'[<<c, "user">>].at = "removed" /\ adder'[<<c, "user">>].c = Head(clients)
         /\ \A b \in Adders \ {<<c, "user">>} : adder'[b] = adder[b]
<1>0. AdderTypes /\ HostTypes
  BY DEF Basics, Types
<1>1. Range(clients) = Range(clients') \cup {Head(clients)}
  BY <1>0, Tailed DEF Disconnect, HostTypes
<1>2. adder' = [adder EXCEPT ![<<c, "user">>] = [at |-> "removed", c |-> Head(clients), by |-> Deferred]]
  BY DEF Disconnect
<1> QED
  BY <1>0, <1>1, <1>2, Names DEF Disconnect, Command, Busy, AdderTypes

LEMMA ApartStep ==
  ASSUME Basics, Apart, Next PROVE Apart'
<1>0. HostTypes /\ AdderTypes /\ MadeInv
  BY DEF Basics, Types
<1>1. CASE /\ \A a \in Adders : ~AddStart(a) /\ ~AddLink(a)
           /\ \A c \in Controllers : ~Disconnect(c)
  <2>1. clients' = clients
    BY <1>1, Quiet
  <2>2. \A a \in Adders : adder'[a].at \in {"handshake", "removed"} => adder'[a] = adder[a]
    BY <1>1, Quiet
  <2> QED
    BY <2>1, <2>2 DEF Apart
<1>2. ASSUME NEW a \in Adders, AddStart(a) PROVE Apart'
  <2>1. /\ clients' = clients /\ adder'[a].at = "handshake" /\ adder'[a].c = made + 1
        /\ \A b \in Adders \ {a} : adder'[b] = adder[b]
    BY <1>2, Starts
  <2>2. made + 1 \notin Range(clients)
    BY <1>0 DEF Range, HostTypes, MadeInv
  <2>3. \A b \in Adders : adder[b].at \in {"handshake", "removed"} => adder[b].c # made + 1
    BY <1>0 DEF HostTypes, MadeInv
  <2> QED
    BY <2>1, <2>2, <2>3 DEF Apart
<1>3. ASSUME NEW a \in Adders, AddLink(a) PROVE Apart'
  <2>. DEFINE i == adder[a].c
  <2>1. /\ adder[a].at = "handshake" /\ \A b \in Adders \ {a} : adder'[b] = adder[b]
        /\ \/ clients' = Append(clients, i) /\ Range(clients') = Range(clients) \cup {i}
           \/ clients' = clients
        /\ adder'[a].at \in {"done", "failed"}
    BY <1>3, Links
  <2>2. i \notin Range(clients)
    BY <2>1 DEF Apart
  <2>3. \A x, y \in 1..Len(clients') : clients'[x] = clients'[y] => x = y
    <3>1. CASE clients' = clients
      BY <3>1 DEF Apart
    <3>2. CASE clients' = Append(clients, i)
      <4>1. /\ Len(clients') = Len(clients) + 1 /\ clients'[Len(clients) + 1] = i
            /\ \A x \in 1..Len(clients) : clients'[x] = clients[x] /\ clients[x] # i
            /\ Len(clients) \in Nat
        BY <1>0, <2>2, <3>2 DEF HostTypes, Range
      <4> QED
        BY <4>1 DEF Apart
    <3> QED
      BY <2>1, <3>1, <3>2
  <2>4. \A b \in Adders : adder'[b].at \in {"handshake", "removed"} =>
          b # a /\ adder'[b] = adder[b] /\ adder[b].c # i /\ adder[b].c \notin Range(clients)
    BY <2>1 DEF Apart
  <2>5. \A b \in Adders : adder'[b].at \in {"handshake", "removed"} => adder'[b].c \notin Range(clients')
    BY <2>1, <2>4
  <2> QED
    BY <2>3, <2>4, <2>5 DEF Apart
<1>4. ASSUME NEW c \in Controllers, Disconnect(c) PROVE Apart'
  <2>. DEFINE u == <<c, "user">>
              h == Head(clients)
  <2>1. /\ clients # <<>> /\ clients' = Tail(clients) /\ Range(clients) = Range(clients') \cup {h}
        /\ adder'[u].at = "removed" /\ adder'[u].c = h
        /\ \A b \in Adders \ {u} : adder'[b] = adder[b]
    BY <1>4, Leaves
  <2>2. /\ Len(clients') = Len(clients) - 1 /\ h = clients[1] /\ Len(clients) \in Nat \ {0}
        /\ \A x \in 1..(Len(clients) - 1) : clients'[x] = clients[x + 1] /\ x + 1 \in 1..Len(clients)
        /\ 1 \in 1..Len(clients)
    BY <1>0, <2>1 DEF HostTypes
  <2>3. \A x, y \in 1..Len(clients') : clients'[x] = clients'[y] => x = y
    BY <2>2 DEF Apart
  <2>4. h \notin Range(clients')
    <3>1. \A x \in 1..(Len(clients) - 1) : clients'[x] # h
      BY <2>2 DEF Apart
    <3>2. DOMAIN clients' = 1..(Len(clients) - 1)
      BY <1>0, <2>1, <2>2 DEF HostTypes
    <3> QED
      BY <3>1, <3>2 DEF Range
  <2>5. \A b \in Adders : adder[b].at \in {"handshake", "removed"} =>
          adder[b].c # h /\ adder[b].c \notin Range(clients')
    BY <2>1 DEF Apart
  <2>6. \A b \in Adders : adder'[b].at \in {"handshake", "removed"} => adder'[b].c \notin Range(clients')
    BY <2>1, <2>4, <2>5
  <2>7. ASSUME NEW a \in Adders, NEW b \in Adders, a # b, adder'[a].at = "handshake",
               adder'[b].at \in {"handshake", "removed"}
        PROVE  adder'[a].c # adder'[b].c
    <3>1. a # u /\ adder'[a] = adder[a]
      BY <2>1, <2>7
    <3>2. CASE b = u
      BY <2>1, <2>5, <2>7, <3>1, <3>2
    <3>3. CASE b # u
      BY <2>1, <2>7, <3>1, <3>3 DEF Apart
    <3> QED
      BY <3>2, <3>3
  <2> QED
    BY <2>3, <2>6, <2>7 DEF Apart
<1> QED
  BY <1>1, <1>2, <1>3, <1>4

LEMMA EagerWayStep ==
  ASSUME Basics, EagerWay, Next PROVE EagerWay'
<1>0. HostTypes /\ MadeInv
  BY DEF Basics, Types
<1> SUFFICES ASSUME NEW c \in Controllers, adder'[<<c, "eager">>].at \in {"handshake", "done"}
             PROVE  client'[adder'[<<c, "eager">>].c].way = "eager"
  BY DEF EagerWay
<1>. DEFINE a == <<c, "eager">>
<1>1. a \in Adders /\ a[2] = "eager"
  BY Names
<1>2. CASE AddStart(a)
  BY <1>1, <1>2, Starts
<1>3. CASE ~AddStart(a)
  <2>1. adder'[a].c = adder[a].c /\ adder[a].at \in {"handshake", "done"}
    <3>1. ASSUME NEW b \in Adders, AddStart(b)
          PROVE adder'[a] = adder[a]
      BY <1>1, <1>3, <3>1, Starts
    <3>2. ASSUME NEW b \in Adders, AddLink(b)
          PROVE adder'[a] = adder[a] \/ a = b
      BY <1>1, <3>2, Links
    <3>3. ASSUME NEW d \in Controllers, Disconnect(d)
          PROVE adder'[a] = adder[a]
      BY <1>1, <3>3, Leaves, Names
    <3>4. ASSUME AddLink(a) PROVE adder'[a].c = adder[a].c /\ adder[a].at = "handshake"
      BY <1>1, <3>4, Links
    <3>5. CASE /\ \A b \in Adders : ~AddStart(b) /\ ~AddLink(b)
               /\ \A d \in Controllers : ~Disconnect(d)
      BY <1>1, <3>5, Quiet
    <3> QED
      BY <3>1, <3>2, <3>3, <3>4, <3>5
  <2>2. adder[a].c \in Clients /\ ~(adder[a].c > made) /\ client[adder[a].c].way = "eager"
    BY <1>0, <1>1, <2>1 DEF EagerWay, MadeInv, HostTypes, Clients
  <2> QED
    BY <2>1, <2>2, ProcessStep
<1> QED
  BY <1>2, <1>3

LEMMA ReturnedStep ==
  ASSUME Basics, Returned, Next PROVE Returned'
<1> SUFFICES ASSUME NEW a \in Adders, adder'[a].at = "done"
             PROVE  adder'[a].c \in Range(clients') \/ <<a[1], adder'[a].c>> \in crossed'
  BY DEF Returned
<1>0. a[1] \in Controllers /\ a[2] \in Ways /\ a = <<a[1], a[2]>>
  BY DEF Adders
<1>1. CASE /\ \A b \in Adders : ~AddStart(b) /\ ~AddLink(b)
           /\ \A c \in Controllers : ~Disconnect(c)
  BY <1>1, Quiet DEF Returned
<1>2. ASSUME NEW b \in Adders, AddStart(b)
      PROVE adder'[a].c \in Range(clients') \/ <<a[1], adder'[a].c>> \in crossed'
  BY <1>2, Starts DEF Returned
<1>3. ASSUME NEW b \in Adders, AddLink(b)
      PROVE adder'[a].c \in Range(clients') \/ <<a[1], adder'[a].c>> \in crossed'
  BY <1>3, Links DEF Returned
<1>4. ASSUME NEW c \in Controllers, Disconnect(c)
      PROVE adder'[a].c \in Range(clients') \/ <<a[1], adder'[a].c>> \in crossed'
  <2>. DEFINE h == Head(clients)
  <2>1. a # <<c, "user">> /\ adder'[a] = adder[a]
    BY <1>4, Leaves
  <2>2. CASE adder[a].c = h
    <3>1. Brings(a[1], h)
      BY <1>0, <2>1, <2>2 DEF Brings
    <3>2. <<a[1], h>> \in LeftWith(c, h) \X {h}
      BY <1>0, <3>1 DEF LeftWith
    <3> QED
      BY <1>4, <2>1, <2>2, <3>2, Leaves
  <2>3. CASE adder[a].c # h
    BY <1>4, <2>1, <2>3, Leaves DEF Returned
  <2> QED
    BY <2>2, <2>3
<1> QED
  BY <1>1, <1>2, <1>3, <1>4

(* What a registry gets is what a Host.Add of its own returned.            *)
LEMMA ToolsStep ==
  ASSUME Basics, Next, NEW c \in Controllers, tools'[c] # tools[c], tools'[c] \in Clients
  PROVE  \E w \in Ways : /\ adder[<<c, w>>].at = "done" /\ tools'[c] = adder[<<c, w>>].c
                         /\ clients' = clients /\ crossed' = crossed
<1>0. UserTypes
  BY DEF Basics, Types
<1>1. NoTools \notin Clients /\ Placeholders \notin Clients
  BY DEF NoTools, Placeholders, Clients
<1>2. ASSUME NEW d \in Controllers, Ending(d)
      PROVE \E w \in Ways : /\ adder[<<c, w>>].at = "done" /\ tools'[c] = adder[<<c, w>>].c
                            /\ clients' = clients /\ crossed' = crossed
  <2>1. CASE SpawnDone(d) \/ EagerEnd(d) \/ ConnectEnd(d)
    <3>1. PICK w \in Ways : /\ adder[<<d, w>>].at = "done"
                            /\ tools' = [tools EXCEPT ![d] = adder[<<d, w>>].c]
      BY <2>1, Names DEF SpawnDone, EagerEnd, ConnectEnd
    <3>2. c = d /\ tools'[c] = adder[<<d, w>>].c
      BY <1>0, <3>1 DEF UserTypes
    <3> QED
      BY <2>1, <3>1, <3>2 DEF SpawnDone, EagerEnd, ConnectEnd, hostVars, userVars
  <2>2. CASE SpawnFailed(d) \/ StartPhaseB(d)
    BY <2>2 DEF SpawnFailed, StartPhaseB
  <2>3. CASE DisconnectEnd(d)
    BY <1>0, <1>1, <2>3 DEF DisconnectEnd, DropTools, UserTypes
  <2> QED
    BY <1>2, <2>1, <2>2, <2>3 DEF Ending
<1>3. \A d \in Controllers, t \in {NoTools, Placeholders} : tools' # [tools EXCEPT ![d] = t]
  BY <1>0, <1>1 DEF UserTypes
<1>4. \/ tools' = tools \/ \E d \in Controllers : Ending(d)
      \/ \E d \in Controllers, t \in {NoTools, Placeholders} : tools' = [tools EXCEPT ![d] = t]
  BY NextCases, AddingFrame
     DEF Listing, ListPrompts, ListFails, KilledByContext, PickPlaceholder, Calling, ExecuteReady,
         ExecuteTooEarly, ExecuteAgain, ExecuteSync, ExecuteDeferred, ForwardReturns, Open, Close, Connect,
         DisconnectNone, Disconnect, HostClosed
<1> QED
  BY <1>2, <1>3, <1>4

(* Who has taken a client out has it until he drops its tools.             *)
LEMMA RemovedStays ==
  ASSUME Basics, Next, NEW c \in Controllers, adder[<<c, "user">>].at = "removed", ~DisconnectEnd(c)
  PROVE  adder'[<<c, "user">>] = adder[<<c, "user">>]
<1>. DEFINE u == <<c, "user">>
<1>0. AdderTypes /\ u \in Adders
  BY Names DEF Basics, Types
<1>1. ASSUME NEW d \in Controllers, NEW w \in Ways, <<d, w>> # u, End(<<d, w>>) PROVE adder'[u] = adder[u]
  BY <1>0, <1>1, OthersStay
<1>2. ASSUME NEW d \in Controllers, NEW w \in Ways, <<d, w>> # u, NEW who, adder' = Begin(<<d, w>>, who)
      PROVE adder'[u] = adder[u]
  BY <1>0, <1>2, OthersStay
<1>3. ASSUME NEW a \in Adders, Adding(a) PROVE adder'[u] = adder[u]
  <2>1. a # u
    BY <1>3 DEF Adding, AddRefused, AddStart, AddFail, AddLink
  <2> QED
    BY <1>0, <1>3, <2>1, AddingFrame
<1>4. ASSUME NEW i \in Clients, Listing(i) PROVE adder'[u] = adder[u]
  BY <1>4 DEF Listing, ListPrompts, ListFails, KilledByContext
<1>5. ASSUME NEW d \in Controllers, NEW k \in Callers, PickPlaceholder(d, k) \/ Calling(d, k)
      PROVE adder'[u] = adder[u]
  <2>1. adder' = adder \/ \E who : adder' = Begin(<<d, "spawn">>, who)
    BY <1>5 DEF PickPlaceholder, Calling, ExecuteReady, ExecuteTooEarly, ExecuteAgain, ExecuteSync,
       ExecuteDeferred, ForwardReturns
  <2>2. <<d, "spawn">> # u
    BY Names
  <2> QED
    BY <1>2, <2>1, <2>2, Names
<1>6. ASSUME NEW d \in Controllers, Ending(d) PROVE adder'[u] = adder[u]
  <2>1. <<d, "spawn">> # u /\ <<d, "eager">> # u /\ {"spawn", "user", "eager"} \subseteq Ways
    BY Names
  <2>2. CASE SpawnDone(d) \/ SpawnFailed(d)
    BY <1>1, <2>1, <2>2 DEF SpawnDone, SpawnFailed
  <2>3. CASE StartPhaseB(d)
    BY <1>1, <2>1, <2>3 DEF StartPhaseB
  <2>4. CASE EagerEnd(d)
    BY <1>0, <2>1, <2>4 DEF EagerEnd, AdderTypes
  <2>5. CASE ConnectEnd(d) \/ DisconnectEnd(d)
    <3>1. c # d
      BY <2>5 DEF ConnectEnd
    <3>2. <<d, "user">> # u
      BY <3>1
    <3> QED
      BY <1>1, <2>1, <2>5, <3>2 DEF ConnectEnd, DisconnectEnd
  <2> QED
    BY <1>6, <2>2, <2>3, <2>4, <2>5 DEF Ending
<1>7. ASSUME NEW d \in Controllers, NEW tier \in Tiers, NEW hit \in BOOLEAN, Open(d, tier, hit)
      PROVE adder'[u] = adder[u]
  <2>1. adder' = adder \/ \E w \in {"eager", "spawn"} : adder' = Begin(<<d, w>>, Deferred)
    BY <1>7 DEF Open, Tiers
  <2>2. \A w \in {"eager", "spawn"} : <<d, w>> # u /\ w \in Ways
    BY Names
  <2> QED
    BY <1>2, <2>1, <2>2
<1>8. ASSUME NEW d \in Controllers, Close(d) \/ Connect(d) \/ DisconnectNone(d) PROVE adder'[u] = adder[u]
  <2>1. adder' = adder \/ (d # c /\ adder' = Begin(<<d, "user">>, Deferred))
    BY <1>8 DEF Close, Connect, DisconnectNone, Command, Busy
  <2>2. d # c => <<d, "user">> # u
    OBVIOUS
  <2> QED
    BY <1>2, <2>1, <2>2, Names
<1>9. ASSUME NEW d \in Controllers, Disconnect(d) PROVE adder'[u] = adder[u]
  <2>1. d # c
    BY <1>9, Leaves
  <2>2. <<d, "user">> # u
    BY <2>1
  <2> QED
    BY <1>0, <1>9, <2>2, Leaves
<1>10. ASSUME HostClosed PROVE adder'[u] = adder[u]
  BY <1>10 DEF HostClosed
<1> QED
  BY NextCases, <1>3, <1>4, <1>5, <1>6, <1>7, <1>8, <1>9, <1>10

LEMMA AccountedStep ==
  ASSUME Basics, Returned, Accounted, Next PROVE Accounted'
<1>0. UserTypes
  BY DEF Basics, Types
<1> SUFFICES ASSUME NEW c \in Controllers, tools'[c] \in Clients
             PROVE  tools'[c] \in Range(clients') \/ Leaving(c)' \/ <<c, tools'[c]>> \in crossed'
  BY DEF Accounted
<1>1. CASE tools'[c] # tools[c]
  <2>1. PICK w \in Ways : /\ adder[<<c, w>>].at = "done" /\ tools'[c] = adder[<<c, w>>].c
                          /\ clients' = clients /\ crossed' = crossed
    BY <1>1, ToolsStep
  <2>2. <<c, w>> \in Adders /\ <<c, w>>[1] = c
    BY Names
  <2> QED
    BY <2>1, <2>2 DEF Returned
<1>2. CASE tools'[c] = tools[c]
  <2>1. tools[c] \in Range(clients) \/ Leaving(c) \/ <<c, tools[c]>> \in crossed
    BY <1>2 DEF Accounted
  <2>2. crossed \subseteq crossed'
    <3>1. CASE /\ \A a \in Adders : ~AddStart(a) /\ ~AddLink(a)
               /\ \A d \in Controllers : ~Disconnect(d)
      BY <3>1, Quiet
    <3>2. ASSUME NEW a \in Adders, AddStart(a) \/ AddLink(a) PROVE crossed \subseteq crossed'
      BY <3>2, Starts, Links
    <3>3. ASSUME NEW d \in Controllers, Disconnect(d) PROVE crossed \subseteq crossed'
      BY <3>3, Leaves
    <3> QED
      BY <3>1, <3>2, <3>3
  <2>3. CASE Leaving(c)
    <3>1. ~DisconnectEnd(c)
      BY <1>0, <1>2 DEF DisconnectEnd, DropTools, NoTools, UserTypes, Clients
    <3> QED
      BY <1>2, <2>3, <3>1, RemovedStays DEF Leaving
  <2>4. CASE tools[c] \in Range(clients)
    <3>1. CASE /\ \A a \in Adders : ~AddStart(a) /\ ~AddLink(a)
               /\ \A d \in Controllers : ~Disconnect(d)
      BY <1>2, <2>4, <3>1, Quiet
    <3>2. ASSUME NEW a \in Adders, AddStart(a) \/ AddLink(a) PROVE tools'[c] \in Range(clients')
      BY <1>2, <2>4, <3>2, Starts, Links
    <3>3. ASSUME NEW d \in Controllers, Disconnect(d)
          PROVE tools'[c] \in Range(clients') \/ Leaving(c)' \/ <<c, tools'[c]>> \in crossed'
      <4>. DEFINE h == Head(clients)
      <4>1. CASE tools[c] # h
        <5>1. Range(clients) = Range(clients') \cup {h}
          BY <3>3, Leaves
        <5> QED
          BY <1>2, <2>4, <4>1, <5>1
      <4>2. CASE tools[c] = h /\ c = d
        BY <1>2, <3>3, <4>2, Leaves DEF Leaving
      <4>3. CASE tools[c] = h /\ c # d
        <5>1. <<c, h>> \in LeftWith(d, h) \X {h}
          BY <4>3 DEF LeftWith
        <5> QED
          BY <1>2, <3>3, <4>3, <5>1, Leaves
      <4> QED
        BY <4>1, <4>2, <4>3
    <3> QED
      BY <3>1, <3>2, <3>3
  <2> QED
    BY <1>2, <2>1, <2>2, <2>3, <2>4
<1> QED
  BY <1>1, <1>2

(* A client of the list dies only with its controller's start, as long as  *)
(* the host is open.                                                       *)
LEMMA KillStep ==
  ASSUME Basics, Apart, EagerWay, Next, host = "open", host' = "open", NEW i \in Range(clients),
         client[i].process # "dead" \/ client[i].way = "eager"
  PROVE  client'[i].process # "dead" \/ client'[i].way = "eager"
<1>0. HostTypes /\ MadeInv
  BY DEF Basics, Types
<1>1. i \in Clients /\ ~(i > made) /\ client[i] \in Procs
  BY <1>0 DEF Range, HostTypes, MadeInv, Clients
<1>2. client'[i].way = client[i].way
  BY <1>1, ProcessStep
<1>. DEFINE Same == client'[i].process = client[i].process
<1>3. ASSUME NEW j \in Clients, j # i, client' = Die(j) PROVE Same
  BY <1>0, <1>1, <1>3, DieFrame
<1>4. ASSUME NEW j \in Clients, NEW v, client' = [client EXCEPT ![j].listers = v] PROVE Same
  BY <1>0, <1>1, <1>4 DEF HostTypes, Procs
<1>5. ASSUME NEW a \in Adders, Adding(a) PROVE Same
  <2>1. CASE AddRefused(a)
    BY <2>1 DEF AddRefused, hostVars
  <2>2. CASE AddStart(a)
    <3>1. PICK kind \in {"live", "remote"} :
            client' = [client EXCEPT ![made'] = [process |-> kind, listers |-> {}, way |-> a[2]]]
      BY <2>2 DEF AddStart
    <3>2. made' # i
      BY <1>0, <1>1, <2>2 DEF AddStart, HostTypes, Clients
    <3> QED
      BY <1>0, <1>1, <3>1, <3>2 DEF HostTypes
  <2>3. CASE AddFail(a)
    <3>1. CASE adder[a].at = "check"
      BY <2>3, <3>1 DEF AddFail
    <3>2. CASE adder[a].at = "handshake"
      <4>1. adder[a].c \in Clients /\ adder[a].c # i
        BY <1>0, <3>2 DEF Apart, MadeInv, HostTypes, Clients
      <4> QED
        BY <1>3, <2>3, <3>2, <4>1 DEF AddFail
    <3> QED
      BY <2>3, <3>1, <3>2 DEF AddFail
  <2>4. CASE AddLink(a)
    <3>1. adder[a].c \in Clients
      BY <2>4, Links
    <3> QED
      BY <1>4, <2>4, <3>1 DEF AddLink, StillOpen
  <2> QED
    BY <1>5, <2>1, <2>2, <2>3, <2>4 DEF Adding
<1>6. ASSUME NEW j \in Clients, Listing(j) PROVE Same
  <2>1. ~KilledByContext(j)
    BY DEF KilledByContext
  <2>2. PICK who \in client[j].listers : ListPrompts(j, who) \/ ListFails(j, who)
    BY <1>6, <2>1 DEF Listing
  <2>3. client' = [client EXCEPT ![j].listers = client[j].listers \ {who}]
    BY <1>0, <2>2 DEF ListPrompts, ListFails, Stops, HostTypes
  <2> QED
    BY <1>4, <2>3
<1>7. ASSUME NEW c \in Controllers, NEW k \in Callers, PickPlaceholder(c, k) \/ Calling(c, k) PROVE Same
  BY <1>7 DEF PickPlaceholder, Calling, ExecuteReady, ExecuteTooEarly, ExecuteAgain, ExecuteSync,
     ExecuteDeferred, ForwardReturns, hostVars
<1>8. ASSUME NEW c \in Controllers, Ending(c) PROVE Same \/ client[i].way = "eager"
  <2>1. CASE SpawnDone(c) \/ SpawnFailed(c) \/ ConnectEnd(c)
    BY <2>1 DEF SpawnDone, SpawnFailed, ConnectEnd, hostVars
  <2>2. CASE EagerEnd(c)
    <3>. DEFINE j == adder[<<c, "eager">>].c
    <3>1. CASE adder[<<c, "eager">>].at = "done"
      <4>1. j \in Clients /\ client[j].way = "eager"
        BY <1>0, <3>1, Names DEF EagerWay, MadeInv, HostTypes, Clients
      <4>2. client' = [Die(j) EXCEPT ![j].listers = @ \ {Own}]
        BY <2>2, <3>1 DEF EagerEnd
      <4>3. CASE j # i
        BY <1>0, <1>1, <4>1, <4>2, <4>3, DieFrame
      <4> QED
        BY <4>1, <4>3
    <3>2. CASE adder[<<c, "eager">>].at # "done"
      BY <2>2, <3>2 DEF EagerEnd
    <3> QED
      BY <3>1, <3>2
  <2>3. CASE StartPhaseB(c)
    BY <1>1, <2>3 DEF StartPhaseB, Procs
  <2>4. CASE DisconnectEnd(c)
    <3>1. adder[<<c, "user">>].c \in Clients /\ adder[<<c, "user">>].c # i
      BY <1>0, <2>4, Names DEF DisconnectEnd, Apart, MadeInv, HostTypes, Clients
    <3> QED
      BY <1>3, <2>4, <3>1 DEF DisconnectEnd
  <2> QED
    BY <1>8, <2>1, <2>2, <2>3, <2>4 DEF Ending
<1>9. ASSUME NEW c \in Controllers, \/ \E tier \in Tiers, hit \in BOOLEAN : Open(c, tier, hit)
                                    \/ Close(c) \/ Connect(c) \/ DisconnectNone(c) \/ Disconnect(c)
      PROVE Same
  BY <1>9 DEF Open, Close, Connect, DisconnectNone, Disconnect, hostVars
<1>10. ~HostClosed
  BY DEF HostClosed
<1> QED
  BY NextCases, <1>2, <1>5, <1>6, <1>7, <1>8, <1>9, <1>10

LEMMA AliveStep ==
  ASSUME Basics, Apart, EagerWay, Alive, Next PROVE Alive'
<1> SUFFICES ASSUME host' = "open", NEW i \in Range(clients')
             PROVE  client'[i].process # "dead" \/ client'[i].way = "eager"
  BY DEF Alive
<1>1. host = "open"
  BY ZenonT(30) DEF Next, Adding, AddRefused, AddStart, AddFail, AddLink, Listing, ListPrompts, ListFails,
     KilledByContext, PickPlaceholder, Calling, ExecuteReady, ExecuteTooEarly, ExecuteAgain, ExecuteSync,
     ExecuteDeferred, ForwardReturns, Ending, SpawnDone, SpawnFailed, EagerEnd, StartPhaseB, ConnectEnd,
     DisconnectEnd, Open, Close, Connect, DisconnectNone, Disconnect, HostClosed, hostVars
<1>2. CASE i \in Range(clients)
  BY <1>1, <1>2, KillStep DEF Alive
<1>3. CASE i \notin Range(clients)
  <2>1. CASE /\ \A a \in Adders : ~AddStart(a) /\ ~AddLink(a)
             /\ \A d \in Controllers : ~Disconnect(d)
    BY <1>3, <2>1, Quiet
  <2>2. ASSUME NEW a \in Adders, AddStart(a) PROVE FALSE
    BY <1>3, <2>2, Starts
  <2>3. ASSUME NEW a \in Adders, AddLink(a) PROVE client'[i].process # "dead"
    BY <1>3, <2>3, Links
  <2>4. ASSUME NEW d \in Controllers, Disconnect(d) PROVE FALSE
    <3>1. Range(clients) = Range(clients') \cup {Head(clients)}
      BY <2>4, Leaves
    <3> QED
      BY <1>3, <3>1
  <2> QED
    BY <2>1, <2>2, <2>3, <2>4
<1> QED
  BY <1>2, <1>3

LEMMA RegistryStutter ==
  ASSUME RInv, UNCHANGED vars PROVE RInv'
<1>0. /\ clients' = clients /\ adder' = adder /\ client' = client /\ tools' = tools
      /\ crossed' = crossed /\ host' = host
  BY DEF vars, hostVars, userVars
<1>1. Basics'
  <2>1. Types' /\ MadeInv'
    BY DEF vars, hostVars, spawnVars, userVars, RInv, Basics, Types, HostTypes, AdderTypes, SpawnTypes,
       UserTypes, MadeInv
  <2>2. adder' = adder /\ status' = status /\ spawn' = spawn /\ call' = call
    BY DEF vars, spawnVars, userVars
  <2>3. PartyInv'
    BY <2>2 DEF RInv, Basics, PartyInv, Busy
  <2> QED
    BY <2>1, <2>3 DEF Basics
<1>2. Apart' /\ EagerWay'
  BY <1>0 DEF RInv, Apart, EagerWay
<1>3. Returned' /\ Alive'
  BY <1>0 DEF RInv, Returned, Alive
<1>4. Accounted'
  BY <1>0 DEF RInv, Accounted, Leaving
<1> QED
  BY <1>1, <1>2, <1>3, <1>4 DEF RInv

(* Whoever connects, fails and disconnects at the shared host: the tools   *)
(* of a registry are those of a client in the list, which lives, but for   *)
(* the child process of an eager server, a registry whose own user is      *)
(* disconnecting, and one whose client another took out.                   *)
THEOREM RegistryStaysTrue == Spec => []RegistryIsTrue
<1>1. Init => RInv
  <2> SUFFICES ASSUME Init PROVE RInv
    OBVIOUS
  <2>1. Basics
    BY InitIInv DEF IInv
  <2>2. clients = <<>> /\ Range(clients) = {} /\ Len(clients) = 0
    BY DEF Init, Range
  <2>3. \A a \in Adders : adder[a].at = "none"
    BY DEF Init, Resting
  <2>4. Apart /\ Returned /\ Alive
    BY <2>2, <2>3 DEF Apart, Returned, Alive
  <2>5. EagerWay
    BY <2>3, Names DEF EagerWay
  <2>6. Accounted
    BY DEF Init, Accounted, NoTools, Clients
  <2> QED
    BY <2>1, <2>4, <2>5, <2>6 DEF RInv
<1>2. RInv /\ [Next]_vars => RInv'
  BY BasicsStep, ApartStep, EagerWayStep, ReturnedStep, AccountedStep, AliveStep, RegistryStutter DEF RInv
<1>3. RInv => RegistryIsTrue
  BY DEF RInv, Accounted, Alive, RegistryIsTrue
<1> QED
  BY <1>1, <1>2, <1>3, PTL DEF Spec

=============================================================================
