------------------------------ MODULE TcpServer ------------------------------
(***************************************************************************)
(* network/core/server: one configured TCP server, which administrators    *)
(* start and remove.  Every start makes an instance of its own with a      *)
(* listener, an accept loop and a table of the connections by device; each *)
(* registered connection has a receiver goroutine.  Clients connect, send  *)
(* a registration packet that names their device, and hang up.             *)
(***************************************************************************)
EXTENDS Integers, Sequences

CONSTANTS
    Devices,    \* device keys
    MaxConns,   \* bound: connections that clients make
    MaxStarts   \* bound: starts of the server, restarts of the process included

ASSUME BoundsAssumption == MaxConns \in Nat /\ MaxStarts \in Nat

(* Connections and instances are numbered in the order they are made. *)
Conns     == 1 .. MaxConns
NoConn    == 0
Instances == 1 .. MaxStarts

(* What a client sent: nothing yet, a packet that Check refuses, a key. *)
ASSUME DevicesAssumption == {"silent", "bad"} \cap Devices = {}
Packets == Devices \cup {"silent", "bad"}

VARIABLES
    conn,       \* conn[c]: "new", "up" or "closed"
    packet,     \* packet[c]: the registration packet sent on c
    backlog,    \* established connections that nobody accepted yet
    registry,   \* allServers: the server's instance, 0 for none
    listener,   \* listener[i]: "none" (no such instance), "stored", "open", "closed"
    closer,     \* closer[i]: where Close of instance i is
    acc,        \* acc[i]: where the accept loop of instance i is
    held,       \* held[i]: the connection in the hands of that loop
    children,   \* children[i][d]: the connection listed for device d
    owner,      \* owner[c]: the instance that registered c, 0 for none
    turn,       \* history: turn[c] is the number of the registration of c
    turns,      \* history: how many registrations there were
    recv        \* recv[c]: where the receiver of c is

client == <<conn, packet, backlog>>
admin  == <<registry, listener, closer>>
loop   == <<acc, held>>
table  == <<children, owner, turn, turns>>
vars   == <<client, admin, loop, table, recv>>

Holding   == {"read", "store"}
Receiving == {"online", "reading", "offline", "remove"}

(* A loop holds a connection exactly when it is past AcceptTCP, and a      *)
(* connection has an owner exactly when it was given a receiver.           *)
TypeOK ==
    /\ conn \in [Conns -> {"new", "up", "closed"}]
    /\ packet \in [Conns -> Packets]
    /\ backlog \in Seq(Conns)
    /\ registry \in {0} \cup Instances
    /\ listener \in [Instances -> {"none", "stored", "open", "closed"}]
    /\ closer \in [Instances -> {"none", "range", "listener", "done"}]
    /\ acc \in [Instances -> {"off", "accept"} \cup Holding]
    /\ held \in [Instances -> Conns \cup {NoConn}]
    /\ \A i \in Instances : acc[i] \in Holding <=> held[i] \in Conns
    /\ children \in [Instances -> [Devices -> Conns \cup {NoConn}]]
    /\ owner \in [Conns -> {0} \cup Instances]
    /\ turns \in Nat
    /\ turn \in [Conns -> 0 .. turns]
    /\ recv \in [Conns -> {"none", "done"} \cup Receiving]
    /\ \A c \in Conns : recv[c] = "none" <=> owner[c] = 0

NoChildren == [i \in Instances |-> [d \in Devices |-> NoConn]]

Init ==
    /\ conn = [c \in Conns |-> "new"]
    /\ packet = [c \in Conns |-> "silent"]
    /\ backlog = <<>>
    /\ registry = 0
    /\ listener = [i \in Instances |-> "none"]
    /\ closer = [i \in Instances |-> "none"]
    /\ acc = [i \in Instances |-> "off"]
    /\ held = [i \in Instances |-> NoConn]
    /\ children = NoChildren
    /\ owner = [c \in Conns |-> 0]
    /\ turn = [c \in Conns |-> 0]
    /\ turns = 0
    /\ recv = [c \in Conns |-> "none"]

(* The process dies: its memory and its sockets are gone, and the next     *)
(* StartServer is LoadServers of the restarted one.                        *)
Crash ==
    /\ conn' = [c \in Conns |-> IF conn[c] = "up" THEN "closed" ELSE conn[c]]
    /\ backlog' = <<>>
    /\ registry' = 0
    /\ listener' = [i \in Instances |->
                       IF listener[i] = "none" THEN "none" ELSE "closed"]
    /\ closer' = [i \in Instances |-> "none"]
    /\ acc' = [i \in Instances |-> "off"]
    /\ held' = [i \in Instances |-> NoConn]
    /\ children' = NoChildren
    /\ owner' = [c \in Conns |-> 0]
    /\ turn' = [c \in Conns |-> 0]
    /\ turns' = 0
    /\ recv' = [c \in Conns |-> "none"]
    /\ UNCHANGED packet

-----------------------------------------------------------------------------
(* The clients, and the kernel's side of the listening socket.             *)
Connect(c) ==
    /\ conn[c] = "new" /\ \A b \in 1 .. c - 1 : conn[b] # "new"
    /\ \E i \in Instances : listener[i] = "open"
    /\ conn' = [conn EXCEPT ![c] = "up"]
    /\ backlog' = Append(backlog, c)
    /\ UNCHANGED <<packet, admin, loop, table, recv>>

Send(c, p) ==
    /\ conn[c] = "up" /\ packet[c] = "silent" /\ p # "silent"
    /\ packet' = [packet EXCEPT ![c] = p]
    /\ UNCHANGED <<conn, backlog, admin, loop, table, recv>>

HangUp(c) ==
    /\ conn[c] = "up"
    /\ conn' = [conn EXCEPT ![c] = "closed"]
    /\ UNCHANGED <<packet, backlog, admin, loop, table, recv>>

Client == \E c \in Conns : Connect(c) \/ HangUp(c) \/ \E p \in Packets : Send(c, p)

-----------------------------------------------------------------------------
(* startServer stores the new instance before Open makes its listener, and *)
(* over an instance that is there already.                                 *)
StartServer(i) ==
    /\ listener[i] = "none" /\ \A j \in 1 .. i - 1 : listener[j] # "none"
    /\ registry' = i
    /\ listener' = [listener EXCEPT ![i] = "stored"]
    /\ UNCHANGED <<client, closer, loop, table, recv>>

(* ListenTCP fails while another listener has the port. *)
Open(i) ==
    /\ listener[i] = "stored"
    /\ IF \E j \in Instances : listener[j] = "open"
       THEN /\ listener' = [listener EXCEPT ![i] = "closed"]
            /\ UNCHANGED acc
       ELSE /\ listener' = [listener EXCEPT ![i] = "open"]
            /\ acc' = [acc EXCEPT ![i] = "accept"]
    /\ UNCHANGED <<client, registry, closer, held, table, recv>>

(* As a bug: the instance is forgotten, and not closed.                    *)
ForgetServer(i) ==
    /\ registry = i
    /\ registry' = 0
    /\ UNCHANGED <<client, listener, closer, loop, table, recv>>

RemoveServer(i) ==
    /\ registry = i
    /\ registry' = 0
    /\ closer' = [closer EXCEPT ![i] = "range"]
    /\ UNCHANGED <<client, listener, loop, table, recv>>

(* Close closes every tunnel that is in the table as it walks it ... *)
CloseChildren(i) ==
    /\ closer[i] = "range"
    /\ closer' = [closer EXCEPT ![i] = "listener"]
    /\ conn' = [c \in Conns |->
                   IF \E d \in Devices : children[i][d] = c THEN "closed" ELSE conn[c]]
    /\ UNCHANGED <<packet, backlog, registry, listener, loop, table, recv>>

Queued == {backlog[n] : n \in DOMAIN backlog}

(* ... and then the listener: an error if there is none yet, else the      *)
(* kernel resets the connections that wait for it.                         *)
CloseListener(i) ==
    /\ closer[i] = "listener"
    /\ closer' = [closer EXCEPT ![i] = "done"]
    /\ IF listener[i] = "open"
       THEN /\ listener' = [listener EXCEPT ![i] = "closed"]
            /\ conn' = [c \in Conns |-> IF c \in Queued THEN "closed" ELSE conn[c]]
            /\ backlog' = <<>>
       ELSE UNCHANGED <<listener, conn, backlog>>
    /\ UNCHANGED <<packet, registry, loop, table, recv>>

Close(i) == CloseChildren(i) \/ CloseListener(i)

-----------------------------------------------------------------------------
(* The accept loop.                                                        *)
Accept(i) ==
    /\ acc[i] = "accept" /\ listener[i] = "open" /\ backlog # <<>>
    /\ held' = [held EXCEPT ![i] = Head(backlog)]
    /\ backlog' = Tail(backlog)
    /\ acc' = [acc EXCEPT ![i] = "read"]
    /\ UNCHANGED <<conn, packet, admin, table, recv>>

(* Any error of AcceptTCP ends the loop: the closed listener's, or one the *)
(* listener survives (no file descriptor left).                            *)
AcceptFails(i) ==
    /\ acc[i] = "accept"
    /\ acc' = [acc EXCEPT ![i] = "off"]
    /\ UNCHANGED <<client, admin, held, table, recv>>

(* On to the next connection; the one in hand is closed, or forgotten.     *)
Continue(i) ==
    /\ acc' = [acc EXCEPT ![i] = "accept"]
    /\ held' = [held EXCEPT ![i] = NoConn]

(* As a bug: the loop waits for another packet of the refused connection.  *)
RefuseAndWait(i) ==
    /\ acc[i] = "read"
    /\ packet[held[i]] # "bad" /\ conn[held[i]] = "closed"
    /\ Continue(i)
    /\ UNCHANGED <<client, admin, table, recv>>

(* The connection ends, perhaps with what it sent unread, or Check refuses *)
(* its packet: both close it.                                              *)
Refuse(i) ==
    /\ acc[i] = "read"
    /\ LET c == held[i] IN
       /\ conn[c] = "closed" \/ packet[c] = "bad"
       /\ conn' = [conn EXCEPT ![c] = "closed"]
    /\ Continue(i)
    /\ UNCHANGED <<packet, backlog, admin, table, recv>>

(* newServerTcpTunnel writes the tunnel's record to Redis; if that fails   *)
(* the connection is left open, with nobody reading it.                    *)
NewTunnel(i) ==
    /\ acc[i] = "read" /\ packet[held[i]] \in Devices
    /\ \/ acc' = [acc EXCEPT ![i] = "store"] /\ UNCHANGED held
       \/ Continue(i)
    /\ UNCHANGED <<client, admin, table, recv>>

StartReceiver(i, c) ==
    /\ owner' = [owner EXCEPT ![c] = i]
    /\ turn' = [turn EXCEPT ![c] = turns + 1]
    /\ turns' = turns + 1
    /\ recv' = [recv EXCEPT ![c] = "online"]

(* As a bug: a device that is in the table keeps its entry.                *)
RegisterOnce(i) ==
    /\ acc[i] = "store"
    /\ LET c == held[i] IN
       /\ children' = [children EXCEPT ![i][packet[c]] = IF @ = NoConn THEN c ELSE @]
       /\ StartReceiver(i, c)
    /\ Continue(i)
    /\ UNCHANGED <<client, admin>>

(* As a bug: the loop goes on without letting go of the connection.        *)
RegisterAndHold(i) ==
    /\ acc[i] = "store"
    /\ LET c == held[i] IN
       /\ children' = [children EXCEPT ![i][packet[c]] = c]
       /\ StartReceiver(i, c)
    /\ acc' = [acc EXCEPT ![i] = "accept"]
    /\ UNCHANGED <<client, admin, held>>

(* The tunnel's id is its device's key: the table keeps one per device.    *)
(* The receiver is started; the device that ServerTunnelAction loads is    *)
(* stored where nobody finds it (see GetDevice).                           *)
Register(i) ==
    /\ acc[i] = "store"
    /\ LET c == held[i] IN
       /\ children' = [children EXCEPT ![i][packet[c]] = c]
       /\ StartReceiver(i, c)
    /\ Continue(i)
    /\ UNCHANGED <<client, admin>>

AcceptLoop(i) ==
    \/ Accept(i) \/ (listener[i] = "closed" /\ AcceptFails(i))
    \/ Refuse(i) \/ NewTunnel(i) \/ Register(i)

-----------------------------------------------------------------------------
(* The receivers.                                                          *)
(* GetDevice loads by a number what AddDevice stores by a string: it gives *)
(* nil for every device.                                                   *)
GetDevice(d) == "nil"

(* As a bug: that receiver leaves its entry behind.                        *)
GoOnlineOrEnd(c) ==
    /\ recv[c] = "online"
    /\ recv' \in {[recv EXCEPT ![c] = "reading"], [recv EXCEPT ![c] = "done"]}
    /\ UNCHANGED <<client, admin, loop, table>>

(* TunnelOnlineAction fails for a device that the database does not give;  *)
(* then the receiver ends without closing its connection.                  *)
GoOnline(c) ==
    /\ recv[c] = "online"
    /\ recv' \in {[recv EXCEPT ![c] = "reading"], [recv EXCEPT ![c] = "remove"]}
    /\ UNCHANGED <<client, admin, loop, table>>

(* As a bug: the loop reads on after an error.                             *)
ReadFailsOn(c) ==
    /\ recv[c] = "reading" /\ conn[c] = "closed"
    /\ UNCHANGED vars

ReadFails(c) ==
    /\ recv[c] = "reading" /\ conn[c] = "closed"
    /\ recv' = [recv EXCEPT ![c] = "offline"]
    /\ UNCHANGED <<client, admin, loop, table>>

(* TunnelOfflineAction stops the device, if the database gives one: Stop   *)
(* of nil panics.                                                          *)
GoOffline(c) ==
    /\ recv[c] = "offline"
    /\ \/ /\ recv' = [recv EXCEPT ![c] = "remove"]
          /\ UNCHANGED <<client, admin, loop, table>>
       \/ GetDevice(packet[c]) = "nil" /\ Crash

(* As a bug: the whole table goes with it.                                 *)
RemoveTunnels(c) ==
    /\ recv[c] = "remove"
    /\ recv' = [recv EXCEPT ![c] = "done"]
    /\ children' = [children EXCEPT ![owner[c]] = [d \in Devices |-> NoConn]]
    /\ UNCHANGED <<client, admin, loop, owner, turn, turns>>

(* RemoveTunnel deletes by the tunnel's id, whoever's entry it now is.     *)
RemoveTunnel(c) ==
    /\ recv[c] = "remove"
    /\ recv' = [recv EXCEPT ![c] = "done"]
    /\ children' = [children EXCEPT ![owner[c]][packet[c]] = NoConn]
    /\ UNCHANGED <<client, admin, loop, owner, turn, turns>>

Receiver(c) == GoOnline(c) \/ ReadFails(c) \/ GoOffline(c) \/ RemoveTunnel(c)

-----------------------------------------------------------------------------
(* The table is a Go map without a lock.  While a goroutine is about to    *)
(* write it, another that writes it, Close that ranges over it, or a       *)
(* command that looks a tunnel up may meet the write: a fatal error of the *)
(* runtime.                                                                *)
MapRace(i) ==
    /\ \/ acc[i] = "store"
       \/ \E c \in Conns : recv[c] = "remove" /\ owner[c] = i
    /\ Crash

Server(i) ==
    \/ StartServer(i) \/ Open(i) \/ RemoveServer(i) \/ Close(i)
    \/ AcceptLoop(i) \/ AcceptFails(i) \/ MapRace(i)

Next ==
    \/ Client
    \/ \E i \in Instances : Server(i)
    \/ \E c \in Conns : Receiver(c)

Spec == Init /\ [][Next]_vars

(* Goroutines are scheduled; nobody need start, remove, connect, send or   *)
(* hang up, and no race or accept error need happen.                       *)
FairSpec ==
    /\ Spec
    /\ \A i \in Instances : WF_vars(Open(i)) /\ WF_vars(Close(i)) /\ WF_vars(AcceptLoop(i))
    /\ \A c \in Conns : WF_vars(Receiver(c))

-----------------------------------------------------------------------------
Listed(c) == \E i \in Instances, d \in Devices : children[i][d] = c

(* Whoever is in the table has a receiver that will take it out: no entry  *)
(* outlives its receiver (server-tcp.go:75-78), though receivers take out  *)
(* entries of others.                                                      *)
EntryHasReceiver ==
    \A i \in Instances, d \in Devices : \A c \in Conns :
        children[i][d] = c =>
            owner[c] = i /\ packet[c] = d /\ recv[c] \in Receiving

(* The entry of a device is its newest connection: commands never go to an *)
(* older one once a newer one registered (server-tcp.go:74).               *)
NewestIsListed ==
    \A i \in Instances, d \in Devices : \A c, e \in Conns :
        children[i][d] = c /\ owner[e] = i /\ packet[e] = d => turn[e] <= turn[c]

(* A connection that is being received from and is not in the table, so    *)
(* that no command reaches it and Close does not close it, shares its      *)
(* device with another connection (server-tcp.go:74,77).                   *)
OnlyReconnectsHide ==
    \A c \in Conns :
        recv[c] \in {"online", "reading"} /\ ~ Listed(c) =>
            \E e \in Conns \ {c} : owner[e] = owner[c] /\ packet[e] = packet[c]

(* A listening instance that allServers does not lead to, so that no       *)
(* administrator can close it any more, was stored over by a later start   *)
(* or removed at some time (server-manager.go:23).                         *)
UnreachableWasReplaced ==
    \A i \in Instances :
        listener[i] \in {"stored", "open"} /\ registry # i /\ closer[i] = "none" =>
            \E j \in Instances : j > i /\ listener[j] # "none"

(* The entry of a connection that ended goes, with the whole table if the  *)
(* process dies (server-tcp.go:77).                                        *)
EndedConnectionIsUnlisted ==
    \A c \in Conns : (Listed(c) /\ conn[c] = "closed") ~> ~ Listed(c)

(* The accept loop waits for a client that sends nothing, or has ended on  *)
(* an error while its listener is open.                                    *)
Stalled ==
    \E i \in Instances :
        \/ acc[i] = "read" /\ packet[held[i]] = "silent"
        \/ acc[i] = "off" /\ listener[i] = "open"

(* Nothing else keeps a connection waiting to be accepted: neither refused *)
(* clients nor failing registrations, nor receivers, hold up the loop      *)
(* (server-tcp.go:48-80).                                                  *)
OnlySilenceStalls ==
    \A c \in Conns : (c \in Queued) ~> (c \notin Queued \/ Stalled)
=============================================================================
