--------------------------- MODULE TcpServerProofs ---------------------------
(***************************************************************************)
(* TLAPS proofs about TcpServer, for any devices and any number of         *)
(* connections and starts.                                                 *)
(***************************************************************************)
EXTENDS TcpServer, TLAPS

USE BoundsAssumption, DevicesAssumption
    DEF Conns, NoConn, Instances, Packets, Holding, Receiving

(* A connection is in one place: it waits in the backlog, once, or one     *)
(* loop holds it, or it has a receiver.                                    *)
InOnePlace ==
    /\ \A n \in DOMAIN backlog :
          /\ conn[backlog[n]] # "new" /\ recv[backlog[n]] = "none"
          /\ \A i \in Instances : held[i] # backlog[n]
          /\ \A m \in DOMAIN backlog : backlog[m] = backlog[n] => m = n
    /\ \A i \in Instances : held[i] # NoConn =>
          /\ conn[held[i]] # "new" /\ recv[held[i]] = "none"
          /\ \A j \in Instances : held[j] = held[i] => j = i

(* Only connections whose packet names a device get as far as the table.   *)
Identified ==
    /\ \A i \in Instances : acc[i] = "store" => packet[held[i]] \in Devices
    /\ \A c \in Conns : recv[c] # "none" => conn[c] # "new" /\ packet[c] \in Devices

(* Instances are made in order, and allServers leads to one that was made. *)
InOrder ==
    /\ \A i, j \in Instances : i < j /\ listener[j] # "none" => listener[i] # "none"
    /\ registry # 0 => listener[registry] # "none"
    /\ \A i \in Instances : listener[i] = "none" => closer[i] = "none"

(* A loop runs only once its listener was opened.                          *)
IdleUntilOpen ==
    \A i \in Instances : listener[i] \in {"none", "stored"} => acc[i] = "off"

Listing == EntryHasReceiver /\ NewestIsListed /\ OnlyReconnectsHide

TableInv == TypeOK /\ InOnePlace /\ Identified /\ Listing

LEMMA TableInvInit == Init => TableInv
<1> SUFFICES ASSUME Init PROVE TableInv
  OBVIOUS
<1>1. TypeOK
  BY DEF Init, TypeOK, NoChildren
<1>2. InOnePlace /\ Identified
  BY DEF Init, InOnePlace, Identified
<1>3. Listing
  BY DEF Init, Listing, EntryHasReceiver, NewestIsListed, OnlyReconnectsHide, NoChildren
<1> QED
  BY <1>1, <1>2, <1>3 DEF TableInv

(* The listing is about the table, the receivers and the packets alone.    *)
LEMMA ListingKept == Listing /\ UNCHANGED <<table, recv, packet>> => Listing'
  BY DEF table, Listing, EntryHasReceiver, NewestIsListed, OnlyReconnectsHide, Listed

(* Most steps move no connection: they may close some, empty the backlog,  *)
(* and let go of connections.                                              *)
LEMMA PlaceKept ==
  ASSUME TypeOK, InOnePlace, Identified,
         backlog' = backlog \/ backlog' = <<>>,
         \A c \in Conns : conn[c] # "new" => conn'[c] # "new",
         \A c \in Conns : recv'[c] = "none" <=> recv[c] = "none",
         \A c \in Conns : packet[c] \in Devices => packet'[c] \in Devices,
         \A i \in Instances : held'[i] = held[i] \/ held'[i] = NoConn,
         \A i \in Instances : acc'[i] = "store" => packet'[held'[i]] \in Devices
  PROVE  InOnePlace' /\ Identified'
<1>1. \A n \in DOMAIN backlog : backlog[n] \in Conns
  BY DEF TypeOK
<1>2. \A i \in Instances : held[i] # NoConn => held[i] \in Conns
  BY DEF TypeOK
<1>3. Identified'
  BY DEF Identified
<1>4. \A n \in DOMAIN backlog' : n \in DOMAIN backlog /\ backlog'[n] = backlog[n]
  OBVIOUS
<1>5. InOnePlace'
  BY <1>1, <1>2, <1>4 DEF InOnePlace
<1> QED
  BY <1>3, <1>5

(* A crash empties the table and everything that it is held against.       *)
LEMMA CrashKeeps == TypeOK /\ Crash => TableInv'
<1> SUFFICES ASSUME TypeOK, Crash PROVE TableInv'
  OBVIOUS
<1> USE DEF Crash
<1>1. TypeOK'
  <2>1. /\ conn' \in [Conns -> {"new", "up", "closed"}]
        /\ packet' \in [Conns -> Packets]
        /\ backlog' \in Seq(Conns)
        /\ registry' \in {0} \cup Instances
        /\ listener' \in [Instances -> {"none", "stored", "open", "closed"}]
        /\ closer' \in [Instances -> {"none", "range", "listener", "done"}]
    BY DEF TypeOK
  <2>2. /\ acc' \in [Instances -> {"off", "accept"} \cup Holding]
        /\ held' \in [Instances -> Conns \cup {NoConn}]
        /\ \A i \in Instances : acc'[i] \in Holding <=> held'[i] \in Conns
        /\ children' \in [Instances -> [Devices -> Conns \cup {NoConn}]]
    BY DEF NoChildren
  <2>3. /\ owner' \in [Conns -> {0} \cup Instances]
        /\ turns' \in Nat
        /\ turn' \in [Conns -> 0 .. turns']
        /\ recv' \in [Conns -> {"none", "done"} \cup Receiving]
        /\ \A c \in Conns : recv'[c] = "none" <=> owner'[c] = 0
    OBVIOUS
  <2> QED
    BY <2>1, <2>2, <2>3 DEF TypeOK
<1>2. InOnePlace' /\ Identified'
  BY DEF InOnePlace, Identified
<1>3. Listing'
  BY DEF Listing, EntryHasReceiver, NewestIsListed, OnlyReconnectsHide, NoChildren
<1> QED
  BY <1>1, <1>2, <1>3 DEF TableInv

(* The backlog gains a connection, or loses its first.                     *)
LEMMA AppendFacts ==
  ASSUME NEW q \in Seq(Conns), NEW c \in Conns
  PROVE  /\ Append(q, c) \in Seq(Conns)
         /\ DOMAIN Append(q, c) = DOMAIN q \cup {Len(q) + 1} /\ Len(q) + 1 \notin DOMAIN q
         /\ Append(q, c)[Len(q) + 1] = c
         /\ \A n \in DOMAIN q : Append(q, c)[n] = q[n] /\ q[n] \in Conns
  OBVIOUS

LEMMA IdleStep == TypeOK /\ IdleUntilOpen /\ [Next]_vars => IdleUntilOpen'
<1> SUFFICES ASSUME TypeOK, IdleUntilOpen, [Next]_vars PROVE IdleUntilOpen'
  OBVIOUS
<1> USE DEF client, admin, loop, TypeOK, IdleUntilOpen
<1>1. CASE UNCHANGED <<listener, acc>>
  BY <1>1
<1>2. CASE Crash
  BY <1>2 DEF Crash
<1>3. ASSUME NEW i \in Instances, StartServer(i) \/ Open(i) PROVE IdleUntilOpen'
  BY <1>3 DEF StartServer, Open
<1>4. ASSUME NEW i \in Instances, CloseListener(i) PROVE IdleUntilOpen'
  BY <1>4 DEF CloseListener
<1>5. ASSUME NEW i \in Instances, AcceptLoop(i) \/ AcceptFails(i) PROVE IdleUntilOpen'
  <2>1. /\ acc[i] # "off" /\ UNCHANGED listener
        /\ \A j \in Instances : j # i => acc'[j] = acc[j]
    BY <1>5 DEF AcceptLoop, Accept, AcceptFails, Refuse, NewTunnel, Register, Continue
  <2> QED
    BY <2>1
<1>6. ASSUME NEW i \in Instances, RemoveServer(i) \/ CloseChildren(i)
      PROVE  UNCHANGED <<listener, acc>>
  BY <1>6 DEF RemoveServer, CloseChildren
<1>7. ASSUME Client PROVE UNCHANGED <<listener, acc>>
  BY <1>7 DEF Client, Connect, Send, HangUp
<1>8. ASSUME NEW c \in Conns, Receiver(c) PROVE UNCHANGED <<listener, acc>> \/ Crash
  BY <1>8 DEF Receiver, GoOnline, ReadFails, GoOffline, RemoveTunnel
<1>9. CASE UNCHANGED vars
  BY <1>1, <1>9 DEF vars
<1> QED
  BY <1>1, <1>2, <1>3, <1>4, <1>5, <1>6, <1>7, <1>8, <1>9
     DEF Next, Server, Close, MapRace

LEMMA TableInvStep == TableInv /\ IdleUntilOpen /\ [Next]_vars => TableInv'
<1> SUFFICES ASSUME TableInv, IdleUntilOpen, [Next]_vars PROVE TableInv'
  OBVIOUS
<1> USE DEF client, admin, loop, table
<1>0. TypeOK /\ InOnePlace /\ Identified /\ Listing
  BY DEF TableInv
<1>1. CASE UNCHANGED vars
  <2>1. TypeOK' /\ InOnePlace' /\ Identified'
    BY <1>0, <1>1 DEF vars, TypeOK, InOnePlace, Identified
  <2>2. Listing'
    BY <1>0, <1>1, ListingKept DEF vars
  <2> QED
    BY <2>1, <2>2 DEF TableInv
<1>2. ASSUME NEW c \in Conns, Connect(c) PROVE TableInv'
  <2> USE DEF Connect
  <2>1. TypeOK'
    BY <1>0, <1>2 DEF TypeOK
  <2>2. InOnePlace'
    <3>1. backlog' = Append(backlog, c) /\ backlog \in Seq(Conns)
      BY <1>0, <1>2 DEF TypeOK
    <3>2. recv[c] = "none" /\ \A i \in Instances : held[i] # c
      <4>1. conn[c] = "new"
        BY <1>2
      <4> QED
        BY <1>0, <4>1 DEF InOnePlace, Identified
    <3>3. \A n \in DOMAIN backlog : backlog[n] # c
      BY <1>0, <1>2 DEF InOnePlace
    <3>4. /\ DOMAIN backlog' = DOMAIN backlog \cup {Len(backlog) + 1}
          /\ Len(backlog) + 1 \notin DOMAIN backlog
          /\ backlog'[Len(backlog) + 1] = c
          /\ \A n \in DOMAIN backlog : backlog'[n] = backlog[n] /\ backlog[n] \in Conns
      BY <3>1, AppendFacts
    <3>5. UNCHANGED <<held, recv>> /\ conn'[c] = "up"
          /\ \A e \in Conns : e # c => conn'[e] = conn[e]
      BY <1>0, <1>2 DEF TypeOK
    <3>6. \A j \in Instances : held[j] # NoConn => held[j] \in Conns
      BY <1>0 DEF TypeOK
    <3> QED
      BY <1>0, <3>2, <3>3, <3>4, <3>5, <3>6 DEF InOnePlace
  <2>3. Identified'
    BY <1>0, <1>2 DEF Identified, TypeOK
  <2>4. Listing'
    BY <1>0, <1>2, ListingKept
  <2> QED
    BY <2>1, <2>2, <2>3, <2>4 DEF TableInv
<1>3. ASSUME NEW c \in Conns, NEW p \in Packets, Send(c, p) PROVE TableInv'
  <2> USE DEF Send
  <2>1. TypeOK'
    BY <1>0, <1>3 DEF TypeOK
  <2>2. \A e \in Conns : e # c => packet'[e] = packet[e]
    BY <1>0, <1>3 DEF TypeOK
  <2>3. recv[c] = "none" /\ \A i \in Instances : acc[i] = "store" => held[i] # c
    BY <1>0, <1>3 DEF Identified
  <2>4. \A e \in Conns : packet[e] \in Devices => e # c
    BY <1>3
  <2>5. InOnePlace' /\ Identified'
    BY <1>0, <1>3, <2>2, <2>4, PlaceKept DEF Identified, TypeOK
  <2>6. \A e \in Conns : owner[e] # 0 => e # c
    BY <1>0, <2>3 DEF TypeOK
  <2>7. Listing'
    <3>1. UNCHANGED <<table, recv>>
      BY <1>3
    <3>2. \A e \in Conns : recv[e] # "none" => e # c
      BY <2>3
    <3>3. EntryHasReceiver'
      BY <1>0, <2>2, <2>6, <3>1 DEF Listing, EntryHasReceiver
    <3>4. NewestIsListed'
      BY <1>0, <2>2, <2>6, <3>1 DEF Listing, NewestIsListed, EntryHasReceiver
    <3>5. OnlyReconnectsHide'
      <4> SUFFICES ASSUME NEW e \in Conns, recv[e] \in {"online", "reading"}, ~ Listed(e)
                   PROVE  \E f \in Conns \ {e} : owner[f] = owner[e]
                                                 /\ packet'[f] = packet'[e]
        BY <3>1 DEF OnlyReconnectsHide, Listed
      <4>1. PICK f \in Conns \ {e} : owner[f] = owner[e] /\ packet[f] = packet[e]
        BY <1>0 DEF Listing, OnlyReconnectsHide
      <4>2. owner[e] # 0
        BY <1>0 DEF TypeOK
      <4> QED
        BY <2>2, <2>6, <4>1, <4>2
    <3> QED
      BY <3>3, <3>4, <3>5 DEF Listing
  <2> QED
    BY <2>1, <2>5, <2>7 DEF TableInv
<1>4. ASSUME NEW c \in Conns, HangUp(c) PROVE TableInv'
  <2>1. CASE HangUp(c)
    <3> USE DEF HangUp
    <3>1. TypeOK'
      BY <1>0, <2>1 DEF TypeOK
    <3>2. InOnePlace' /\ Identified'
      BY <1>0, <2>1, PlaceKept DEF TypeOK, Identified
    <3>3. Listing'
      BY <1>0, <2>1, ListingKept
    <3> QED
      BY <3>1, <3>2, <3>3 DEF TableInv
  <2> QED
    BY <1>4, <2>1
<1>5. ASSUME NEW i \in Instances, StartServer(i) \/ RemoveServer(i) PROVE TableInv'
  <2>1. CASE StartServer(i)
    <3> USE DEF StartServer
    <3>1. TypeOK'
      BY <1>0, <2>1 DEF TypeOK
    <3>2. InOnePlace' /\ Identified'
      BY <1>0, <2>1, PlaceKept DEF TypeOK, Identified
    <3>3. Listing'
      BY <1>0, <2>1, ListingKept
    <3> QED
      BY <3>1, <3>2, <3>3 DEF TableInv
  <2>2. CASE RemoveServer(i)
    <3> USE DEF RemoveServer
    <3>1. TypeOK'
      BY <1>0, <2>2 DEF TypeOK
    <3>2. InOnePlace' /\ Identified'
      BY <1>0, <2>2, PlaceKept DEF TypeOK, Identified
    <3>3. Listing'
      BY <1>0, <2>2, ListingKept
    <3> QED
      BY <3>1, <3>2, <3>3 DEF TableInv
  <2> QED
    BY <1>5, <2>1, <2>2
<1>6. ASSUME NEW i \in Instances, Open(i) \/ AcceptFails(i) PROVE TableInv'
  <2>1. CASE Open(i)
    <3> USE DEF Open
    <3>0. /\ acc[i] = "off" /\ acc'[i] \in {"off", "accept"}
          /\ \A j \in Instances : j # i => acc'[j] = acc[j]
          /\ acc' \in [Instances -> {"off", "accept"} \cup Holding]
          /\ listener' \in [Instances -> {"none", "stored", "open", "closed"}]
          /\ UNCHANGED <<client, registry, closer, held, table, recv>>
      <4>1. /\ \/ UNCHANGED acc
               \/ acc' = [acc EXCEPT ![i] = "accept"]
            /\ \/ listener' = [listener EXCEPT ![i] = "closed"]
               \/ listener' = [listener EXCEPT ![i] = "open"]
            /\ listener[i] = "stored"
            /\ UNCHANGED <<client, registry, closer, held, table, recv>>
        BY <2>1
      <4>2. acc[i] = "off"
        BY <4>1 DEF IdleUntilOpen
      <4> HIDE DEF Open
      <4>3. /\ listener \in [Instances -> {"none", "stored", "open", "closed"}]
            /\ acc \in [Instances -> {"off", "accept"} \cup Holding]
        BY <1>0 DEF TypeOK
      <4>4. listener' \in [Instances -> {"none", "stored", "open", "closed"}]
        BY <4>1, <4>3
      <4>5. /\ acc' \in [Instances -> {"off", "accept"} \cup Holding]
            /\ acc'[i] \in {"off", "accept"}
            /\ \A j \in Instances : j # i => acc'[j] = acc[j]
        BY <4>1, <4>2, <4>3
      <4> QED
        BY <4>1, <4>2, <4>4, <4>5
    <3>1. TypeOK'
      <4>1. \A j \in Instances : acc'[j] \in Holding <=> acc[j] \in Holding
        BY <3>0
      <4> QED
        BY <1>0, <3>0, <4>1 DEF TypeOK
    <3>2. InOnePlace' /\ Identified'
      <4>1. \A j \in Instances : acc'[j] = "store" => acc[j] = "store"
        BY <3>0
      <4> QED
        BY <1>0, <3>0, <4>1, PlaceKept DEF Identified
    <3>3. Listing'
      BY <1>0, <2>1, ListingKept
    <3> QED
      BY <3>1, <3>2, <3>3 DEF TableInv
  <2>2. CASE AcceptFails(i)
    <3> USE DEF AcceptFails
    <3>1. TypeOK'
      BY <1>0, <2>2 DEF TypeOK
    <3>2. InOnePlace' /\ Identified'
      BY <1>0, <2>2, PlaceKept DEF TypeOK, Identified
    <3>3. Listing'
      BY <1>0, <2>2, ListingKept
    <3> QED
      BY <3>1, <3>2, <3>3 DEF TableInv
  <2> QED
    BY <1>6, <2>1, <2>2
<1>7. ASSUME NEW i \in Instances, CloseChildren(i) PROVE TableInv'
  <2>1. CASE CloseChildren(i)
    <3> USE DEF CloseChildren
    <3>1. TypeOK'
      BY <1>0, <2>1 DEF TypeOK
    <3>2. InOnePlace' /\ Identified'
      BY <1>0, <2>1, PlaceKept DEF TypeOK, Identified
    <3>3. Listing'
      BY <1>0, <2>1, ListingKept
    <3> QED
      BY <3>1, <3>2, <3>3 DEF TableInv
  <2> QED
    BY <1>7, <2>1
<1>8. ASSUME NEW i \in Instances, CloseListener(i) PROVE TableInv'
  <2>1. CASE CloseListener(i)
    <3> USE DEF CloseListener
    <3>0. /\ conn' \in [Conns -> {"new", "up", "closed"}]
          /\ \A c \in Conns : conn[c] # "new" => conn'[c] # "new"
          /\ listener' \in [Instances -> {"none", "stored", "open", "closed"}]
          /\ closer' \in [Instances -> {"none", "range", "listener", "done"}]
          /\ backlog' = backlog \/ backlog' = <<>>
      <4>1. CASE listener[i] = "open"
        <5>1. /\ listener' = [listener EXCEPT ![i] = "closed"]
              /\ closer' = [closer EXCEPT ![i] = "done"] /\ backlog' = <<>>
              /\ conn' = [c \in Conns |-> IF c \in Queued THEN "closed" ELSE conn[c]]
          BY <2>1, <4>1
        <5>2. \A c \in Conns : conn'[c] \in {conn[c], "closed"}
          BY <5>1
        <5>3. conn' \in [Conns -> {"new", "up", "closed"}]
          BY <1>0, <5>1 DEF TypeOK
        <5> QED
          BY <1>0, <5>1, <5>2, <5>3 DEF TypeOK
      <4>2. CASE listener[i] # "open"
        BY <1>0, <2>1, <4>2 DEF TypeOK
      <4> QED
        BY <4>1, <4>2
    <3>1. TypeOK'
      <4>1. UNCHANGED <<packet, registry, loop, table, recv>>
        BY <2>1
      <4>2. backlog \in Seq(Conns) /\ <<>> \in Seq(Conns)
        BY <1>0 DEF TypeOK
      <4>3. backlog' \in Seq(Conns)
        BY <3>0, <4>2
      <4> HIDE DEF CloseListener
      <4> QED
        BY <1>0, <3>0, <4>1, <4>3 DEF TypeOK
    <3>2. InOnePlace' /\ Identified'
      <4>1. UNCHANGED <<packet, loop, recv>>
        BY <2>1
      <4> QED
        BY <1>0, <3>0, <4>1, PlaceKept DEF Identified
    <3>3. Listing'
      BY <1>0, <2>1, ListingKept
    <3> QED
      BY <3>1, <3>2, <3>3 DEF TableInv
  <2> QED
    BY <1>8, <2>1
<1>9. ASSUME NEW i \in Instances, Accept(i) PROVE TableInv'
  <2> USE DEF Accept
  <2>1. /\ Head(backlog) = backlog[1] /\ 1 \in DOMAIN backlog
        /\ DOMAIN backlog' = 1 .. Len(backlog) - 1 /\ DOMAIN backlog = 1 .. Len(backlog)
        /\ \A n \in DOMAIN backlog' : backlog'[n] = backlog[n + 1] /\ n + 1 \in DOMAIN backlog
    BY <1>0, <1>9 DEF TypeOK
  <2>2. backlog[1] \in Conns
    BY <1>0, <2>1 DEF TypeOK
  <2>3. TypeOK'
    BY <1>0, <1>9, <2>1, <2>2 DEF TypeOK
  <2>4. /\ held'[i] = backlog[1]
        /\ \A j \in Instances : j # i => held'[j] = held[j]
    BY <1>0, <1>9, <2>1 DEF TypeOK
  <2>5. InOnePlace'
    <3>1. \A n \in DOMAIN backlog' : backlog[n + 1] # backlog[1]
      BY <1>0, <2>1 DEF InOnePlace
    <3> QED
      BY <1>0, <1>9, <2>1, <2>2, <2>4, <3>1 DEF InOnePlace
  <2>6. Identified'
    BY <1>0, <1>9, <2>4 DEF Identified, TypeOK
  <2>7. Listing'
    BY <1>0, <1>9, ListingKept
  <2> QED
    BY <2>3, <2>5, <2>6, <2>7 DEF TableInv
<1>10. ASSUME NEW i \in Instances, Refuse(i) \/ NewTunnel(i) PROVE TableInv'
  <2> USE DEF Refuse, NewTunnel, Continue
  <2>1. acc[i] = "read" /\ held[i] \in Conns
    BY <1>0, <1>10 DEF TypeOK
  <2>2. /\ conn' \in [Conns -> {"new", "up", "closed"}]
        /\ \A c \in Conns : conn[c] # "new" => conn'[c] # "new"
        /\ UNCHANGED <<packet, backlog, admin, table, recv>>
    <3>1. CASE Refuse(i)
      BY <1>0, <2>1, <3>1 DEF TypeOK
    <3>2. CASE NewTunnel(i)
      BY <1>0, <3>2 DEF TypeOK
    <3> QED
      BY <1>10, <3>1, <3>2
  <2>3. /\ acc' \in [Instances -> {"off", "accept"} \cup Holding]
        /\ held' \in [Instances -> Conns \cup {NoConn}]
        /\ \A j \in Instances : j # i => acc'[j] = acc[j] /\ held'[j] = held[j]
        /\ \/ acc'[i] = "accept" /\ held'[i] = NoConn
           \/ /\ acc'[i] = "store" /\ held'[i] = held[i]
              /\ packet[held[i]] \in Devices
    <3>1. CASE Refuse(i)
      BY <1>0, <3>1 DEF TypeOK
    <3>2. CASE NewTunnel(i) /\ Continue(i)
      BY <1>0, <3>2 DEF TypeOK
    <3>3. CASE NewTunnel(i) /\ ~ Continue(i)
      <4>1. /\ acc' = [acc EXCEPT ![i] = "store"] /\ UNCHANGED held
            /\ packet[held[i]] \in Devices
        BY <3>3
      <4> QED
        BY <1>0, <4>1 DEF TypeOK
    <3> QED
      BY <1>10, <3>1, <3>2, <3>3
  <2>4. TypeOK'
    <3>1. \A j \in Instances : acc'[j] \in Holding <=> held'[j] \in Conns
      <4>1. acc'[i] \in Holding <=> held'[i] \in Conns
        BY <2>1, <2>3
      <4>2. \A j \in Instances : acc[j] \in Holding <=> held[j] \in Conns
        BY <1>0 DEF TypeOK
      <4> QED
        BY <2>3, <4>1, <4>2
    <3> HIDE DEF Refuse, NewTunnel, Continue
    <3> QED
      BY <1>0, <2>2, <2>3, <3>1 DEF TypeOK
  <2>5. InOnePlace' /\ Identified'
    <3>1. \A j \in Instances : acc'[j] = "store" => packet'[held'[j]] \in Devices
      BY <1>0, <2>2, <2>3 DEF Identified
    <3>2. \A j \in Instances : held'[j] = held[j] \/ held'[j] = NoConn
      BY <2>3
    <3> QED
      BY <1>0, <2>2, <3>1, <3>2, PlaceKept
  <2>6. Listing'
    BY <1>0, <2>2, ListingKept
  <2> QED
    BY <2>4, <2>5, <2>6 DEF TableInv
<1>11. ASSUME NEW i \in Instances, Register(i) PROVE TableInv'
  <2> DEFINE c == held[i]
             d == packet[c]
  <2> USE DEF Register, StartReceiver, Continue
  <2>1. /\ c \in Conns /\ d \in Devices /\ recv[c] = "none" /\ owner[c] = 0
        /\ conn[c] # "new" /\ \A j \in Instances : held[j] = c => j = i
    BY <1>0, <1>11 DEF TypeOK, InOnePlace, Identified
  <2>2. /\ children'[i][d] = c
        /\ \A j \in Instances, e \in Devices :
              j # i \/ e # d => children'[j][e] = children[j][e]
        /\ owner'[c] = i /\ turn'[c] = turns + 1 /\ recv'[c] = "online"
        /\ \A e \in Conns : e # c =>
              owner'[e] = owner[e] /\ turn'[e] = turn[e] /\ recv'[e] = recv[e]
        /\ held'[i] = NoConn /\ \A j \in Instances : j # i => held'[j] = held[j]
    BY <1>0, <1>11, <2>1 DEF TypeOK
  <2>3. TypeOK'
    BY <1>0, <1>11, <2>1, <2>2 DEF TypeOK
  <2>4. InOnePlace'
    <3>1. UNCHANGED <<conn, backlog>>
      BY <1>11
    <3>2. \A n \in DOMAIN backlog : backlog[n] # c /\ backlog[n] \in Conns
      BY <1>0, <2>1 DEF InOnePlace, TypeOK
    <3>3. \A j \in Instances : held[j] # NoConn => held[j] \in Conns
      BY <1>0 DEF TypeOK
    <3> QED
      BY <1>0, <2>1, <2>2, <3>1, <3>2, <3>3 DEF InOnePlace
  <2>5. Identified'
    BY <1>0, <1>11, <2>1, <2>2 DEF Identified, TypeOK
  <2>6. UNCHANGED packet
    BY <1>11
  <2>7. EntryHasReceiver'
    BY <1>0, <2>1, <2>2, <2>6 DEF Listing, EntryHasReceiver
  <2>8. NewestIsListed'
    <3>1. \A e \in Conns : turn[e] <= turns /\ turn[e] \in Nat /\ turns \in Nat
      BY <1>0 DEF TypeOK
    <3>2. \A j \in Instances, e \in Devices : children[j][e] # c
      BY <1>0, <2>1 DEF Listing, EntryHasReceiver
    <3> QED
      BY <1>0, <2>1, <2>2, <2>6, <3>1, <3>2 DEF Listing, NewestIsListed
  <2>9. OnlyReconnectsHide'
    <3> SUFFICES ASSUME NEW e \in Conns, recv'[e] \in {"online", "reading"}, ~ Listed(e)'
                 PROVE  \E f \in Conns \ {e} : owner'[f] = owner'[e] /\ packet[f] = packet[e]
      BY <2>6 DEF OnlyReconnectsHide
    <3>1. e # c
      BY <2>1, <2>2 DEF Listed
    <3>2. recv[e] \in {"online", "reading"} /\ owner[e] # 0 /\ owner'[e] = owner[e]
      BY <1>0, <2>2, <3>1 DEF TypeOK
    <3>3. CASE Listed(e)
      <4>1. PICK j \in Instances, g \in Devices : children[j][g] = e
        BY <3>3 DEF Listed
      <4>2. j = i /\ g = d
        BY <2>2, <4>1 DEF Listed
      <4>3. owner[e] = i /\ packet[e] = d
        BY <1>0, <4>1, <4>2 DEF Listing, EntryHasReceiver
      <4> QED
        BY <2>1, <2>2, <3>1, <3>2, <4>3
    <3>4. CASE ~ Listed(e)
      <4>1. PICK f \in Conns \ {e} : owner[f] = owner[e] /\ packet[f] = packet[e]
        BY <1>0, <3>2, <3>4 DEF Listing, OnlyReconnectsHide
      <4>2. f # c
        BY <2>1, <3>2, <4>1
      <4> QED
        BY <2>2, <3>2, <4>1, <4>2
    <3> QED
      BY <3>3, <3>4
  <2> QED
    BY <2>3, <2>4, <2>5, <2>7, <2>8, <2>9 DEF TableInv, Listing
<1>12. ASSUME NEW c \in Conns, GoOnline(c) \/ ReadFails(c) PROVE TableInv'
  <2>1. PICK r \in Receiving : recv' = [recv EXCEPT ![c] = r]
    BY <1>12 DEF GoOnline, ReadFails
  <2>2. /\ recv[c] \in {"online", "reading"}
        /\ UNCHANGED <<conn, packet, backlog, admin, acc, held, table>>
    BY <1>12 DEF GoOnline, ReadFails
  <2>3. /\ recv'[c] \in Receiving
        /\ \A e \in Conns : e # c => recv'[e] = recv[e]
    BY <1>0, <2>1 DEF TypeOK
  <2>4. TypeOK'
    BY <1>0, <2>1, <2>2, <2>3 DEF TypeOK
  <2>5. InOnePlace' /\ Identified'
    <3>1. \A e \in Conns : recv'[e] = "none" <=> recv[e] = "none"
      BY <2>2, <2>3
    <3> QED
      BY <1>0, <2>2, <3>1, PlaceKept DEF Identified
  <2>6. EntryHasReceiver' /\ NewestIsListed'
    BY <1>0, <2>2, <2>3 DEF Listing, EntryHasReceiver, NewestIsListed
  <2>7. OnlyReconnectsHide'
    BY <1>0, <2>2, <2>3 DEF Listing, OnlyReconnectsHide, Listed
  <2> QED
    BY <2>4, <2>5, <2>6, <2>7 DEF TableInv, Listing
<1>13. ASSUME NEW c \in Conns, GoOffline(c) PROVE TableInv'
  <2>1. CASE Crash
    BY <1>0, <2>1, CrashKeeps
  <2>2. CASE ~ Crash
    <3>1. /\ recv[c] = "offline" /\ recv' = [recv EXCEPT ![c] = "remove"]
          /\ UNCHANGED <<conn, packet, backlog, admin, acc, held, table>>
      BY <1>13, <2>2 DEF GoOffline
    <3>2. TypeOK'
      BY <1>0, <3>1 DEF TypeOK
    <3>3. InOnePlace' /\ Identified'
      BY <1>0, <3>1 DEF InOnePlace, Identified, TypeOK
    <3>4. recv'[c] = "remove" /\ \A e \in Conns : e # c => recv'[e] = recv[e]
      BY <1>0, <3>1 DEF TypeOK
    <3>5. EntryHasReceiver' /\ NewestIsListed'
      BY <1>0, <3>1, <3>4 DEF Listing, EntryHasReceiver, NewestIsListed
    <3>6. OnlyReconnectsHide'
      BY <1>0, <3>1, <3>4 DEF Listing, OnlyReconnectsHide, Listed
    <3> QED
      BY <3>2, <3>3, <3>5, <3>6 DEF TableInv, Listing
  <2> QED
    BY <2>1, <2>2
<1>14. ASSUME NEW c \in Conns, RemoveTunnel(c) PROVE TableInv'
  <2> DEFINE i == owner[c]
             d == packet[c]
  <2> USE DEF RemoveTunnel
  <2>1. i \in Instances /\ d \in Devices /\ recv[c] = "remove"
    BY <1>0, <1>14 DEF TypeOK, Identified
  <2>2. /\ children'[i][d] = NoConn
        /\ \A j \in Instances, e \in Devices :
              j # i \/ e # d => children'[j][e] = children[j][e]
        /\ recv'[c] = "done" /\ \A e \in Conns : e # c => recv'[e] = recv[e]
    BY <1>0, <1>14, <2>1 DEF TypeOK
  <2>3. TypeOK'
    <3>1. /\ children' \in [Instances -> [Devices -> Conns \cup {NoConn}]]
          /\ recv' \in [Conns -> {"none", "done"} \cup Receiving]
          /\ \A e \in Conns : recv'[e] = "none" <=> recv[e] = "none"
      BY <1>0, <1>14, <2>1, <2>2 DEF TypeOK
    <3>2. UNCHANGED <<client, admin, loop, owner, turn, turns>>
      BY <1>14
    <3> QED
      BY <1>0, <3>1, <3>2 DEF TypeOK
  <2>4. InOnePlace' /\ Identified'
    BY <1>0, <1>14, <2>1, <2>2 DEF InOnePlace, Identified, TypeOK
  <2>5. UNCHANGED <<packet, owner, turn, turns>>
    BY <1>14
  <2>6. EntryHasReceiver' /\ NewestIsListed'
    BY <1>0, <2>1, <2>2, <2>5 DEF Listing, EntryHasReceiver, NewestIsListed
  <2>7. OnlyReconnectsHide'
    <3> SUFFICES ASSUME NEW e \in Conns, recv'[e] \in {"online", "reading"}, ~ Listed(e)'
                 PROVE  \E f \in Conns \ {e} : owner[f] = owner[e] /\ packet[f] = packet[e]
      BY <2>5 DEF OnlyReconnectsHide
    <3>1. e # c /\ recv[e] \in {"online", "reading"}
      BY <2>2
    <3>2. CASE Listed(e)
      <4>1. PICK j \in Instances, g \in Devices : children[j][g] = e
        BY <3>2 DEF Listed
      <4>2. j = i /\ g = d
        BY <2>2, <4>1 DEF Listed
      <4>3. owner[e] = i /\ packet[e] = d
        BY <1>0, <4>1, <4>2 DEF Listing, EntryHasReceiver
      <4> QED
        BY <3>1, <4>3
    <3>3. CASE ~ Listed(e)
      BY <1>0, <3>1, <3>3 DEF Listing, OnlyReconnectsHide
    <3> QED
      BY <3>2, <3>3
  <2> QED
    BY <2>3, <2>4, <2>6, <2>7 DEF TableInv, Listing
<1>15. ASSUME NEW i \in Instances, MapRace(i) PROVE TableInv'
  BY <1>0, <1>15, CrashKeeps DEF MapRace
<1> QED
  BY <1>1, <1>2, <1>3, <1>4, <1>5, <1>6, <1>7, <1>8, <1>9, <1>10, <1>11, <1>12, <1>13,
     <1>14, <1>15
     DEF Next, Client, Server, Close, AcceptLoop, Receiver

LEMMA TableCorrect == Spec => []TableInv
<1>1. (Init => IdleUntilOpen) /\ (TableInv => TypeOK)
  BY DEF Init, IdleUntilOpen, TableInv
<1> QED
  BY <1>1, TableInvInit, TableInvStep, IdleStep, PTL DEF Spec

(* TypeOK: the values of the variables, that a loop holds a connection     *)
(* when it says so, and that owners and receivers are given together.      *)
THEOREM ServerTypeCorrect == Spec => []TypeOK
<1>1. TableInv => TypeOK
  BY DEF TableInv
<1> QED
  BY <1>1, TableCorrect, PTL

(* No entry of the table outlives its receiver (server-tcp.go:75-78).      *)
THEOREM EntriesReceived == Spec => []EntryHasReceiver
<1>1. TableInv => EntryHasReceiver
  BY DEF TableInv, Listing
<1> QED
  BY <1>1, TableCorrect, PTL

(* The entry of a device is the newest of its connections that the         *)
(* instance registered (server-tcp.go:74).                                 *)
THEOREM NewestListed == Spec => []NewestIsListed
<1>1. TableInv => NewestIsListed
  BY DEF TableInv, Listing
<1> QED
  BY <1>1, TableCorrect, PTL

(* The table misses a connection that is received from only if another one *)
(* shares its device (server-tcp.go:74,77).                                *)
THEOREM ReconnectsHide == Spec => []OnlyReconnectsHide
<1>1. TableInv => OnlyReconnectsHide
  BY DEF TableInv, Listing
<1> QED
  BY <1>1, TableCorrect, PTL

-----------------------------------------------------------------------------
AdminInv == InOrder /\ UnreachableWasReplaced

LEMMA AdminInvInit == Init => AdminInv
  BY DEF Init, AdminInv, InOrder, UnreachableWasReplaced

(* Only StartServer, Open, RemoveServer, Close and a crash touch the       *)
(* variables that AdminInv is about.                                       *)
LEMMA AdminInvStep == TypeOK /\ AdminInv /\ [Next]_vars => AdminInv'
<1> SUFFICES ASSUME TypeOK, AdminInv, [Next]_vars PROVE AdminInv'
  OBVIOUS
<1>1. CASE UNCHANGED admin
  BY <1>1 DEF admin, AdminInv, InOrder, UnreachableWasReplaced
<1>2. CASE Crash
  BY <1>2 DEF Crash, TypeOK, AdminInv, InOrder, UnreachableWasReplaced
<1>3. ASSUME NEW i \in Instances, StartServer(i) PROVE AdminInv'
  <2>1. /\ listener[i] = "none" /\ listener'[i] = "stored" /\ registry' = i
        /\ closer' = closer
        /\ \A j \in Instances : j # i => listener'[j] = listener[j]
    BY <1>3 DEF StartServer, TypeOK
  <2>2. \A j \in Instances : j < i => listener[j] # "none"
    BY <1>3 DEF StartServer
  <2>3. \A j \in Instances : listener[j] # "none" /\ j # i => j < i
    BY <2>1 DEF AdminInv, InOrder
  <2>4. InOrder'
    BY <2>1, <2>2, <2>3 DEF AdminInv, InOrder
  <2>5. UnreachableWasReplaced'
    BY <2>1, <2>3 DEF UnreachableWasReplaced
  <2> QED
    BY <2>4, <2>5 DEF AdminInv
<1>4. ASSUME NEW i \in Instances, Open(i) PROVE AdminInv'
  <2>1. /\ listener[i] = "stored" /\ listener'[i] \in {"open", "closed"}
        /\ \A j \in Instances : j # i => listener'[j] = listener[j]
        /\ UNCHANGED <<registry, closer>>
    BY <1>4 DEF Open, TypeOK
  <2>2. \A j \in Instances : listener'[j] = "none" <=> listener[j] = "none"
    BY <2>1
  <2>3. InOrder'
    BY <2>1, <2>2 DEF AdminInv, InOrder, TypeOK
  <2>4. UnreachableWasReplaced'
    BY <2>1, <2>2 DEF AdminInv, UnreachableWasReplaced
  <2> QED
    BY <2>3, <2>4 DEF AdminInv
<1>5. ASSUME NEW i \in Instances, RemoveServer(i) PROVE AdminInv'
  BY <1>5 DEF RemoveServer, TypeOK, AdminInv, InOrder, UnreachableWasReplaced
<1>6. ASSUME NEW i \in Instances, CloseChildren(i) \/ CloseListener(i) PROVE AdminInv'
  <2>1. /\ closer[i] # "none" /\ closer'[i] # "none" /\ UNCHANGED registry
        /\ \A j \in Instances : j # i => closer'[j] = closer[j]
    BY <1>6 DEF CloseChildren, CloseListener, TypeOK
  <2>2. \A j \in Instances :
           /\ listener'[j] = "none" <=> listener[j] = "none"
           /\ listener'[j] \in {"stored", "open"} => listener'[j] = listener[j]
    <3>1. CASE CloseChildren(i)
      BY <3>1 DEF CloseChildren
    <3>2. CASE CloseListener(i) /\ listener[i] = "open"
      BY <3>2 DEF CloseListener, TypeOK
    <3>3. CASE CloseListener(i) /\ listener[i] # "open"
      BY <3>3 DEF CloseListener
    <3> QED
      BY <1>6, <3>1, <3>2, <3>3
  <2>3. InOrder'
    BY <2>1, <2>2 DEF AdminInv, InOrder, TypeOK
  <2>4. UnreachableWasReplaced'
    BY <2>1, <2>2 DEF AdminInv, UnreachableWasReplaced
  <2> QED
    BY <2>3, <2>4 DEF AdminInv
<1>7. ASSUME NEW c \in Conns, Receiver(c) PROVE UNCHANGED admin \/ Crash
  BY <1>7 DEF Receiver, GoOnline, ReadFails, GoOffline, RemoveTunnel
<1>8. ASSUME Client PROVE UNCHANGED admin
  BY <1>8 DEF Client, Connect, Send, HangUp
<1>9. ASSUME NEW i \in Instances, AcceptLoop(i) \/ AcceptFails(i) PROVE UNCHANGED admin
  BY <1>9 DEF AcceptLoop, AcceptFails, Accept, Refuse, NewTunnel, Register
<1>10. ASSUME NEW i \in Instances, MapRace(i) PROVE Crash
  BY <1>10 DEF MapRace
<1>11. CASE UNCHANGED vars
  BY <1>1, <1>11 DEF vars, admin
<1> QED
  BY <1>1, <1>2, <1>3, <1>4, <1>5, <1>6, <1>7, <1>8, <1>9, <1>10, <1>11
     DEF Next, Server, Close

(* A listener that administrators cannot close was stored over by a later  *)
(* start, or removed before (server-manager.go:23,105).                    *)
THEOREM UnreachableReplaced == Spec => []UnreachableWasReplaced
<1>1. AdminInv => UnreachableWasReplaced
  BY DEF AdminInv
<1> QED
  BY <1>1, ServerTypeCorrect, AdminInvInit, AdminInvStep, PTL DEF Spec

-----------------------------------------------------------------------------
(* Commands for a device move to newer connections only: whoever takes the *)
(* place of an entry registered after it (server-tcp.go:74).               *)
EntriesAdvance ==
  \A i \in Instances, d \in Devices : \A c, e \in Conns :
    children[i][d] = c /\ children'[i][d] = e /\ e # c => turn'[c] < turn'[e]

(* A connection is registered once: what it is to the server stays until   *)
(* the process ends, though two instances may share the port.              *)
Forgotten == owner = [c \in Conns |-> 0]

RegisteredOnce ==
  \A c \in Conns : owner[c] # 0 =>
    (UNCHANGED <<owner[c], turn[c], packet[c]>>) \/ Forgotten'

LEMMA RegisterStep ==
  ASSUME TableInv, NEW i \in Instances, Register(i)
  PROVE  EntriesAdvance /\ RegisteredOnce
<1> DEFINE c == held[i]
<1>1. TypeOK /\ c \in Conns /\ packet[c] \in Devices /\ owner[c] = 0
  BY DEF TableInv, TypeOK, InOnePlace, Identified, Register
<1>2. /\ children' = [children EXCEPT ![i][packet[c]] = c]
      /\ owner' = [owner EXCEPT ![c] = i]
      /\ turn' = [turn EXCEPT ![c] = turns + 1]
      /\ packet' = packet
  BY DEF Register, StartReceiver, client
<1>3. /\ turn'[c] = turns + 1
      /\ \A e \in Conns : e # c => owner'[e] = owner[e] /\ turn'[e] = turn[e] /\ turn[e] <= turns
  BY <1>1, <1>2 DEF TypeOK
<1>4. \A j \in Instances, d \in Devices :
         children'[j][d] = children[j][d] \/ children'[j][d] = c
  BY <1>1, <1>2 DEF TypeOK
<1>5. turns \in Nat /\ \A e \in Conns : turn[e] \in Nat
  BY <1>1 DEF TypeOK
<1>6. EntriesAdvance
  <2> SUFFICES ASSUME NEW j \in Instances, NEW d \in Devices, NEW b \in Conns, NEW e \in Conns,
                      children[j][d] = b, children'[j][d] = e, e # b
               PROVE  turn'[b] < turn'[e]
    BY DEF EntriesAdvance
  <2>1. e = c /\ b # c
    BY <1>4
  <2> QED
    BY <1>3, <1>5, <2>1
<1>7. RegisteredOnce
  BY <1>1, <1>2, <1>3 DEF RegisteredOnce
<1> QED
  BY <1>6, <1>7

LEMMA CrashForgets == Crash => EntriesAdvance /\ RegisteredOnce
<1> SUFFICES ASSUME Crash PROVE EntriesAdvance /\ RegisteredOnce
  OBVIOUS
<1>1. \A i \in Instances, d \in Devices : children'[i][d] = NoConn
  BY DEF Crash, NoChildren
<1>2. Forgotten'
  BY DEF Crash, Forgotten
<1> QED
  BY <1>1, <1>2 DEF EntriesAdvance, RegisteredOnce

LEMMA TableSteps ==
  ASSUME TableInv, [Next]_vars
  PROVE  EntriesAdvance /\ RegisteredOnce
<1>1. CASE UNCHANGED <<table, packet>>
  BY <1>1 DEF table, EntriesAdvance, RegisteredOnce
<1>2. CASE Crash
  BY <1>2, CrashForgets
<1>3. ASSUME NEW i \in Instances, Register(i) PROVE EntriesAdvance /\ RegisteredOnce
  BY <1>3, RegisterStep
<1>4. ASSUME NEW c \in Conns, RemoveTunnel(c) PROVE EntriesAdvance /\ RegisteredOnce
  <2>1. /\ UNCHANGED <<owner, turn, packet>>
        /\ owner[c] \in Instances /\ packet[c] \in Devices
        /\ children' = [children EXCEPT ![owner[c]][packet[c]] = NoConn]
    BY <1>4 DEF RemoveTunnel, client, TableInv, TypeOK, Identified
  <2>2. \A i \in Instances, d \in Devices :
           children'[i][d] = children[i][d] \/ children'[i][d] = NoConn
    BY <2>1 DEF TableInv, TypeOK
  <2> QED
    BY <2>1, <2>2 DEF EntriesAdvance, RegisteredOnce
<1>5. ASSUME NEW c \in Conns, NEW p \in Packets, Send(c, p)
      PROVE  EntriesAdvance /\ RegisteredOnce
  <2>1. recv[c] = "none" /\ owner[c] = 0
    BY <1>5 DEF Send, TableInv, TypeOK, Identified
  <2>2. UNCHANGED table /\ \A e \in Conns : e # c => packet'[e] = packet[e]
    BY <1>5 DEF Send, TableInv, TypeOK
  <2> QED
    BY <2>1, <2>2 DEF table, EntriesAdvance, RegisteredOnce
<1>6. ASSUME NEW c \in Conns, Connect(c) \/ HangUp(c) PROVE UNCHANGED <<table, packet>>
  BY <1>6 DEF Connect, HangUp
<1>7. ASSUME NEW i \in Instances,
             StartServer(i) \/ Open(i) \/ RemoveServer(i) \/ Close(i)
      PROVE  UNCHANGED <<table, packet>>
  BY <1>7 DEF StartServer, Open, RemoveServer, Close, CloseChildren, CloseListener, client
<1>8. ASSUME NEW i \in Instances, Accept(i) \/ AcceptFails(i) \/ Refuse(i) \/ NewTunnel(i)
      PROVE  UNCHANGED <<table, packet>>
  BY <1>8 DEF Accept, AcceptFails, Refuse, NewTunnel, client
<1>9. ASSUME NEW c \in Conns, GoOnline(c) \/ ReadFails(c) \/ GoOffline(c)
      PROVE  UNCHANGED <<table, packet>> \/ Crash
  BY <1>9 DEF GoOnline, ReadFails, GoOffline, client
<1>10. ASSUME NEW i \in Instances, MapRace(i) PROVE Crash
  BY <1>10 DEF MapRace
<1>11. CASE UNCHANGED vars
  BY <1>1, <1>11 DEF vars, client
<1> QED
  BY <1>1, <1>2, <1>3, <1>4, <1>5, <1>6, <1>7, <1>8, <1>9, <1>10, <1>11
     DEF Next, Client, Server, AcceptLoop, Receiver

(* A table entry is only ever replaced by a connection that registered     *)
(* later (server-tcp.go:74).                                               *)
THEOREM TableMovesForward == Spec => [][EntriesAdvance]_vars
<1>1. TableInv /\ [Next]_vars => [EntriesAdvance]_vars
  BY TableSteps
<1> QED
  BY <1>1, TableCorrect, PTL DEF Spec

(* A connection gets one owner, one turn and one receiver for as long as   *)
(* the process lives, and its packet is not read as another device's.      *)
THEOREM OneRegistration == Spec => [][RegisteredOnce]_vars
<1>1. TableInv /\ [Next]_vars => [RegisteredOnce]_vars
  BY TableSteps
<1> QED
  BY <1>1, TableCorrect, PTL DEF Spec
=============================================================================
