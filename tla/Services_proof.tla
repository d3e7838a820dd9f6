--------------------------- MODULE Services_proof ---------------------------
(***************************************************************************)
(* Proofs about Services: the variables of its parts have their types, and *)
(* what Loader loads is what the container stands for, for any container   *)
(* files, any libraries and any addresses.                                 *)
(*                                                                         *)
(* OpenTransport comes first.  Its invariant adds to the properties that   *)
(* sockets have the modes of their endpoints, also before these are in the *)
(* map and while threads change modes, and that the thread in the host is  *)
(* the one that holds the mutex.                                           *)
(*                                                                         *)
(* Linked says what a container stands for of the program with its         *)
(* repetitions written out, and of sums over all of it; Loader runs the    *)
(* instructions one at a time, with repetitions of repetitions pushed in   *)
(* front of what is left.  The invariant relates the two: what is left     *)
(* stands for the instructions after the first j of those written out, and *)
(* the machine and the section are what these j leave.  It is kept for the *)
(* innermost container of each name: an outer container of the same name,  *)
(* which imports itself by way of others, has lost its section, and is     *)
(* never done because no container within it ever is.                      *)
(*                                                                         *)
(* Sequences are flattened, sums are taken and repetitions are written out *)
(* by functions that CHOOSE defines recursively.  What they are is proved  *)
(* by induction over the set of the lengths at which the claim fails.      *)
(***************************************************************************)
EXTENDS Services, UIChannel_proof, FiniteSetTheorems, SequenceTheorems, WellFoundedInduction, TLAPS

-----------------------------------------------------------------------------
(* OpenTransport's invariant *)

Hosted == {t \in Client : at[t].pc = "host"}

MutexOK ==
  /\ endpointMutex # "none" => endpointMutex \in Hosted
  /\ \A t \in Hosted : endpointMutex = t

ModesOK ==
  ~unbindFailed =>
    /\ \A ep \in Endpoint : nonblocking[endpointMap[ep].fd] = endpointMap[ep].isAsynchronous
    /\ \A t \in Opening : nonblocking[at[t].fd] = at[t].isAsynchronous

TransportInv == TransportTypeOK /\ MutexOK /\ SocketsBelongToEndpoints /\ ModesOK

-----------------------------------------------------------------------------
(* Functions, and where threads are *)

LEMMA Pcs ==
  /\ Out.pc = "out"
  /\ \A fd, id, async : /\ Opened(fd, id, async).pc = "opened" /\ Opened(fd, id, async).fd = fd
                        /\ Opened(fd, id, async).id = id
                        /\ Opened(fd, id, async).isAsynchronous = async
  /\ \A ep, to : InHost(ep, to).pc = "host" /\ InHost(ep, to).ep = ep /\ InHost(ep, to).to = to
BY DEF Out, Opened, InHost

LEMMA Places ==
  ASSUME TransportTypeOK, NEW t \in Client
  PROVE  /\ at[t].pc \in {"out", "opened", "host"}
         /\ at[t].pc = "out" <=> at[t] = Out
         /\ t \in Opening => /\ at[t].fd \in Descriptor /\ at[t].id \in 1..(nextEndpointId - 1)
                              /\ at[t].isAsynchronous \in BOOLEAN
                              /\ at[t] = Opened(at[t].fd, at[t].id, at[t].isAsynchronous)
         /\ t \in Hosted => /\ at[t].ep \in Endpoint /\ at[t].to \in Number \cup {0}
                             /\ at[t] = InHost(at[t].ep, at[t].to)
<1>1. CASE at[t] = Out
  BY <1>1, Pcs DEF Opening, Hosted
<1>2. CASE \E fd \in Descriptor, id \in 1..(nextEndpointId - 1), async \in BOOLEAN :
             at[t] = Opened(fd, id, async)
  BY <1>2, Pcs DEF Opening, Hosted
<1>3. CASE \E ep \in Endpoint, to \in Number \cup {0} : at[t] = InHost(ep, to)
  BY <1>3, Pcs DEF Opening, Hosted
<1> QED BY <1>1, <1>2, <1>3 DEF TransportTypeOK

\* What a step that moves one thread does to who is opening and who is in the host.
LEMMA Moves ==
  ASSUME TransportTypeOK, NEW t \in Client, NEW where, at' = [at EXCEPT ![t] = where]
  PROVE  /\ DOMAIN at' = Client /\ at'[t] = where
         /\ \A u \in Client \ {t} : at'[u] = at[u]
         /\ where.pc = "opened" => Opening' = Opening \cup {t}
         /\ where.pc # "opened" => Opening' = Opening \ {t}
         /\ where.pc = "host" => Hosted' = Hosted \cup {t}
         /\ where.pc # "host" => Hosted' = Hosted \ {t}
BY DEF TransportTypeOK, Opening, Hosted

\* The mutex is free: nobody is in the host.
LEMMA Free ==
  ASSUME MutexOK, endpointMutex = "none"
  PROVE  Hosted = {}
BY TransportAssumption DEF MutexOK, Hosted

\* Where a thread may be.
Placed(where, endpoints, next) ==
  \/ where = Out
  \/ \E fd \in Descriptor, id \in 1..(next - 1), async \in BOOLEAN : where = Opened(fd, id, async)
  \/ \E ep \in endpoints, to \in Number \cup {0} : where = InHost(ep, to)

\* The threads that do not move are still somewhere when endpoints come, or go while none is in use.
LEMMA Stays ==
  ASSUME TransportTypeOK, NEW u \in Client, NEW endpoints, NEW next \in Nat, nextEndpointId <= next,
         u \in Hosted => at[u].ep \in endpoints
  PROVE  Placed(at[u], endpoints, next)
<1>1. nextEndpointId \in Nat
  BY DEF TransportTypeOK
<1>2. CASE u \in Opening
  BY <1>1, <1>2, Places DEF Placed
<1>3. CASE u \in Hosted
  BY <1>1, <1>3, Places DEF Placed
<1>4. CASE at[u] = Out
  BY <1>4 DEF Placed
<1> QED BY <1>2, <1>3, <1>4, Places DEF Opening, Hosted

-----------------------------------------------------------------------------
(* Opening an endpoint *)

LEMMA SocketKeeps ==
  ASSUME TransportInv, NEW t \in Client, NEW async \in BOOLEAN, Socket(t, async)
  PROVE  TransportInv'
<1> USE DEF TransportInv
<1>1. PICK fd \in Descriptor \ Open :
        /\ nonblocking' = With(nonblocking, fd, async)
        /\ at' = [at EXCEPT ![t] = Opened(fd, nextEndpointId, async)]
  BY DEF Socket
<1>2. /\ at[t] = Out /\ nextEndpointId' = nextEndpointId + 1
      /\ UNCHANGED <<endpointMap, endpointMutex, replaced, unbindFailed>>
  BY DEF Socket
<1>3. /\ Open' = Open \cup {fd} /\ nonblocking' \in [Open \cup {fd} -> BOOLEAN]
      /\ nonblocking'[fd] = async /\ \A g \in Open : nonblocking'[g] = nonblocking[g]
  <2>1. \A g \in Open : nonblocking[g] \in BOOLEAN
    BY DEF TransportTypeOK
  <2>2. Open' = Open \cup {fd}
    BY <1>1 DEF With, Open
  <2>3. nonblocking'[fd] = async /\ \A g \in Open : nonblocking'[g] = nonblocking[g]
    BY <1>1 DEF With, Open
  <2>4. nonblocking' \in [Open \cup {fd} -> BOOLEAN]
    BY <1>1, <2>1 DEF With, Open
  <2> QED BY <2>2, <2>3, <2>4
<1>6. t \notin Opening /\ t \notin Hosted
  BY <1>2, Pcs DEF Opening, Hosted
<1>4. /\ DOMAIN at' = Client /\ at'[t] = Opened(fd, nextEndpointId, async)
      /\ \A u \in Client \ {t} : at'[u] = at[u]
      /\ Opening' = Opening \cup {t} /\ Hosted' = Hosted
  <2>1. Opened(fd, nextEndpointId, async).pc = "opened"
    BY Pcs
  <2>2. TransportTypeOK /\ at' = [at EXCEPT ![t] = Opened(fd, nextEndpointId, async)]
    BY <1>1
  <2>3. DOMAIN at' = Client /\ at'[t] = Opened(fd, nextEndpointId, async)
    BY <2>2, Moves
  <2>4. \A u \in Client \ {t} : at'[u] = at[u]
    BY <2>2, Moves
  <2>5. Opening' = Opening \cup {t}
    BY <2>1, <2>2, Moves
  <2>6. Hosted' = Hosted
    <3>1. Hosted' = Hosted \ {t}
      BY <2>1, <2>2, Moves
    <3> QED BY <1>6, <3>1
  <2> QED BY <2>3, <2>4, <2>5, <2>6
<1>5. at'[t].fd = fd /\ at'[t].id = nextEndpointId /\ at'[t].isAsynchronous = async
  BY <1>4, Pcs
<1>7. nextEndpointId \in Nat \ {0} /\ Endpoint' = Endpoint
  BY <1>2 DEF TransportTypeOK, Endpoint
<1>12. nextEndpointId' \in 1..(MaxEndpoints + 1)
  <2>1. nextEndpointId <= MaxEndpoints
    BY DEF Socket
  <2> QED BY <1>2, <1>7, <2>1, TransportAssumption
<1>8. TransportTypeOK'
  <2>1. \A u \in Client : Placed(at'[u], Endpoint', nextEndpointId')
    <3>1. Placed(at'[t], Endpoint', nextEndpointId')
      BY <1>1, <1>2, <1>4, <1>7 DEF Placed
    <3>2. ASSUME NEW u \in Client \ {t} PROVE Placed(at'[u], Endpoint', nextEndpointId')
      <4>1. u \in Hosted => at[u].ep \in Endpoint'
        BY <1>7, Places
      <4>2. nextEndpointId + 1 \in Nat /\ nextEndpointId <= nextEndpointId + 1
        BY <1>7
      <4>3. Placed(at[u], Endpoint', nextEndpointId + 1)
        BY <4>1, <4>2, Stays
      <4> QED BY <1>2, <1>4, <4>3
    <3> QED BY <3>1, <3>2
  <2> QED BY <1>1, <1>2, <1>3, <1>4, <1>7, <1>12, <2>1 DEF TransportTypeOK, Placed, Open, Endpoint
<1>9. MutexOK'
  BY <1>2, <1>4 DEF MutexOK
<1>11. SocketsBelongToEndpoints' /\ ModesOK'
  <2>1. SUFFICES ASSUME ~unbindFailed PROVE SocketsBelongToEndpoints' /\ ModesOK'
    BY <1>2 DEF SocketsBelongToEndpoints, ModesOK
  <2>2. \A u \in Opening : u \in Client \ {t} /\ at'[u] = at[u]
    BY <1>4, <1>6 DEF Opening
  <2>3. \A u \in Opening : at[u].fd \in Open
    BY <2>1 DEF SocketsBelongToEndpoints
  <2>4. \A ep \in Endpoint : endpointMap[ep].fd \in Open
    BY <2>1 DEF SocketsBelongToEndpoints
  <2>5. replaced \subseteq Open
    BY <2>1 DEF SocketsBelongToEndpoints
  <2>6. {at'[u].fd : u \in Opening'} = {at[u].fd : u \in Opening} \cup {fd}
    BY <1>4, <1>5, <2>2
  <2>7. SocketsBelongToEndpoints'
    BY <1>1, <1>2, <1>3, <1>4, <1>5, <1>7, <2>1, <2>2, <2>3, <2>4, <2>5, <2>6
       DEF SocketsBelongToEndpoints
  <2>8. ModesOK'
    BY <1>1, <1>2, <1>3, <1>4, <1>5, <1>7, <2>1, <2>2, <2>3, <2>4 DEF ModesOK
  <2> QED BY <2>7, <2>8
<1> QED BY <1>8, <1>9, <1>11

-----------------------------------------------------------------------------
(* A number of the map is given a socket *)

LEMMA Puts ==
  ASSUME TransportTypeOK, NEW ep \in Number, NEW fd \in Descriptor, NEW async \in BOOLEAN,
         Put(ep, fd, async)
  PROVE  /\ Endpoint' = Endpoint \cup {ep} /\ Endpoint' \subseteq Number
         /\ endpointMap' \in [Endpoint' -> [fd : Descriptor, isAsynchronous : BOOLEAN]]
         /\ endpointMap'[ep].fd = fd /\ endpointMap'[ep].isAsynchronous = async
         /\ \A e \in Endpoint \ {ep} : endpointMap'[e] = endpointMap[e]
         /\ replaced' = replaced \cup (IF ep \in Endpoint THEN {endpointMap[ep].fd} ELSE {})
         /\ replaced' \subseteq Descriptor
<1>1. /\ endpointMap' = With(endpointMap, ep, [fd |-> fd, isAsynchronous |-> async])
      /\ replaced' = replaced \cup (IF ep \in Endpoint THEN {endpointMap[ep].fd} ELSE {})
  BY DEF Put
<1>2. Endpoint' = Endpoint \cup {ep}
  BY <1>1 DEF With, Endpoint
<1>3. /\ endpointMap'[ep] = [fd |-> fd, isAsynchronous |-> async]
      /\ \A e \in Endpoint \ {ep} : endpointMap'[e] = endpointMap[e]
  BY <1>1 DEF With, Endpoint
<1>4. [fd |-> fd, isAsynchronous |-> async] \in [fd : Descriptor, isAsynchronous : BOOLEAN]
  OBVIOUS
<1>5. \A e \in Endpoint : endpointMap[e] \in [fd : Descriptor, isAsynchronous : BOOLEAN]
  BY DEF TransportTypeOK
<1>6. endpointMap' \in [Endpoint' -> [fd : Descriptor, isAsynchronous : BOOLEAN]]
  BY <1>1, <1>2, <1>3, <1>4, <1>5 DEF With, Endpoint
<1>7. replaced' \subseteq Descriptor
  <2>1. ep \in Endpoint => endpointMap[ep].fd \in Descriptor
    BY <1>5
  <2> QED BY <1>1, <2>1 DEF TransportTypeOK
<1>8. Endpoint' \subseteq Number
  BY <1>2 DEF TransportTypeOK
<1> QED BY <1>1, <1>2, <1>3, <1>6, <1>7, <1>8

\* The socket is one that no endpoint has, and no thread that is still opening one.
LEMMA PutsApart ==
  ASSUME TransportInv, ~unbindFailed, NEW ep \in Number, NEW fd \in Descriptor, NEW async \in BOOLEAN,
         Put(ep, fd, async), fd \notin replaced, \A e \in Endpoint : endpointMap[e].fd # fd,
         Opening' \subseteq Opening, \A u \in Opening' : at'[u] = at[u] /\ at[u].fd # fd,
         Open' = {endpointMap[e].fd : e \in Endpoint} \cup {at[u].fd : u \in Opening'} \cup replaced \cup {fd},
         nonblocking'[fd] = async, \A g \in Open \ {fd} : nonblocking'[g] = nonblocking[g]
  PROVE  (SocketsBelongToEndpoints /\ ModesOK)'
<1> USE DEF TransportInv
<1> DEFINE lost == IF ep \in Endpoint THEN {endpointMap[ep].fd} ELSE {}
<1>1. /\ Endpoint' = Endpoint \cup {ep} /\ endpointMap'[ep].fd = fd
      /\ endpointMap'[ep].isAsynchronous = async
      /\ \A e \in Endpoint \ {ep} : endpointMap'[e] = endpointMap[e]
      /\ replaced' = replaced \cup lost
  BY Puts
<1>2. /\ \A e \in Endpoint : endpointMap[e].fd \in Open
      /\ \A u \in Opening : at[u].fd \in Open
  BY DEF SocketsBelongToEndpoints
<1>3. /\ \A e \in Endpoint \ {ep} : endpointMap[e].fd \notin lost
      /\ \A u \in Opening : at[u].fd \notin lost
      /\ fd \notin lost
  BY DEF SocketsBelongToEndpoints
<1>4. Open' = {endpointMap'[e].fd : e \in Endpoint'} \cup {at'[u].fd : u \in Opening'} \cup replaced'
  <2>1. {endpointMap[e].fd : e \in Endpoint} = {endpointMap[e].fd : e \in Endpoint \ {ep}} \cup lost
    OBVIOUS
  <2>2. {endpointMap'[e].fd : e \in Endpoint'} = {endpointMap[e].fd : e \in Endpoint \ {ep}} \cup {fd}
    BY <1>1
  <2>3. {at'[u].fd : u \in Opening'} = {at[u].fd : u \in Opening'}
    OBVIOUS
  <2> HIDE DEF lost
  <2> QED BY <1>1, <2>1, <2>2, <2>3
<1> HIDE DEF lost
<1>5. \A e, g \in Endpoint' : endpointMap'[e].fd = endpointMap'[g].fd => e = g
  BY <1>1 DEF SocketsBelongToEndpoints
<1>6. \A u, v \in Opening' : at'[u].fd = at'[v].fd => u = v
  BY DEF SocketsBelongToEndpoints
<1>7. \A e \in Endpoint', u \in Opening' : endpointMap'[e].fd # at'[u].fd
  BY <1>1 DEF SocketsBelongToEndpoints
<1>8. \A f \in replaced' : /\ \A e \in Endpoint' : endpointMap'[e].fd # f
                          /\ \A u \in Opening' : at'[u].fd # f
  BY <1>1, <1>3 DEF SocketsBelongToEndpoints
<1>9. SocketsBelongToEndpoints'
  BY <1>4, <1>5, <1>6, <1>7, <1>8 DEF SocketsBelongToEndpoints
<1>10. \A e \in Endpoint' : nonblocking'[endpointMap'[e].fd] = endpointMap'[e].isAsynchronous
  BY <1>1, <1>2 DEF ModesOK
<1>11. \A u \in Opening' : nonblocking'[at'[u].fd] = at'[u].isAsynchronous
  BY <1>2 DEF ModesOK
<1> QED BY <1>9, <1>10, <1>11 DEF ModesOK

LEMMA InsertKeeps ==
  ASSUME TransportInv, NEW t \in Client, Insert(t)
  PROVE  TransportInv'
<1> USE DEF TransportInv
<1> DEFINE fd == at[t].fd
           id == at[t].id
           async == at[t].isAsynchronous
<1>1. /\ t \in Opening /\ endpointMutex = "none" /\ at' = [at EXCEPT ![t] = Out]
      /\ UNCHANGED <<nextEndpointId, endpointMutex, nonblocking, unbindFailed>>
  BY DEF Insert, Opening
<1>2. fd \in Descriptor /\ id \in Number /\ async \in BOOLEAN
  <2>1. nextEndpointId \in 1..(MaxEndpoints + 1)
    BY DEF TransportTypeOK
  <2>2. fd \in Descriptor /\ id \in 1..(nextEndpointId - 1) /\ async \in BOOLEAN
    BY <1>1, Places
  <2> QED BY <2>1, <2>2, TransportAssumption DEF Number
<1>3. Hosted = {}
  BY <1>1, Free
<1>4. Put(id, fd, async)
  BY DEF Insert
<1>5. \A u \in Opening : ~unbindFailed /\ u # t => at[u].fd # fd
  BY <1>1 DEF SocketsBelongToEndpoints
<1>6. ~unbindFailed => /\ fd \notin replaced /\ \A ep \in Endpoint : endpointMap[ep].fd # fd
                      /\ nonblocking[fd] = async
  BY <1>1 DEF SocketsBelongToEndpoints, ModesOK
<1>7. /\ DOMAIN at' = Client /\ at'[t] = Out
      /\ \A u \in Client \ {t} : at'[u] = at[u]
      /\ Opening' = Opening \ {t} /\ Hosted' = {}
  <2>1. DOMAIN at' = Client /\ at'[t] = Out /\ \A u \in Client \ {t} : at'[u] = at[u]
    BY <1>1, Moves
  <2>2. Opening' = Opening \ {t} /\ Hosted' = Hosted \ {t}
    BY <1>1, Moves, Pcs
  <2> QED BY <1>3, <2>1, <2>2
<1>8. {at[u].fd : u \in Opening} = {at[u].fd : u \in Opening'} \cup {fd}
  BY <1>1, <1>7
<1>9. \A u \in Opening' : u \in Opening /\ u # t /\ at'[u] = at[u]
  BY <1>7 DEF Opening
<1> HIDE DEF fd, id, async
<1>10. TransportTypeOK'
  <2>1. nextEndpointId \in Nat
    BY DEF TransportTypeOK
  <2>2. \A u \in Client : Placed(at'[u], Endpoint', nextEndpointId')
    <3>1. Placed(at'[t], Endpoint', nextEndpointId')
      BY <1>7 DEF Placed
    <3>2. ASSUME NEW u \in Client \ {t} PROVE Placed(at'[u], Endpoint', nextEndpointId')
      <4>1. Placed(at[u], Endpoint', nextEndpointId)
        BY <1>3, <2>1, Stays
      <4> QED BY <1>1, <1>7, <4>1
    <3> QED BY <3>1, <3>2
  <2>3. /\ Endpoint' \subseteq Number /\ replaced' \subseteq Descriptor
        /\ endpointMap' \in [Endpoint' -> [fd : Descriptor, isAsynchronous : BOOLEAN]]
    BY <1>2, <1>4, Puts
  <2> QED BY <1>1, <1>7, <2>2, <2>3 DEF TransportTypeOK, Placed, Open
<1>11. MutexOK'
  BY <1>1, <1>7 DEF MutexOK
<1>12. (SocketsBelongToEndpoints /\ ModesOK)'
  <2>1. SUFFICES ASSUME ~unbindFailed PROVE (SocketsBelongToEndpoints /\ ModesOK)'
    BY <1>1 DEF SocketsBelongToEndpoints, ModesOK
  <2>2. Open' = Open
    BY <1>1 DEF Open
  <2>3. Open = {endpointMap[e].fd : e \in Endpoint} \cup {at[u].fd : u \in Opening'} \cup replaced \cup {fd}
    BY <1>8, <2>1 DEF SocketsBelongToEndpoints
  <2>4. \A u \in Opening' : at'[u] = at[u] /\ at[u].fd # fd
    BY <1>5, <1>9, <2>1
  <2>5. Opening' \subseteq Opening
    BY <1>7
  <2>6. nonblocking'[fd] = async /\ \A g \in Open \ {fd} : nonblocking'[g] = nonblocking[g]
    BY <1>1, <1>6, <2>1
  <2> QED BY <1>2, <1>4, <1>6, <2>1, <2>2, <2>3, <2>4, <2>5, <2>6, PutsApart
<1> QED BY <1>10, <1>11, <1>12

-----------------------------------------------------------------------------
(* Calls that hold the mutex for themselves *)

\* When no thread moves, none is in the host and no endpoint is new, only sockets may be wrong.
LEMMA NobodyMoves ==
  ASSUME TransportInv, endpointMutex = "none", Endpoint' \subseteq Endpoint,
         UNCHANGED <<nextEndpointId, endpointMutex, at, replaced>>,
         nonblocking' \in [Open' -> BOOLEAN], Open' \subseteq Descriptor,
         endpointMap' \in [Endpoint' -> [fd : Descriptor, isAsynchronous : BOOLEAN]],
         unbindFailed' \in BOOLEAN, (SocketsBelongToEndpoints /\ ModesOK)'
  PROVE  TransportInv' /\ Hosted = {} /\ Opening' = Opening
<1>1. Opening' = Opening /\ Hosted' = Hosted
  BY DEF Opening, Hosted
<1>2. Hosted = {}
  BY Free DEF TransportInv
<1>3. TransportTypeOK'
  <2>1. nextEndpointId \in Nat
    BY DEF TransportTypeOK, TransportInv
  <2>2. ASSUME NEW u \in Client PROVE Placed(at'[u], Endpoint', nextEndpointId')
    <3>1. Placed(at[u], Endpoint', nextEndpointId)
      BY <1>2, <2>1, Stays DEF TransportInv
    <3> QED BY <3>1
  <2> QED BY <2>2 DEF TransportTypeOK, Placed, TransportInv
<1>4. MutexOK'
  BY <1>1, <1>2 DEF MutexOK, TransportInv
<1> QED BY <1>1, <1>2, <1>3, <1>4 DEF TransportInv

\* OTCloseProvider closes one endpoint, CloseOpenTransport all.
LEMMA CloseKeeps ==
  ASSUME TransportInv, endpointMutex = "none", NEW S, S \subseteq Endpoint,
         nonblocking' = Without(nonblocking, {endpointMap[ep].fd : ep \in S}),
         endpointMap' = Without(endpointMap, S),
         UNCHANGED <<nextEndpointId, endpointMutex, at, replaced, unbindFailed>>
  PROVE  TransportInv'
<1> USE DEF TransportInv
<1> DEFINE closed == {endpointMap[ep].fd : ep \in S}
<1>1. Endpoint' = Endpoint \ S /\ \A ep \in Endpoint' : endpointMap'[ep] = endpointMap[ep]
  BY DEF Without, Endpoint
<1>2. Open' = Open \ closed /\ \A fd \in Open' : nonblocking'[fd] = nonblocking[fd]
  BY DEF Without, Open
<1>3. endpointMap' \in [Endpoint' -> [fd : Descriptor, isAsynchronous : BOOLEAN]]
  <2>1. \A ep \in Endpoint : endpointMap[ep] \in [fd : Descriptor, isAsynchronous : BOOLEAN]
    BY DEF TransportTypeOK
  <2> QED BY <1>1, <2>1 DEF Without, Endpoint
<1>4. nonblocking' \in [Open' -> BOOLEAN]
  <2>1. \A fd \in Open : nonblocking[fd] \in BOOLEAN
    BY DEF TransportTypeOK
  <2> QED BY <1>2, <2>1 DEF Without, Open
<1>5. Opening' = Opening
  BY DEF Opening
<1>6. SocketsBelongToEndpoints' /\ ModesOK'
  <2>1. SUFFICES ASSUME ~unbindFailed PROVE SocketsBelongToEndpoints' /\ ModesOK'
    BY DEF SocketsBelongToEndpoints, ModesOK
  <2>2. \A ep \in Endpoint' : endpointMap[ep].fd \notin closed
    BY <1>1, <2>1 DEF SocketsBelongToEndpoints
  <2>3. \A u \in Opening : at[u].fd \notin closed
    BY <2>1 DEF SocketsBelongToEndpoints
  <2>4. \A fd \in replaced : fd \notin closed
    BY <2>1 DEF SocketsBelongToEndpoints
  <2>5. Open' = {endpointMap'[ep].fd : ep \in Endpoint'} \cup {at'[u].fd : u \in Opening'} \cup replaced'
    <3>1. Open = {endpointMap[ep].fd : ep \in Endpoint} \cup {at[u].fd : u \in Opening} \cup replaced
      BY <2>1 DEF SocketsBelongToEndpoints
    <3>2. {endpointMap'[ep].fd : ep \in Endpoint'} = {endpointMap[ep].fd : ep \in Endpoint} \ closed
      BY <1>1, <2>2
    <3>3. {at'[u].fd : u \in Opening'} = {at[u].fd : u \in Opening} \ closed
      BY <1>5, <2>3
    <3> HIDE DEF closed
    <3> QED BY <1>2, <2>4, <3>1, <3>2, <3>3
  <2>6. SocketsBelongToEndpoints'
    BY <1>1, <1>5, <2>1, <2>5 DEF SocketsBelongToEndpoints
  <2>7. /\ \A ep \in Endpoint' : endpointMap[ep].fd \in Open'
        /\ \A u \in Opening : at[u].fd \in Open'
    BY <1>1, <1>2, <2>1, <2>2, <2>3 DEF SocketsBelongToEndpoints
  <2>8. ModesOK'
    BY <1>1, <1>2, <1>5, <2>1, <2>7 DEF ModesOK
  <2> QED BY <2>6, <2>8
<1>7. Open' \subseteq Descriptor /\ unbindFailed' \in BOOLEAN
  BY <1>2 DEF TransportTypeOK
<1> QED BY <1>1, <1>3, <1>4, <1>6, <1>7, NobodyMoves

LEMMA SetModeKeeps ==
  ASSUME TransportInv, NEW t \in Client, NEW ep \in Endpoint, NEW async \in BOOLEAN,
         SetMode(t, ep, async)
  PROVE  TransportInv'
<1> USE DEF TransportInv
<1>1. /\ endpointMutex = "none"
      /\ UNCHANGED <<nextEndpointId, endpointMutex, at, replaced, unbindFailed>>
      /\ endpointMap' = [endpointMap EXCEPT ![ep].isAsynchronous = async]
      /\ nonblocking' = [fd \in Open |-> IF fd = endpointMap[ep].fd THEN async ELSE nonblocking[fd]]
  BY DEF SetMode, Locked
<1>2. endpointMap \in [Endpoint -> [fd : Descriptor, isAsynchronous : BOOLEAN]]
  BY DEF TransportTypeOK
<1>3. /\ Endpoint' = Endpoint
      /\ endpointMap' \in [Endpoint' -> [fd : Descriptor, isAsynchronous : BOOLEAN]]
      /\ \A e \in Endpoint : endpointMap'[e].fd = endpointMap[e].fd
      /\ \A e \in Endpoint \ {ep} : endpointMap'[e] = endpointMap[e]
  BY <1>1, <1>2 DEF Endpoint
<1>4. endpointMap'[ep].isAsynchronous = async
  BY <1>1, <1>2
<1>5. Open' = Open /\ nonblocking' \in [Open' -> BOOLEAN]
  <2>1. \A fd \in Open : nonblocking[fd] \in BOOLEAN
    BY DEF TransportTypeOK
  <2> QED BY <1>1, <2>1 DEF Open
<1>6. \A fd \in Open : nonblocking'[fd] = IF fd = endpointMap[ep].fd THEN async ELSE nonblocking[fd]
  BY <1>1
<1>7. Opening' = Opening
  BY <1>1 DEF Opening
<1>8. SocketsBelongToEndpoints'
  <2>1. {endpointMap'[e].fd : e \in Endpoint'} = {endpointMap[e].fd : e \in Endpoint}
    BY <1>3
  <2> QED BY <1>1, <1>3, <1>5, <1>7, <2>1 DEF SocketsBelongToEndpoints
<1>9. ModesOK'
  <2>1. SUFFICES ASSUME ~unbindFailed PROVE ModesOK'
    BY <1>1 DEF ModesOK
  <2>2. /\ \A e \in Endpoint : endpointMap[e].fd \in Open
        /\ \A u \in Opening : at[u].fd \in Open /\ at[u].fd # endpointMap[ep].fd
        /\ \A e \in Endpoint \ {ep} : endpointMap[e].fd # endpointMap[ep].fd
    BY <2>1 DEF SocketsBelongToEndpoints
  <2>3. nonblocking'[endpointMap'[ep].fd] = endpointMap'[ep].isAsynchronous
    BY <1>3, <1>4, <1>6, <2>2
  <2>4. \A e \in Endpoint \ {ep} : nonblocking'[endpointMap'[e].fd] = endpointMap'[e].isAsynchronous
    BY <1>3, <1>6, <2>1, <2>2 DEF ModesOK
  <2>5. \A u \in Opening' : nonblocking'[at'[u].fd] = at'[u].isAsynchronous
    BY <1>1, <1>6, <1>7, <2>1, <2>2 DEF ModesOK
  <2> QED BY <1>3, <2>3, <2>4, <2>5 DEF ModesOK
<1>10. Open' \subseteq Descriptor /\ unbindFailed' \in BOOLEAN
  BY <1>1, <1>5 DEF TransportTypeOK
<1> QED BY <1>1, <1>3, <1>5, <1>8, <1>9, <1>10, NobodyMoves

LEMMA UnbindKeeps ==
  ASSUME TransportInv, NEW t \in Client, NEW ep \in Endpoint, OTUnbind(t, ep)
  PROVE  TransportInv'
<1> USE DEF TransportInv
<1> DEFINE old  == endpointMap[ep].fd
           mode == endpointMap[ep].isAsynchronous
           rest == Without(nonblocking, {old})
<1>1. endpointMutex = "none" /\ UNCHANGED <<nextEndpointId, endpointMutex, at, replaced>>
  BY DEF OTUnbind, Unbind, Locked
<1>2. endpointMap \in [Endpoint -> [fd : Descriptor, isAsynchronous : BOOLEAN]]
  BY DEF TransportTypeOK
<1>3. DOMAIN rest = Open \ {old} /\ \A fd \in Open \ {old} : rest[fd] = nonblocking[fd]
  BY DEF Without, Open
<1>4. \A fd \in Open : nonblocking[fd] \in BOOLEAN
  BY DEF TransportTypeOK
<1>5. rest \in [Open \ {old} -> BOOLEAN]
  BY <1>3, <1>4 DEF Without, Open
<1>6. Opening' = Opening
  BY <1>1 DEF Opening
<1>7. Open \subseteq Descriptor /\ unbindFailed \in BOOLEAN
  BY DEF TransportTypeOK
<1>8. CASE nonblocking' = rest /\ unbindFailed' = TRUE /\ UNCHANGED endpointMap
  <2>1. Endpoint' = Endpoint /\ Open' = Open \ {old}
    BY <1>3, <1>8 DEF Endpoint, Open
  <2>2. SocketsBelongToEndpoints' /\ ModesOK'
    BY <1>8 DEF SocketsBelongToEndpoints, ModesOK
  <2> QED BY <1>1, <1>2, <1>5, <1>7, <1>8, <2>1, <2>2, NobodyMoves
<1>9. ASSUME NEW fd \in Descriptor \ DOMAIN rest, nonblocking' = With(rest, fd, mode),
             endpointMap' = [endpointMap EXCEPT ![ep].fd = fd], UNCHANGED unbindFailed
      PROVE  TransportInv'
  <2> HIDE DEF rest
  <2>1. /\ Endpoint' = Endpoint /\ endpointMap'[ep].fd = fd
        /\ endpointMap' \in [Endpoint' -> [fd : Descriptor, isAsynchronous : BOOLEAN]]
        /\ \A e \in Endpoint : endpointMap'[e].isAsynchronous = endpointMap[e].isAsynchronous
        /\ \A e \in Endpoint \ {ep} : endpointMap'[e] = endpointMap[e]
    BY <1>2, <1>9 DEF Endpoint
  <2>2. Open' = (Open \ {old}) \cup {fd}
    BY <1>3, <1>9 DEF With, Open
  <2>3. nonblocking'[fd] = mode
    BY <1>9 DEF With
  <2>4. \A g \in Open \ {old} : nonblocking'[g] = nonblocking[g]
    BY <1>3, <1>9 DEF With
  <2>5. mode \in BOOLEAN
    BY <1>2
  <2>6. nonblocking' \in [Open' -> BOOLEAN]
    BY <1>3, <1>4, <1>9, <2>2, <2>5 DEF With
  <2>7. SocketsBelongToEndpoints' /\ ModesOK'
    <3>1. SUFFICES ASSUME ~unbindFailed PROVE SocketsBelongToEndpoints' /\ ModesOK'
      BY <1>9 DEF SocketsBelongToEndpoints, ModesOK
    <3>2. /\ \A e \in Endpoint \ {ep} : endpointMap[e].fd \in Open \ {old}
          /\ \A u \in Opening : at[u].fd \in Open \ {old}
          /\ replaced \subseteq Open \ {old}
      BY <3>1 DEF SocketsBelongToEndpoints
    <3>3. fd \notin Open \ {old}
      BY <1>3
    <3>4. Open' = {endpointMap'[e].fd : e \in Endpoint'} \cup {at'[u].fd : u \in Opening'} \cup replaced'
      <4>1. Open = {endpointMap[e].fd : e \in Endpoint} \cup {at[u].fd : u \in Opening} \cup replaced
        BY <3>1 DEF SocketsBelongToEndpoints
      <4>2. {endpointMap[e].fd : e \in Endpoint} = {endpointMap[e].fd : e \in Endpoint \ {ep}} \cup {old}
        OBVIOUS
      <4>3. {endpointMap'[e].fd : e \in Endpoint'} = {endpointMap[e].fd : e \in Endpoint \ {ep}} \cup {fd}
        BY <2>1
      <4>4. {at'[u].fd : u \in Opening'} = {at[u].fd : u \in Opening}
        BY <1>1, <1>6
      <4>5. {endpointMap[e].fd : e \in Endpoint \ {ep}} \subseteq Open \ {old}
        BY <3>2
      <4>6. {at[u].fd : u \in Opening} \subseteq Open \ {old}
        BY <3>2
      <4> QED BY <1>1, <2>2, <3>2, <4>1, <4>2, <4>3, <4>4, <4>5, <4>6
    <3>5. \A e, f \in Endpoint' : endpointMap'[e].fd = endpointMap'[f].fd => e = f
      BY <2>1, <3>1, <3>2, <3>3 DEF SocketsBelongToEndpoints
    <3>6. /\ \A e \in Endpoint', u \in Opening' : endpointMap'[e].fd # at'[u].fd
          /\ \A u, v \in Opening' : at'[u].fd = at'[v].fd => u = v
      BY <1>1, <1>6, <2>1, <3>1, <3>2, <3>3 DEF SocketsBelongToEndpoints
    <3>7. \A f \in replaced' : /\ \A e \in Endpoint' : endpointMap'[e].fd # f
                              /\ \A u \in Opening' : at'[u].fd # f
      BY <1>1, <1>6, <2>1, <3>1, <3>2, <3>3 DEF SocketsBelongToEndpoints
    <3>8. SocketsBelongToEndpoints'
      BY <3>4, <3>5, <3>6, <3>7 DEF SocketsBelongToEndpoints
    <3>9. \A e \in Endpoint' : nonblocking'[endpointMap'[e].fd] = endpointMap'[e].isAsynchronous
      BY <2>1, <2>3, <2>4, <3>1, <3>2 DEF ModesOK
    <3>10. \A u \in Opening' : nonblocking'[at'[u].fd] = at'[u].isAsynchronous
      BY <1>1, <1>6, <2>4, <3>1, <3>2 DEF ModesOK
    <3> QED BY <3>8, <3>9, <3>10 DEF ModesOK
  <2>8. Open' \subseteq Descriptor
    BY <1>7, <2>2
  <2> QED BY <1>1, <1>7, <1>9, <2>1, <2>6, <2>7, <2>8, NobodyMoves
<1> QED BY <1>8, <1>9 DEF OTUnbind, Unbind

-----------------------------------------------------------------------------
(* Calls that the host may keep *)

\* A thread that is not opening an endpoint goes into the host or comes back.
LEMMA ThreadMoves ==
  ASSUME TransportInv, NEW t \in Client, t \notin Opening, NEW where,
         Placed(where, Endpoint, nextEndpointId), where.pc # "opened",
         at' = [at EXCEPT ![t] = where], MutexOK', endpointMutex' \in Client \cup {"none"},
         UNCHANGED <<endpointMap, nextEndpointId, nonblocking, replaced, unbindFailed>>
  PROVE  TransportInv'
<1> USE DEF TransportInv
<1>1. /\ DOMAIN at' = Client /\ at'[t] = where
      /\ \A u \in Client \ {t} : at'[u] = at[u]
      /\ Opening' = Opening \ {t} /\ Hosted' \subseteq Hosted \cup {t}
  <2>1. DOMAIN at' = Client /\ at'[t] = where /\ \A u \in Client \ {t} : at'[u] = at[u]
    BY Moves
  <2>2. Opening' = Opening \ {t}
    BY Moves
  <2>3. Hosted' \subseteq Hosted \cup {t}
    BY <2>1 DEF Hosted
  <2> QED BY <2>1, <2>2, <2>3
<1>2. Opening' = Opening /\ \A u \in Opening : u \in Client /\ at'[u] = at[u]
  BY <1>1 DEF Opening
<1>3. Endpoint' = Endpoint /\ Open' = Open
  BY DEF Endpoint, Open
<1>4. TransportTypeOK'
  <2>1. nextEndpointId \in Nat
    BY DEF TransportTypeOK
  <2>2. ASSUME NEW u \in Client PROVE Placed(at'[u], Endpoint', nextEndpointId')
    <3>1. u \in Hosted => at[u].ep \in Endpoint
      BY Places
    <3>2. Placed(at[u], Endpoint, nextEndpointId)
      BY <2>1, <3>1, Stays
    <3> QED BY <1>1, <1>3, <3>2
  <2> QED BY <1>1, <1>3, <2>2 DEF TransportTypeOK, Placed
<1>6. SocketsBelongToEndpoints'
  <2>1. {at'[u].fd : u \in Opening'} = {at[u].fd : u \in Opening}
    BY <1>2
  <2> QED BY <1>2, <1>3, <2>1 DEF SocketsBelongToEndpoints
<1>7. ModesOK'
  BY <1>2, <1>3 DEF ModesOK
<1> QED BY <1>4, <1>6, <1>7

LEMMA CallHostKeeps ==
  ASSUME TransportInv, NEW t \in Client, NEW ep \in Endpoint, CallHost(t, ep)
  PROVE  TransportInv'
<1>1. PICK to \in Number \cup {0} : at' = [at EXCEPT ![t] = InHost(ep, to)]
  BY DEF CallHost
<1>2. /\ at[t] = Out /\ endpointMutex = "none" /\ endpointMutex' = t
      /\ UNCHANGED <<endpointMap, nextEndpointId, nonblocking, replaced, unbindFailed>>
  BY DEF CallHost, Locked
<1>3. TransportTypeOK
  BY DEF TransportInv
<1>4. InHost(ep, to).pc = "host"
  BY Pcs
<1>6. Placed(InHost(ep, to), Endpoint, nextEndpointId)
  BY DEF Placed
<1>7. t \notin Opening
  BY <1>2, Pcs DEF Opening
<1>8. MutexOK'
  <2>1. Hosted = {}
    BY <1>2, Free DEF TransportInv
  <2>2. Hosted' = Hosted \cup {t}
    BY <1>1, <1>3, <1>4, Moves
  <2> QED BY <1>2, <2>1, <2>2 DEF MutexOK
<1> QED BY <1>1, <1>2, <1>4, <1>6, <1>7, <1>8, ThreadMoves

LEMMA HostReturnsKeeps ==
  ASSUME TransportInv, NEW t \in Client, HostReturns(t)
  PROVE  TransportInv'
<1>1. /\ t \in Hosted /\ endpointMutex' = "none" /\ at' = [at EXCEPT ![t] = Out]
      /\ UNCHANGED <<endpointMap, nextEndpointId, nonblocking, replaced, unbindFailed>>
  BY DEF HostReturns, Hosted
<1>2. t \notin Opening
  BY <1>1 DEF Hosted, Opening
<1>3. MutexOK'
  <2>1. Hosted = {t}
    BY <1>1 DEF MutexOK, TransportInv
  <2>2. Hosted' = Hosted \ {t}
    BY <1>1, Moves, Pcs DEF TransportInv
  <2> QED BY <1>1, <2>1, <2>2 DEF MutexOK
<1> QED BY <1>1, <1>2, <1>3, Pcs, ThreadMoves DEF Placed

LEMMA OTAcceptKeeps ==
  ASSUME TransportInv, NEW t \in Client, OTAccept(t)
  PROVE  TransportInv'
<1> USE DEF TransportInv
<1> DEFINE server == endpointMap[at[t].ep]
           to     == at[t].to
<1>1. PICK fd \in Descriptor \ Open :
        /\ server.fd \in Open
        /\ nonblocking' = With(nonblocking, fd, nonblocking[server.fd])
        /\ Put(to, fd, server.isAsynchronous)
  BY DEF OTAccept
<1>2. /\ t \in Hosted /\ to # 0 /\ endpointMutex' = "none" /\ at' = [at EXCEPT ![t] = Out]
      /\ UNCHANGED <<nextEndpointId, unbindFailed>>
  BY DEF OTAccept, Hosted
<1>3. /\ nextEndpointId \in Nat /\ at[t].ep \in Endpoint /\ to \in Number
      /\ server.isAsynchronous \in BOOLEAN
  <2>1. nextEndpointId \in Nat
    BY DEF TransportTypeOK
  <2>2. at[t].ep \in Endpoint /\ to \in Number \cup {0}
    BY <1>2, Places
  <2>3. server \in [fd : Descriptor, isAsynchronous : BOOLEAN]
    BY <2>2 DEF TransportTypeOK
  <2> HIDE DEF server, to
  <2>4. server.isAsynchronous \in BOOLEAN
    BY <2>3
  <2> QED BY <1>2, <2>1, <2>2, <2>4
<1>4. Hosted = {t}
  BY <1>2 DEF MutexOK
<1>5. /\ DOMAIN at' = Client /\ at'[t] = Out /\ \A u \in Client \ {t} : at'[u] = at[u]
      /\ Opening' = Opening /\ Hosted' = {}
  <2>1. DOMAIN at' = Client /\ at'[t] = Out /\ \A u \in Client \ {t} : at'[u] = at[u]
    BY <1>2, Moves
  <2>2. Opening' = Opening \ {t}
    BY <1>2, Moves, Pcs
  <2>3. Hosted' = Hosted \ {t}
    BY <1>2, Moves, Pcs
  <2>4. t \notin Opening
    BY <1>2 DEF Hosted, Opening
  <2> QED BY <1>4, <2>1, <2>2, <2>3, <2>4
<1>6. \A u \in Opening : u \in Client \ {t} /\ at'[u] = at[u]
  BY <1>2, <1>5 DEF Hosted, Opening
<1>7. /\ Open' = Open \cup {fd} /\ nonblocking'[fd] = nonblocking[server.fd]
      /\ \A g \in Open : nonblocking'[g] = nonblocking[g]
  BY <1>1 DEF With, Open
<1>8. nonblocking' \in [Open' -> BOOLEAN]
  <2>1. \A g \in Open : nonblocking[g] \in BOOLEAN
    BY DEF TransportTypeOK
  <2>2. nonblocking[server.fd] \in BOOLEAN
    BY <1>1, <2>1
  <2> QED BY <1>1, <1>7, <2>1, <2>2 DEF With, Open
<1> HIDE DEF server, to
<1>9. /\ Endpoint' = Endpoint \cup {to} /\ Endpoint' \subseteq Number /\ replaced' \subseteq Descriptor
      /\ endpointMap' \in [Endpoint' -> [fd : Descriptor, isAsynchronous : BOOLEAN]]
  BY <1>1, <1>3, Puts
<1>11. TransportTypeOK'
  <2>1. ASSUME NEW u \in Client PROVE Placed(at'[u], Endpoint', nextEndpointId')
    <3>1. CASE u = t
      BY <1>5, <3>1 DEF Placed
    <3>2. CASE u # t
      <4>1. u \notin Hosted
        BY <1>4, <3>2
      <4>2. Placed(at[u], Endpoint', nextEndpointId)
        BY <1>3, <4>1, Stays
      <4> QED BY <1>2, <1>5, <3>2, <4>2
    <3> QED BY <3>1, <3>2
  <2>2. Open' \subseteq Descriptor
    BY <1>7 DEF TransportTypeOK
  <2> QED BY <1>2, <1>5, <1>8, <1>9, <2>1, <2>2 DEF TransportTypeOK, Placed
<1>12. MutexOK'
  BY <1>2, <1>5 DEF MutexOK
<1>13. (SocketsBelongToEndpoints /\ ModesOK)'
  <2>1. SUFFICES ASSUME ~unbindFailed PROVE (SocketsBelongToEndpoints /\ ModesOK)'
    BY <1>2 DEF SocketsBelongToEndpoints, ModesOK
  <2>2. /\ \A ep \in Endpoint : endpointMap[ep].fd # fd
        /\ \A u \in Opening : at[u].fd # fd
        /\ fd \notin replaced
    BY <1>1, <2>1 DEF SocketsBelongToEndpoints
  <2>3. Open' = {endpointMap[e].fd : e \in Endpoint} \cup {at[u].fd : u \in Opening'} \cup replaced \cup {fd}
    BY <1>5, <1>7, <2>1 DEF SocketsBelongToEndpoints
  <2>4. nonblocking[server.fd] = server.isAsynchronous
    BY <1>3, <2>1 DEF ModesOK, server
  <2>5. \A u \in Opening' : at'[u] = at[u] /\ at[u].fd # fd
    BY <1>5, <1>6, <2>2
  <2> QED BY <1>1, <1>3, <1>5, <1>7, <2>1, <2>2, <2>3, <2>4, <2>5, PutsApart
<1> QED BY <1>11, <1>12, <1>13

-----------------------------------------------------------------------------
(* What holds of OpenTransport *)

LEMMA InitTransportInv == InitTransport => TransportInv
<1> SUFFICES ASSUME InitTransport PROVE TransportInv
  OBVIOUS
<1>1. /\ Endpoint = {} /\ Open = {} /\ DOMAIN at = Client /\ \A t \in Client : at[t] = Out
      /\ nextEndpointId = 1 /\ endpointMutex = "none" /\ replaced = {} /\ unbindFailed = FALSE
  BY DEF InitTransport, Endpoint, Open
<1>2. Opening = {} /\ Hosted = {}
  BY <1>1, Pcs DEF Opening, Hosted
<1>3. TransportTypeOK
  <2>1. nonblocking \in [Open -> BOOLEAN]
    BY DEF InitTransport, Open
  <2>2. endpointMap \in [Endpoint -> [fd : Descriptor, isAsynchronous : BOOLEAN]]
    BY <1>1 DEF InitTransport, Endpoint
  <2>3. unbindFailed \in BOOLEAN
    BY <1>1
  <2>4. nextEndpointId \in 1..(MaxEndpoints + 1)
    <3>1. nextEndpointId = 1 /\ MaxEndpoints \in Nat
      BY <1>1, TransportAssumption
    <3> QED BY <3>1
  <2> QED BY <1>1, <2>1, <2>2, <2>3, <2>4 DEF TransportTypeOK
<1>4. MutexOK /\ ModesOK
  BY <1>1, <1>2 DEF MutexOK, ModesOK
<1>5. SocketsBelongToEndpoints
  BY <1>1, <1>2 DEF SocketsBelongToEndpoints
<1> QED BY <1>3, <1>4, <1>5 DEF TransportInv

LEMMA NextTransportInv ==
  ASSUME TransportInv, [NextTransport]_transportVars
  PROVE  TransportInv'
<1>1. CASE UNCHANGED transportVars
  <2>1. UNCHANGED <<Endpoint, Open, Opening, Hosted>>
    BY <1>1 DEF transportVars, Endpoint, Open, Opening, Hosted
  <2>2. UNCHANGED <<TransportTypeOK, SocketsBelongToEndpoints>>
    BY <1>1, <2>1 DEF transportVars, TransportTypeOK, SocketsBelongToEndpoints
  <2> QED BY <1>1, <2>1, <2>2 DEF transportVars, TransportInv, MutexOK, ModesOK
<1>2. ASSUME NEW t \in Client, \E async \in BOOLEAN : Socket(t, async) PROVE TransportInv'
  BY <1>2, SocketKeeps
<1>3. ASSUME NEW t \in Client, CloseOpenTransport(t) PROVE TransportInv'
  BY <1>3, CloseKeeps DEF CloseOpenTransport
<1>4. ASSUME NEW t \in Client, NEW ep \in Endpoint, OTCloseProvider(t, ep) PROVE TransportInv'
  <2>1. {endpointMap[ep].fd} = {endpointMap[e].fd : e \in {ep}}
    OBVIOUS
  <2> QED BY <1>4, <2>1, CloseKeeps DEF OTCloseProvider, Locked
<1>5. ASSUME NEW t \in Client, NEW ep \in Endpoint, OTSetAsynchronous(t, ep) \/ OTSetSynchronous(t, ep)
      PROVE  TransportInv'
  BY <1>5, SetModeKeeps DEF OTSetAsynchronous, OTSetSynchronous
<1> QED BY <1>1, <1>2, <1>3, <1>4, <1>5, InsertKeeps, UnbindKeeps, CallHostKeeps, HostReturnsKeeps,
           OTAcceptKeeps DEF NextTransport

LEMMA TransportInvHolds == TransportSpec => []TransportInv
BY InitTransportInv, NextTransportInv, PTL DEF TransportSpec

\* The variables have their types: an endpoint that a thread uses stays in the map while the thread is
\* in the host.
THEOREM TransportTypeCorrect == TransportSpec => []TransportTypeOK
BY TransportInvHolds, PTL DEF TransportInv

\* Descriptors that the host uses again never make two endpoints share a connection, and no socket is
\* left open but those whose number in the map another one takes, until an OTUnbind fails.
THEOREM SocketsStayApart == TransportSpec => []SocketsBelongToEndpoints
BY TransportInvHolds, PTL DEF TransportInv

\* A call on an asynchronous endpoint never holds up the threads that wait for the mutex, whatever was
\* accepted, unbound or changed its mode before.
THEOREM AsynchronousNeverWaits == TransportSpec => []OnlySynchronousCallsWait
<1>1. TransportInv => OnlySynchronousCallsWait
  <2> SUFFICES ASSUME TransportInv, ~unbindFailed, NEW t \in Client, Waits(t)
               PROVE  endpointMutex = t /\ ~endpointMap[at[t].ep].isAsynchronous
    BY DEF OnlySynchronousCallsWait
  <2>1. t \in Hosted /\ ~nonblocking[endpointMap[at[t].ep].fd]
    BY DEF Waits, Hosted
  <2>2. at[t].ep \in Endpoint
    BY <2>1, Places DEF TransportInv
  <2>3. nonblocking[endpointMap[at[t].ep].fd] = endpointMap[at[t].ep].isAsynchronous
    BY <2>2 DEF TransportInv, ModesOK
  <2>4. endpointMutex = t
    BY <2>1 DEF TransportInv, MutexOK
  <2> QED BY <2>1, <2>3, <2>4
<1> QED BY <1>1, TransportInvHolds, PTL

-----------------------------------------------------------------------------
(* Induction *)

\* A set of numbers has a least one.
LEMMA Least ==
  ASSUME NEW T, T \subseteq Nat, T # {}
  PROVE  \E x \in T : \A y \in T : x <= y
<1> DEFINE R == OpToRel(<, Nat)
<1>1. \E x \in T : \A y \in T : ~(<<y, x>> \in R)
  <2> HIDE DEF R
  <2>1. IsWellFoundedOn(R, Nat)
    BY NatLessThanWellFounded DEF R
  <2> QED BY <2>1, WFMin, Zenon
<1>2. \A x, y \in Nat : y < x => <<y, x>> \in R
  BY DEF OpToRel
<1> HIDE DEF R
<1>3. PICK x \in T : \A y \in T : ~(<<y, x>> \in R)
  BY <1>1
<1>4. \A y \in T : ~(y < x)
  BY <1>2, <1>3
<1> QED BY <1>3, <1>4

\* Induction, on a set.
LEMMA Induction ==
  ASSUME NEW T, 0 \in T, \A n \in Nat : n \in T => n + 1 \in T
  PROVE  Nat \subseteq T
<1> SUFFICES ASSUME ~(Nat \subseteq T) PROVE FALSE
  OBVIOUS
<1>1. PICK x \in Nat \ T : \A y \in Nat \ T : x <= y
  BY Least
<1>2. x - 1 \in Nat /\ ~(x <= x - 1)
  BY <1>1
<1>3. x - 1 \in T
  BY <1>1, <1>2
<1> QED BY <1>1, <1>2, <1>3

-----------------------------------------------------------------------------
(* Sequences of sequences *)

\* FlattenSeq is the function that its equation describes, which there is for every sequence.
Flattens(f, n, seqs) == f = [i \in 1..n |-> IF i = 1 THEN seqs[i] ELSE f[i - 1] \o seqs[i]]

LEMMA FlattenIs ==
  ASSUME NEW seqs
  PROVE  FlattenSeq(seqs)
           = IF Len(seqs) = 0 THEN seqs ELSE (CHOOSE f : Flattens(f, Len(seqs), seqs))[Len(seqs)]
BY DEF FlattenSeq, Flattens

LEMMA FlattensExists ==
  ASSUME NEW n \in Nat, NEW seqs
  PROVE  \E f : Flattens(f, n, seqs)
<1> DEFINE T == {m \in Nat : \E f : Flattens(f, m, seqs)}
<1>1. 0 \in T
  <2> DEFINE f == [i \in 1..0 |-> seqs]
  <2>1. Flattens(f, 0, seqs)
    BY DEF Flattens
  <2> HIDE DEF f
  <2> QED BY <2>1
<1>2. ASSUME NEW m \in Nat, m \in T PROVE m + 1 \in T
  <2>1. PICK f : Flattens(f, m, seqs)
    BY <1>2
  <2> DEFINE next == IF m + 1 = 1 THEN seqs[m + 1] ELSE f[m] \o seqs[m + 1]
  <2> HIDE DEF next
  <2> DEFINE g == [i \in 1..(m + 1) |-> IF i = m + 1 THEN next ELSE f[i]]
  <2>2. ASSUME NEW i \in 1..(m + 1)
        PROVE  g[i] = IF i = 1 THEN seqs[i] ELSE g[i - 1] \o seqs[i]
    <3>1. CASE i = m + 1
      <4>1. CASE i = 1
        BY <3>1, <4>1 DEF next
      <4>2. CASE i # 1
        <5>1. g[i - 1] = f[m] /\ g[i] = next
          BY <3>1, <4>2
        <5> QED BY <3>1, <4>2, <5>1 DEF next
      <4> QED BY <4>1, <4>2
    <3>2. CASE i \in 1..m
      <4>1. f[i] = IF i = 1 THEN seqs[i] ELSE f[i - 1] \o seqs[i]
        BY <2>1, <3>2 DEF Flattens
      <4>2. g[i] = f[i] /\ (i # 1 => g[i - 1] = f[i - 1])
        BY <3>2
      <4> HIDE DEF g
      <4> QED BY <4>1, <4>2
    <3> QED BY <3>1, <3>2
  <2>3. Flattens(g, m + 1, seqs)
    <3> DEFINE h == [i \in 1..(m + 1) |-> IF i = 1 THEN seqs[i] ELSE g[i - 1] \o seqs[i]]
    <3>1. g = [i \in 1..(m + 1) |-> g[i]]
      OBVIOUS
    <3> HIDE DEF g
    <3>2. g = h
      BY <2>2, <3>1
    <3> QED BY <3>2 DEF Flattens
  <2> HIDE DEF g
  <2> QED BY <2>3
<1> HIDE DEF T
<1>3. Nat \subseteq T
  BY <1>1, <1>2, Induction
<1> QED BY <1>3 DEF T

\* Two that agree on a prefix.
Agree(s, t, n) == \A i \in 1..n : s[i] = t[i]

LEMMA FlattensAgree ==
  ASSUME NEW n \in Nat, NEW m \in Nat, n <= m, NEW s, NEW t, Agree(s, t, n),
         NEW f, NEW g, Flattens(f, n, s), Flattens(g, m, t)
  PROVE  Agree(f, g, n)
<1> DEFINE T == {k \in Nat : k \in 1..n => f[k] = g[k]}
<1>1. 0 \in T
  OBVIOUS
<1>2. ASSUME NEW k \in Nat, k \in T PROVE k + 1 \in T
  <2>1. SUFFICES ASSUME k + 1 \in 1..n PROVE f[k + 1] = g[k + 1]
    OBVIOUS
  <2>2. k + 1 \in 1..m /\ s[k + 1] = t[k + 1]
    BY <2>1 DEF Agree
  <2>3. CASE k = 0
    <3>1. f[1] = s[1]
      BY <2>1, <2>3 DEF Flattens
    <3>2. g[1] = t[1]
      BY <2>2, <2>3 DEF Flattens
    <3> QED BY <2>2, <2>3, <3>1, <3>2
  <2>4. CASE k # 0
    <3>0. k + 1 # 1 /\ (k + 1) - 1 = k
      BY <2>4
    <3>1. f[k + 1] = f[k] \o s[k + 1]
      BY <2>1, <3>0 DEF Flattens
    <3>2. g[k + 1] = g[k] \o t[k + 1]
      BY <2>2, <3>0 DEF Flattens
    <3>3. f[k] = g[k]
      BY <1>2, <2>1, <2>4
    <3> QED BY <2>2, <3>1, <3>2, <3>3
  <2> QED BY <2>3, <2>4
<1> HIDE DEF T
<1>3. Nat \subseteq T
  BY <1>1, <1>2, Induction
<1> QED BY <1>3 DEF T, Agree

LEMMA FlattenEmpty == FlattenSeq(<<>>) = <<>>
<1> DEFINE s == <<>>
<1>1. Len(s) = 0
  OBVIOUS
<1> HIDE DEF s
<1>2. FlattenSeq(s) = s
  BY <1>1, FlattenIs
<1> QED BY <1>2 DEF s

LEMMA FlattenAppend ==
  ASSUME NEW S, NEW s \in Seq(Seq(S)), NEW x \in Seq(S)
  PROVE  FlattenSeq(Append(s, x)) = IF s = <<>> THEN x ELSE FlattenSeq(s) \o x
<1> DEFINE t == Append(s, x)
           n == Len(s)
<1>1. n \in Nat /\ Len(t) = n + 1 /\ t[n + 1] = x /\ \A i \in 1..n : s[i] = t[i]
  OBVIOUS
<1>2. (n = 0) = (s = <<>>)
  OBVIOUS
<1> HIDE DEF t, n
<1> DEFINE f == CHOOSE h : Flattens(h, n, s)
           g == CHOOSE h : Flattens(h, n + 1, t)
<1>3. Flattens(f, n, s)
  BY <1>1, FlattensExists
<1>4. Flattens(g, n + 1, t)
  <2>1. n + 1 \in Nat
    BY <1>1
  <2>2. \E h : Flattens(h, n + 1, t)
    BY <2>1, FlattensExists
  <2> QED BY <2>2
<1>5. FlattenSeq(t) = g[n + 1]
  BY <1>1, FlattenIs
<1>6. n # 0 => FlattenSeq(s) = f[n]
  BY <1>1, FlattenIs DEF n
<1> HIDE DEF f, g
<1>7. CASE n = 0
  <2>1. g[1] = t[1]
    BY <1>4, <1>7 DEF Flattens
  <2> QED BY <1>1, <1>2, <1>5, <1>7, <2>1 DEF t
<1>8. CASE n # 0
  <2>1. n + 1 \in 1..(n + 1) /\ n + 1 # 1 /\ (n + 1) - 1 = n /\ n \in 1..n
    BY <1>1, <1>8
  <2>2. g[n + 1] = g[n] \o t[n + 1]
    BY <1>4, <2>1 DEF Flattens
  <2>3. n + 1 \in Nat /\ n <= n + 1
    BY <1>1
  <2>4. Agree(f, g, n)
    <3> DEFINE m == n + 1
    <3>1. m \in Nat /\ n <= m /\ Flattens(g, m, t)
      BY <2>3, <1>4
    <3>2. n \in Nat /\ Agree(s, t, n)
      BY <1>1 DEF Agree
    <3> HIDE DEF m
    <3> QED BY <1>3, <3>1, <3>2, FlattensAgree
  <2>5. f[n] = g[n]
    BY <2>1, <2>4 DEF Agree
  <2> QED BY <1>1, <1>2, <1>5, <1>6, <1>8, <2>2, <2>5 DEF t
<1> QED BY <1>7, <1>8

\* A sequence that is not empty is one entry after the others.
Initial(s, m) == [i \in 1..m |-> s[i]]

LEMMA LastEntry ==
  ASSUME NEW S, NEW m \in Nat, NEW s \in Seq(S), Len(s) = m + 1
  PROVE  /\ Initial(s, m) \in Seq(S) /\ Len(Initial(s, m)) = m
         /\ s[m + 1] \in S
         /\ s = Append(Initial(s, m), s[m + 1])
<1> DEFINE u == Initial(s, m)
<1>1. m + 1 \in 1..Len(s) /\ 1..m \subseteq 1..Len(s)
  OBVIOUS
<1>2. \A i \in 1..Len(s) : s[i] \in S
  OBVIOUS
<1>3. u \in Seq(S) /\ Len(u) = m
  BY <1>1, <1>2 DEF Initial
<1>4. \A i \in 1..m : u[i] = s[i]
  BY DEF Initial
<1> HIDE DEF u
<1>5. Append(u, s[m + 1]) \in Seq(S) /\ Len(Append(u, s[m + 1])) = m + 1
  BY <1>1, <1>2, <1>3
<1>6. ASSUME NEW i \in 1..(m + 1) PROVE Append(u, s[m + 1])[i] = s[i]
  BY <1>2, <1>3, <1>4, <1>6
<1>7. s = Append(u, s[m + 1])
  BY <1>5, <1>6
<1> QED BY <1>1, <1>2, <1>3, <1>7 DEF u

LEMMA FlattenType ==
  ASSUME NEW S, NEW s \in Seq(Seq(S))
  PROVE  FlattenSeq(s) \in Seq(S)
<1> DEFINE T == {m \in Nat : \A t \in Seq(Seq(S)) : Len(t) = m => FlattenSeq(t) \in Seq(S)}
<1>1. 0 \in T
  <2> SUFFICES ASSUME NEW t \in Seq(Seq(S)), Len(t) = 0 PROVE FlattenSeq(t) \in Seq(S)
    OBVIOUS
  <2>1. t = <<>>
    OBVIOUS
  <2>2. FlattenSeq(t) = <<>>
    BY <2>1, FlattenEmpty
  <2>3. <<>> \in Seq(S)
    OBVIOUS
  <2> QED BY <2>2, <2>3
<1>2. ASSUME NEW m \in Nat, m \in T PROVE m + 1 \in T
  <2> SUFFICES ASSUME NEW t \in Seq(Seq(S)), Len(t) = m + 1 PROVE FlattenSeq(t) \in Seq(S)
    OBVIOUS
  <2> DEFINE u == Initial(t, m)
             x == t[m + 1]
  <2>1. u \in Seq(Seq(S)) /\ Len(u) = m /\ x \in Seq(S) /\ t = Append(u, x)
    BY LastEntry
  <2> HIDE DEF u, x
  <2>2. FlattenSeq(u) \in Seq(S)
    BY <1>2, <2>1
  <2>3. FlattenSeq(Append(u, x)) = IF u = <<>> THEN x ELSE FlattenSeq(u) \o x
    BY <2>1, FlattenAppend
  <2> DEFINE y == FlattenSeq(u)
  <2> HIDE DEF y
  <2>4. y \o x \in Seq(S)
    BY <2>1, <2>2 DEF y
  <2> QED BY <2>1, <2>3, <2>4 DEF y
<1> HIDE DEF T
<1>3. Nat \subseteq T
  BY <1>1, <1>2, Induction
<1> QED BY <1>3 DEF T

\* A concatenation flattened is its parts, flattened.
LEMMA FlattenConcat ==
  ASSUME NEW S, NEW s \in Seq(Seq(S)), NEW t \in Seq(Seq(S))
  PROVE  FlattenSeq(s \o t) = FlattenSeq(s) \o FlattenSeq(t)
<1>a. ASSUME NEW a \in Seq(S), NEW b \in Seq(S), NEW c \in Seq(S) PROVE (a \o b) \o c = a \o (b \o c)
  BY SMTT(30)
<1> DEFINE F == FlattenSeq(s)
           T == {m \in Nat : \A v \in Seq(Seq(S)) :
                   Len(v) = m => FlattenSeq(s \o v) = F \o FlattenSeq(v)}
<1>0. F \in Seq(S)
  BY FlattenType
<1>1. 0 \in T
  <2> SUFFICES ASSUME NEW v \in Seq(Seq(S)), Len(v) = 0 PROVE FlattenSeq(s \o v) = F \o FlattenSeq(v)
    OBVIOUS
  <2>1. v = <<>> /\ s \o v = s
    OBVIOUS
  <2>2. F \o <<>> = F
    <3> HIDE DEF F
    <3> QED BY <1>0
  <2> QED BY <2>1, <2>2, FlattenEmpty
<1>2. ASSUME NEW m \in Nat, m \in T PROVE m + 1 \in T
  <2> SUFFICES ASSUME NEW v \in Seq(Seq(S)), Len(v) = m + 1
               PROVE  FlattenSeq(s \o v) = F \o FlattenSeq(v)
    OBVIOUS
  <2> DEFINE u == Initial(v, m)
             x == v[m + 1]
             w == s \o u
  <2>1. u \in Seq(Seq(S)) /\ Len(u) = m /\ x \in Seq(S) /\ v = Append(u, x)
    BY LastEntry
  <2> HIDE DEF u, x
  <2>2. FlattenSeq(w) = F \o FlattenSeq(u)
    BY <1>2, <2>1
  <2>3. w \in Seq(Seq(S)) /\ Len(w) = Len(s) + Len(u)
    BY <2>1
  <2>4. s \o v = Append(w, x)
    <3> DEFINE X == Seq(S)
    <3>1. s \in Seq(X) /\ u \in Seq(X) /\ x \in X
      BY <2>1
    <3> HIDE DEF X
    <3>2. s \o Append(u, x) = Append(s \o u, x)
      BY <3>1
    <3> QED BY <2>1, <3>2
  <2>5. (w = <<>>) = (Len(w) = 0)
    BY <2>3
  <2>6. (s = <<>>) = (Len(s) = 0) /\ (u = <<>>) = (Len(u) = 0) /\ Len(s) \in Nat /\ Len(u) \in Nat
    BY <2>1
  <2> HIDE DEF w
  <2>7. FlattenSeq(Append(w, x)) = IF w = <<>> THEN x ELSE FlattenSeq(w) \o x
    BY <2>1, <2>3, FlattenAppend
  <2>8. FlattenSeq(Append(u, x)) = IF u = <<>> THEN x ELSE FlattenSeq(u) \o x
    BY <2>1, FlattenAppend
  <2> DEFINE G == FlattenSeq(u)
  <2>9. G \in Seq(S)
    BY <2>1, FlattenType
  <2>10. s = <<>> => F = <<>>
    BY FlattenEmpty
  <2>11. u = <<>> => G = <<>>
    BY FlattenEmpty
  <2> DEFINE FV == FlattenSeq(s \o v)
             GV == FlattenSeq(v)
  <2>12. FV = (IF w = <<>> THEN x ELSE (F \o G) \o x)
    BY <2>2, <2>4, <2>7
  <2>13. GV = (IF u = <<>> THEN x ELSE G \o x)
    BY <2>1, <2>8
  <2>14. F \in Seq(S)
    BY <1>0
  <2> HIDE DEF F, G, FV, GV
  <2>15. CASE w = <<>>
    <3>1. s = <<>> /\ u = <<>>
      BY <2>3, <2>5, <2>6, <2>15
    <3>2. <<>> \o x = x
      BY <2>1
    <3>3. FV = x /\ GV = x /\ F = <<>>
      BY <2>10, <2>12, <2>13, <2>15, <3>1
    <3> QED BY <3>2, <3>3 DEF FV, GV
  <2>16. CASE w # <<>> /\ u = <<>>
    <3>1. F \o <<>> = F
      BY <2>14
    <3>2. FV = (F \o <<>>) \o x /\ GV = x
      BY <2>11, <2>12, <2>13, <2>16
    <3> QED BY <3>1, <3>2 DEF FV, GV
  <2>17. CASE w # <<>> /\ u # <<>>
    <3>1. (F \o G) \o x = F \o (G \o x)
      BY <1>a, <2>1, <2>9, <2>14, Zenon
    <3>2. FV = (F \o G) \o x /\ GV = G \o x
      BY <2>12, <2>13, <2>17
    <3> QED BY <3>1, <3>2 DEF FV, GV
  <2> QED BY <2>15, <2>16, <2>17
<1> HIDE DEF F, T
<1>3. Nat \subseteq T
  BY <1>1, <1>2, Induction
<1>4. Len(t) \in Nat
  OBVIOUS
<1> QED BY <1>3, <1>4 DEF T, F

\* Its first sequence comes first.
LEMMA FlattenFirst ==
  ASSUME NEW S, NEW x \in Seq(S), NEW t \in Seq(Seq(S))
  PROVE  FlattenSeq(<<x>> \o t) = x \o FlattenSeq(t)
<1> DEFINE s == <<x>>
           e == <<>>
<1>1. s \in Seq(Seq(S)) /\ e \in Seq(Seq(S)) /\ s = Append(e, x)
  OBVIOUS
<1>2. FlattenSeq(Append(e, x)) = IF e = <<>> THEN x ELSE FlattenSeq(e) \o x
  <2> HIDE DEF s, e
  <2> QED BY <1>1, FlattenAppend
<1>3. FlattenSeq(s) = x
  BY <1>1, <1>2
<1> HIDE DEF s
<1>4. FlattenSeq(s \o t) = FlattenSeq(s) \o FlattenSeq(t)
  BY <1>1, FlattenConcat
<1> QED BY <1>3, <1>4 DEF s

-----------------------------------------------------------------------------
(* Repetitions *)

LEMMA TimesOf ==
  ASSUME NEW S, NEW words \in Seq(S), NEW n \in Nat
  PROVE  /\ Times(n, words) \in Seq(S)
         /\ Len(Times(n, words)) = n * Len(words)
         /\ \A k \in 1..n * Len(words) :
              /\ ((k - 1) % Len(words)) + 1 \in 1..Len(words)
              /\ Times(n, words)[k] = words[((k - 1) % Len(words)) + 1]
<1> DEFINE l == Len(words)
           m == n * l
           t == [k \in 1..m |-> words[((k - 1) % l) + 1]]
<1>1. l \in Nat /\ \A i \in 1..l : words[i] \in S
  OBVIOUS
<1> HIDE DEF l
<1>2. m \in Nat
  BY <1>1
<1>3. l = 0 => m = 0
  BY <1>1
<1> HIDE DEF m
<1>4. ASSUME NEW k \in 1..m PROVE ((k - 1) % l) + 1 \in 1..l
  <2>1. l \in Nat \ {0} /\ k - 1 \in Nat
    BY <1>1, <1>2, <1>3
  <2> DEFINE x == k - 1
  <2> HIDE DEF x
  <2>2. x % l \in 0..(l - 1)
    BY <2>1 DEF x
  <2> DEFINE y == x % l
  <2> HIDE DEF y
  <2>3. y + 1 \in 1..l
    BY <2>1, <2>2 DEF y
  <2> QED BY <2>3 DEF x, y
<1>5. Times(n, words) = t
  BY DEF Times, m, l
<1>6. t \in [1..m -> S]
  BY <1>1, <1>4
<1>7. t \in Seq(S) /\ Len(t) = m
  BY <1>2, <1>6
<1>8. \A k \in 1..m : t[k] = words[((k - 1) % l) + 1]
  OBVIOUS
<1> HIDE DEF t
<1> QED BY <1>4, <1>5, <1>7, <1>8 DEF l, m

\* What a function makes of a sequence's entries.
Mapped(f, s) == [m \in 1..Len(s) |-> f[s[m]]]

Into(f, D, X) == \A d \in D : f[d] \in X
Follows(c, f, s) == Len(c) = Len(s) /\ \A m \in 1..Len(s) : c[m] = f[s[m]]

LEMMA MappedType ==
  ASSUME NEW D, NEW X, NEW f, Into(f, D, X), NEW s \in Seq(D)
  PROVE  Mapped(f, s) \in Seq(X) /\ Follows(Mapped(f, s), f, s)
<1>1. Len(s) \in Nat /\ \A m \in 1..Len(s) : s[m] \in D
  OBVIOUS
<1>2. \A m \in 1..Len(s) : f[s[m]] \in X
  BY <1>1 DEF Into
<1> DEFINE c == [m \in 1..Len(s) |-> f[s[m]]]
<1>3. c \in Seq(X) /\ Len(c) = Len(s) /\ \A m \in 1..Len(s) : c[m] = f[s[m]]
  BY <1>1, <1>2
<1>4. Mapped(f, s) = c
  BY DEF Mapped
<1> HIDE DEF c
<1> QED BY <1>3, <1>4 DEF Follows

LEMMA MappedConcat ==
  ASSUME NEW D, NEW X, NEW f, Into(f, D, X), NEW s \in Seq(D), NEW t \in Seq(D)
  PROVE  Mapped(f, s \o t) = Mapped(f, s) \o Mapped(f, t)
<1> DEFINE u == s \o t
           a == Mapped(f, s)
           b == Mapped(f, t)
           c == Mapped(f, u)
<1>1. u \in Seq(D) /\ Len(u) = Len(s) + Len(t) /\ Len(s) \in Nat /\ Len(t) \in Nat
      /\ \A m \in 1..Len(u) : u[m] = IF m <= Len(s) THEN s[m] ELSE t[m - Len(s)]
  BY ConcatProperties, LenProperties
<1> HIDE DEF u
<1>2. a \in Seq(X) /\ Follows(a, f, s)
  BY MappedType
<1>3. b \in Seq(X) /\ Follows(b, f, t)
  BY MappedType
<1>4. c \in Seq(X) /\ Follows(c, f, u)
  BY <1>1, MappedType
<1> HIDE DEF a, b, c
<1>5. a \o b \in Seq(X) /\ Len(a \o b) = Len(a) + Len(b)
      /\ \A m \in 1..(Len(a) + Len(b)) : (a \o b)[m] = IF m <= Len(a) THEN a[m] ELSE b[m - Len(a)]
  BY <1>2, <1>3, ConcatProperties
<1> DEFINE d == a \o b
<1>6. d \in Seq(X) /\ Len(d) = Len(u)
  BY <1>1, <1>2, <1>3, <1>5 DEF Follows
<1>7. ASSUME NEW m \in 1..Len(u) PROVE c[m] = d[m]
  <2>0. c[m] = f[u[m]]
    BY <1>4 DEF Follows
  <2>1. CASE m <= Len(s)
    <3>1. m \in 1..Len(s) /\ m \in 1..(Len(a) + Len(b)) /\ m <= Len(a)
      BY <1>1, <1>2, <1>3, <2>1 DEF Follows
    <3>2. d[m] = a[m]
      BY <1>5, <3>1
    <3> HIDE DEF d
    <3>3. a[m] = f[s[m]]
      BY <1>2, <3>1 DEF Follows
    <3>4. u[m] = s[m]
      BY <1>1, <2>1
    <3> QED BY <2>0, <3>2, <3>3, <3>4
  <2>2. CASE ~(m <= Len(s))
    <3>1. m - Len(s) \in 1..Len(t) /\ m \in 1..(Len(a) + Len(b)) /\ ~(m <= Len(a))
          /\ m - Len(a) = m - Len(s)
      BY <1>1, <1>2, <1>3, <2>2 DEF Follows
    <3>2. d[m] = b[m - Len(s)]
      BY <1>5, <3>1
    <3> HIDE DEF d
    <3>3. b[m - Len(s)] = f[t[m - Len(s)]]
      BY <1>3, <3>1 DEF Follows
    <3>4. u[m] = t[m - Len(s)]
      BY <1>1, <2>2
    <3> QED BY <2>0, <3>2, <3>3, <3>4
  <2> QED BY <2>1, <2>2
<1>8. Len(c) = Len(u)
  BY <1>4 DEF Follows
<1> HIDE DEF d
<1>9. c = d
  BY <1>4, <1>6, <1>7, <1>8
<1> QED BY <1>9 DEF a, b, c, d, u

LEMMA MappedTimes ==
  ASSUME NEW D, NEW X, NEW f, Into(f, D, X), NEW s \in Seq(D), NEW n \in Nat
  PROVE  Mapped(f, Times(n, s)) = Times(n, Mapped(f, s))
<1> DEFINE u == Times(n, s)
           a == Mapped(f, s)
           c == Mapped(f, u)
           d == Times(n, a)
           place(k) == ((k - 1) % Len(s)) + 1
           m == n * Len(s)
<1>1. u \in Seq(D) /\ Len(u) = m
  BY TimesOf
<1>2. \A k \in 1..m : place(k) \in 1..Len(s) /\ u[k] = s[place(k)]
  BY TimesOf
<1> HIDE DEF u
<1>3. a \in Seq(X) /\ Follows(a, f, s)
  BY MappedType
<1>4. c \in Seq(X) /\ Follows(c, f, u)
  BY <1>1, MappedType
<1> HIDE DEF a, c
<1>5. d \in Seq(X) /\ Len(d) = n * Len(a)
  BY <1>3, TimesOf
<1>6. \A k \in 1..(n * Len(a)) : d[k] = a[((k - 1) % Len(a)) + 1]
  BY <1>3, TimesOf
<1>7. Len(a) = Len(s)
  BY <1>3 DEF Follows
<1>8. Len(d) = m /\ \A k \in 1..m : d[k] = a[place(k)]
  BY <1>5, <1>6, <1>7
<1> HIDE DEF d, place, m
<1>9. ASSUME NEW k \in 1..m PROVE c[k] = d[k]
  <2>1. place(k) \in 1..Len(s) /\ u[k] = s[place(k)] /\ d[k] = a[place(k)]
    BY <1>2, <1>8
  <2>2. c[k] = f[u[k]]
    BY <1>1, <1>4 DEF Follows
  <2>3. a[place(k)] = f[s[place(k)]]
    BY <1>3, <2>1 DEF Follows
  <2> QED BY <2>1, <2>2, <2>3
<1>10. Len(c) = m
  BY <1>1, <1>4 DEF Follows
<1>11. c = d
  BY <1>4, <1>5, <1>8, <1>9, <1>10
<1> QED BY <1>11 DEF a, c, d, u

-----------------------------------------------------------------------------
(* Programs with their repetitions written out *)

Repeats(program) ==
  \A k \in DOMAIN program : program[k].op = "SmallRepeat" =>
     program[k].blocks \in 1..(k - 1) /\ program[k].times \in Nat

\* The k-th instruction written out, given those before it.
Blocks(f, k, program) == [b \in 1..program[k].blocks |-> f[k - program[k].blocks + b - 1]]
Written(f, k, program) ==
  IF program[k].op # "SmallRepeat" THEN <<program[k]>>
  ELSE FlattenSeq(Times(program[k].times, Blocks(f, k, program)))

Expands(f, n, program) == f = [k \in 1..n |-> Written(f, k, program)]

LEMMA WrittenFromBefore ==
  ASSUME NEW program, Repeats(program), NEW k \in DOMAIN program, k \in Nat,
         NEW f, NEW g, Agree(f, g, k - 1)
  PROVE  Written(f, k, program) = Written(g, k, program)
<1>1. CASE program[k].op # "SmallRepeat"
  BY <1>1 DEF Written
<1>2. CASE program[k].op = "SmallRepeat"
  <2> DEFINE n == program[k].blocks
  <2>1. n \in 1..(k - 1)
    BY <1>2 DEF Repeats
  <2> HIDE DEF n
  <2>2. \A b \in 1..n : k - n + b - 1 \in 1..(k - 1)
    BY <2>1
  <2>3. \A b \in 1..n : f[k - n + b - 1] = g[k - n + b - 1]
    BY <2>2 DEF Agree
  <2>4. [b \in 1..n |-> f[k - n + b - 1]] = [b \in 1..n |-> g[k - n + b - 1]]
    BY <2>3
  <2>5. Blocks(f, k, program) = Blocks(g, k, program)
    BY <2>4 DEF Blocks, n
  <2> QED BY <1>2, <2>5 DEF Written
<1> QED BY <1>1, <1>2

LEMMA ExpandsExists ==
  ASSUME NEW S, NEW program \in Seq(S), Repeats(program), NEW n \in Nat
  PROVE  n <= Len(program) => \E f : Expands(f, n, program)
<1> DEFINE T == {m \in Nat : m <= Len(program) => \E f : Expands(f, m, program)}
<1>0. Len(program) \in Nat /\ DOMAIN program = 1..Len(program)
  OBVIOUS
<1>1. 0 \in T
  <2> DEFINE f == [i \in 1..0 |-> program]
  <2>1. Expands(f, 0, program)
    BY DEF Expands
  <2> HIDE DEF f
  <2> QED BY <2>1
<1>2. ASSUME NEW m \in Nat, m \in T PROVE m + 1 \in T
  <2> SUFFICES ASSUME m + 1 <= Len(program) PROVE \E f : Expands(f, m + 1, program)
    OBVIOUS
  <2>1. PICK f : Expands(f, m, program)
    BY <1>0, <1>2
  <2> DEFINE next == Written(f, m + 1, program)
  <2> HIDE DEF next
  <2> DEFINE g == [i \in 1..(m + 1) |-> IF i = m + 1 THEN next ELSE f[i]]
  <2>2. Agree(f, g, m)
    BY DEF Agree
  <2>3. ASSUME NEW i \in 1..(m + 1)
        PROVE  g[i] = Written(g, i, program)
    <3>1. i \in DOMAIN program /\ i \in Nat /\ Agree(f, g, i - 1)
      <4> HIDE DEF g
      <4> QED BY <1>0, <2>2 DEF Agree
    <3>2. g[i] = IF i = m + 1 THEN next ELSE f[i]
      OBVIOUS
    <3> HIDE DEF g
    <3>3. Written(f, i, program) = Written(g, i, program)
      BY <3>1, WrittenFromBefore
    <3>4. i # m + 1 => f[i] = Written(f, i, program)
      BY <2>1 DEF Expands
    <3> QED BY <3>2, <3>3, <3>4 DEF next
  <2>4. g = [i \in 1..(m + 1) |-> g[i]]
    OBVIOUS
  <2> HIDE DEF g
  <2>5. Expands(g, m + 1, program)
    <3> DEFINE h == [i \in 1..(m + 1) |-> Written(g, i, program)]
    <3>1. g = h
      BY <2>3, <2>4
    <3> QED BY <3>1 DEF Expands
  <2> QED BY <2>5
<1> HIDE DEF T
<1>3. Nat \subseteq T
  BY <1>1, <1>2, Induction
<1> QED BY <1>3 DEF T

LEMMA ExpansionIs ==
  ASSUME NEW S, NEW program \in Seq(S), Repeats(program)
  PROVE  /\ DOMAIN Expansion(program) = 1..Len(program)
         /\ \A k \in 1..Len(program) :
              Expansion(program)[k] = Written(Expansion(program), k, program)
         /\ Expands(Expansion(program), Len(program), program)
<1> DEFINE n == Len(program)
<1>1. Expansion(program) = CHOOSE f : Expands(f, Len(program), program)
  BY DEF Expansion, Expands, Written, Blocks
<1>2. n \in Nat /\ n <= Len(program)
  OBVIOUS
<1>3. \E f : Expands(f, n, program)
  <2> HIDE DEF n
  <2> QED BY <1>2, ExpandsExists
<1> DEFINE f == Expansion(program)
<1>4. Expands(f, n, program)
  BY <1>1, <1>3
<1> HIDE DEF f
<1>5. DOMAIN f = 1..n /\ \A k \in 1..n : f[k] = Written(f, k, program)
  BY <1>4 DEF Expands
<1> QED BY <1>4, <1>5 DEF f

LEMMA ExpansionType ==
  ASSUME NEW S, NEW program \in Seq(S), Repeats(program)
  PROVE  Expansion(program) \in [1..Len(program) -> Seq(S)]
<1> DEFINE n == Len(program)
           f == Expansion(program)
           T == {m \in Nat : \A k \in 1..m : k <= n => f[k] \in Seq(S)}
<1>0. n \in Nat /\ DOMAIN program = 1..n /\ \A k \in 1..n : program[k] \in S
  OBVIOUS
<1>1. DOMAIN f = 1..n /\ \A k \in 1..n : f[k] = Written(f, k, program)
  BY ExpansionIs
<1>2. f = [k \in 1..n |-> f[k]]
  <2>1. Expands(f, n, program)
    BY ExpansionIs
  <2> HIDE DEF f, n
  <2> QED BY <2>1 DEF Expands
<1> HIDE DEF f, n
<1>3. 0 \in T
  OBVIOUS
<1>4. ASSUME NEW m \in Nat, m \in T PROVE m + 1 \in T
  <2> SUFFICES ASSUME m + 1 <= n PROVE f[m + 1] \in Seq(S)
    <3>1. \A k \in 1..m : k <= n => f[k] \in Seq(S)
      BY <1>4
    <3>2. ASSUME NEW k \in 1..(m + 1), k <= n PROVE f[k] \in Seq(S)
      <4>1. CASE k = m + 1
        <5>1. m + 1 <= n
          BY <3>2, <4>1
        <5> QED BY <4>1, <5>1
      <4>2. CASE k \in 1..m
        BY <3>1, <3>2, <4>2
      <4> QED BY <4>1, <4>2
    <3> QED BY <3>2
  <2> DEFINE k == m + 1
  <2>1. k \in 1..n /\ k - 1 = m /\ k \in DOMAIN program
    BY <1>0
  <2>2. \A j \in 1..(k - 1) : f[j] \in Seq(S)
    BY <1>0, <1>4, <2>1
  <2> HIDE DEF k
  <2>3. f[k] = Written(f, k, program) /\ program[k] \in S
    BY <1>0, <1>1, <2>1
  <2>4. CASE program[k].op # "SmallRepeat"
    <3>1. Written(f, k, program) = <<program[k]>>
      BY <2>4 DEF Written
    <3> DEFINE i == program[k]
    <3>2. i \in S
      BY <2>3
    <3> HIDE DEF i
    <3>3. <<i>> \in Seq(S)
      BY <3>2
    <3>4. f[k] = <<i>>
      BY <2>3, <3>1 DEF i
    <3>5. f[k] \in Seq(S)
      BY <3>3, <3>4
    <3> QED BY <3>5 DEF k
  <2>5. CASE program[k].op = "SmallRepeat"
    <3> DEFINE b == program[k].blocks
               t == program[k].times
               B == Blocks(f, k, program)
    <3>1. b \in 1..(k - 1) /\ t \in Nat
      BY <2>1, <2>5 DEF Repeats
    <3>2. B = [i \in 1..b |-> f[k - b + i - 1]]
      BY DEF Blocks
    <3> HIDE DEF b, t, B
    <3>3. \A i \in 1..b : k - b + i - 1 \in 1..(k - 1)
      BY <2>1, <3>1
    <3>4. \A i \in 1..b : f[k - b + i - 1] \in Seq(S)
      BY <2>2, <3>3
    <3> DEFINE X == Seq(S)
    <3>5. \A i \in 1..b : f[k - b + i - 1] \in X
      BY <3>4
    <3> HIDE DEF X
    <3>6. B \in Seq(X)
      BY <2>1, <3>1, <3>2, <3>5
    <3>7. Times(t, B) \in Seq(X)
      BY <3>1, <3>6, TimesOf
    <3>8. FlattenSeq(Times(t, B)) \in Seq(S)
      BY <3>7, FlattenType DEF X
    <3>9. Written(f, k, program) = FlattenSeq(Times(t, B))
      BY <2>5 DEF Written, t, B
    <3> QED BY <2>3, <3>8, <3>9 DEF k
  <2> QED BY <2>4, <2>5
<1> HIDE DEF T
<1>5. Nat \subseteq T
  BY <1>3, <1>4, Induction
<1>6. \A k \in 1..n : f[k] \in Seq(S)
  BY <1>0, <1>5 DEF T
<1>7. f \in [1..n -> Seq(S)]
  BY <1>2, <1>6
<1> QED BY <1>7 DEF f, n

\* What the rest of a program stands for.
Rest(program, ks) == FlattenSeq(Mapped(Expansion(program), ks))

LEMMA RestTypes ==
  ASSUME NEW S, NEW program \in Seq(S), Repeats(program), NEW ks \in Seq(1..Len(program))
  PROVE  /\ Into(Expansion(program), 1..Len(program), Seq(S))
         /\ Mapped(Expansion(program), ks) \in Seq(Seq(S))
         /\ Rest(program, ks) \in Seq(S)
<1> DEFINE E == Expansion(program)
           D == 1..Len(program)
           X == Seq(S)
           c == Mapped(E, ks)
<1>1. E \in [D -> X]
  BY ExpansionType
<1> HIDE DEF E, D
<1>2. Into(E, D, X)
  <2> HIDE DEF X
  <2> QED BY <1>1 DEF Into
<1>3. c \in Seq(X)
  <2> HIDE DEF X
  <2>1. ks \in Seq(D)
    BY DEF D
  <2> QED BY <1>2, <2>1, MappedType
<1> HIDE DEF c
<1>4. FlattenSeq(c) \in Seq(S)
  BY <1>3, FlattenType
<1> QED BY <1>2, <1>3, <1>4 DEF Rest, c, D, E

LEMMA RestAll ==
  ASSUME NEW S, NEW program \in Seq(S)
  PROVE  Rest(program, [k \in 1..Len(program) |-> k]) = Flat(program)
<1> DEFINE n == Len(program)
           id == [k \in 1..n |-> k]
           E == Expansion(program)
<1>1. n \in Nat
  OBVIOUS
<1> HIDE DEF E
<1>2. id \in Seq(Nat) /\ Len(id) = n
  BY <1>1
<1>3. \A m \in 1..n : id[m] = m
  OBVIOUS
<1> HIDE DEF id, n
<1>4. Mapped(E, id) = [m \in 1..n |-> E[m]]
  BY <1>2, <1>3 DEF Mapped
<1> QED BY <1>4 DEF Rest, Flat, id, n, E

LEMMA RestFirst ==
  ASSUME NEW S, NEW program \in Seq(S), Repeats(program), NEW ks \in Seq(1..Len(program)), ks # <<>>
  PROVE  Rest(program, ks) = Expansion(program)[Head(ks)] \o Rest(program, Tail(ks))
<1> DEFINE E == Expansion(program)
           D == 1..Len(program)
           X == Seq(S)
           h == Head(ks)
           t == Tail(ks)
           y == E[h]
           r == Mapped(E, t)
<1>0. h \in D /\ t \in Seq(D) /\ ks = <<h>> \o t /\ <<h>> \in Seq(D)
  <2> HIDE DEF D
  <2> QED BY DEF D
<1>1. Into(E, D, X)
  BY RestTypes
<1> HIDE DEF E
<1>2. y \in X
  BY <1>0, <1>1 DEF Into
<1>3. r \in Seq(X)
  BY <1>0, RestTypes DEF E
<1> DEFINE s == <<h>>
<1>4. s \in Seq(D) /\ Len(s) = 1 /\ s[1] = h /\ ks = s \o t
  BY <1>0
<1> HIDE DEF h, t, D, X, s, y, r
<1>5. Mapped(E, s \o t) = Mapped(E, s) \o Mapped(E, t)
  BY <1>0, <1>1, <1>4, MappedConcat
<1>6. Mapped(E, s) = <<y>>
  BY <1>4 DEF Mapped, y
<1>7. Mapped(E, ks) = <<y>> \o r
  BY <1>4, <1>5, <1>6 DEF r
<1>8. FlattenSeq(<<y>> \o r) = y \o FlattenSeq(r)
  BY <1>2, <1>3, FlattenFirst DEF X
<1>9. FlattenSeq(Mapped(E, ks)) = y \o FlattenSeq(r)
  BY <1>7, <1>8
<1> QED BY <1>9 DEF Rest, y, r, E, h, t

LEMMA RestWritten ==
  ASSUME NEW S, NEW program \in Seq(S), Repeats(program), NEW ks \in Seq(1..Len(program)), ks # <<>>,
         program[Head(ks)].op # "SmallRepeat"
  PROVE  Rest(program, ks) = <<program[Head(ks)]>> \o Rest(program, Tail(ks))
<1> DEFINE h == Head(ks)
           E == Expansion(program)
<1>1. h \in 1..Len(program)
  OBVIOUS
<1> HIDE DEF h
<1>2. E[h] = Written(E, h, program)
  BY <1>1, ExpansionIs
<1> HIDE DEF E
<1>3. E[h] = <<program[h]>>
  BY <1>2 DEF Written, h
<1>4. Rest(program, ks) = E[h] \o Rest(program, Tail(ks))
  BY RestFirst DEF E, h
<1> QED BY <1>3, <1>4 DEF h

LEMMA RestRepeated ==
  ASSUME NEW S, NEW program \in Seq(S), Repeats(program), NEW ks \in Seq(1..Len(program)), ks # <<>>,
         NEW i, i = program[Head(ks)], i.op = "SmallRepeat", NEW new,
         new = Times(i.times, [k \in 1..i.blocks |-> Head(ks) - i.blocks + k - 1]) \o Tail(ks)
  PROVE  new \in Seq(1..Len(program)) /\ Rest(program, new) = Rest(program, ks)
<1> DEFINE h == Head(ks)
           t == Tail(ks)
           E == Expansion(program)
           D == 1..Len(program)
           X == Seq(S)
           n == i.times
           l == i.blocks
           b == [k \in 1..l |-> h - l + k - 1]
           B == Blocks(E, h, program)
<1>1. h \in D /\ t \in Seq(D) /\ Len(program) \in Nat /\ DOMAIN program = 1..Len(program)
  OBVIOUS
<1>2. Into(E, D, X)
  BY RestTypes
<1>3. E[h] = Written(E, h, program)
  BY <1>1, ExpansionIs
<1>4. Rest(program, ks) = E[h] \o Rest(program, t)
  BY RestFirst
<1>5. Rest(program, t) = FlattenSeq(Mapped(E, t)) /\ Rest(program, new) = FlattenSeq(Mapped(E, new))
  BY DEF Rest
<1> HIDE DEF E
<1>6. i = program[h] /\ new = Times(n, b) \o t
  OBVIOUS
<1> HIDE DEF h, t
<1>7. l \in 1..(h - 1) /\ n \in Nat
  BY <1>1, <1>6 DEF Repeats
<1>8. E[h] = FlattenSeq(Times(n, B))
  BY <1>3, <1>6 DEF Written
<1>9. B = [k \in 1..l |-> E[h - l + k - 1]]
  BY <1>6 DEF Blocks
<1> HIDE DEF n, l, B
<1>10. h \in Nat /\ h <= Len(program) /\ l \in Nat /\ l < h
  BY <1>1, <1>7
<1>11. ASSUME NEW k \in 1..l PROVE h - l + k - 1 \in D
  BY <1>1, <1>10
<1> HIDE DEF D, X
<1>12. b \in Seq(D) /\ Len(b) = l /\ \A k \in 1..l : b[k] = h - l + k - 1
  BY <1>10, <1>11
<1> HIDE DEF b
<1>13. Mapped(E, b) = B
  <2>1. Mapped(E, b) = [k \in 1..l |-> E[b[k]]]
    BY <1>12 DEF Mapped
  <2>2. \A k \in 1..l : E[b[k]] = E[h - l + k - 1]
    BY <1>12
  <2> QED BY <1>9, <2>1, <2>2
<1> DEFINE u == Times(n, b)
<1>14. u \in Seq(D)
  BY <1>7, <1>12, TimesOf
<1>15. Mapped(E, u) = Times(n, B)
  <2>1. Mapped(E, Times(n, b)) = Times(n, Mapped(E, b))
    BY <1>2, <1>7, <1>12, MappedTimes
  <2> QED BY <1>13, <2>1
<1>16. new = u \o t
  BY <1>6
<1> HIDE DEF u
<1>17. u \o t \in Seq(D)
  BY <1>1, <1>14
<1>18. Mapped(E, u \o t) = Mapped(E, u) \o Mapped(E, t)
  BY <1>1, <1>2, <1>14, MappedConcat
<1> DEFINE p == Mapped(E, u)
           q == Mapped(E, t)
<1>19. p \in Seq(X) /\ q \in Seq(X)
  BY <1>1, <1>2, <1>14, MappedType
<1> HIDE DEF p, q
<1>20. FlattenSeq(p \o q) = FlattenSeq(p) \o FlattenSeq(q)
  BY <1>19, FlattenConcat DEF X
<1>21. Mapped(E, new) = p \o q
  BY <1>16, <1>18 DEF p, q
<1>22. FlattenSeq(p) = E[h]
  BY <1>8, <1>15 DEF p
<1>23. Rest(program, new) = E[h] \o Rest(program, t)
  BY <1>5, <1>20, <1>21, <1>22 DEF q
<1> QED BY <1>4, <1>16, <1>17, <1>23 DEF D

-----------------------------------------------------------------------------
\* The rest of a sequence, from its (j + 1)-th entry on.
Remains(rest, flat, j) == Len(rest) = Len(flat) - j /\ \A m \in 1..Len(rest) : rest[m] = flat[j + m]

LEMMA RemainsAll ==
  ASSUME NEW S, NEW flat \in Seq(S)
  PROVE  Remains(flat, flat, 0)
<1>1. Len(flat) \in Nat
  OBVIOUS
<1> QED BY <1>1 DEF Remains

LEMMA RemainsNext ==
  ASSUME NEW S, NEW flat \in Seq(S), NEW rest \in Seq(S), NEW i \in S, NEW j \in Nat,
         Remains(<<i>> \o rest, flat, j)
  PROVE  j + 1 \in 1..Len(flat) /\ flat[j + 1] = i /\ Remains(rest, flat, j + 1)
<1> DEFINE n == Len(rest)
           r == <<i>> \o rest
<1>1. n \in Nat /\ Len(flat) \in Nat
  OBVIOUS
<1>2. r \in Seq(S) /\ Len(r) = n + 1 /\ r[1] = i /\ \A m \in 1..n : r[m + 1] = rest[m]
  OBVIOUS
<1> HIDE DEF n, r
<1>3. n + 1 = Len(flat) - j /\ \A m \in 1..(n + 1) : r[m] = flat[j + m]
  BY <1>2 DEF Remains, r
<1>4. \A m \in 1..n : r[m + 1] = flat[j + (m + 1)]
  BY <1>1, <1>3
<1>5. \A m \in 1..n : j + (m + 1) = (j + 1) + m
  OBVIOUS
<1>6. \A m \in 1..n : rest[m] = flat[(j + 1) + m]
  BY <1>2, <1>4, <1>5
<1>7. n = Len(flat) - (j + 1)
  BY <1>1, <1>3
<1>8. j + 1 \in 1..Len(flat) /\ r[1] = flat[j + 1]
  BY <1>1, <1>3
<1> QED BY <1>2, <1>6, <1>7, <1>8 DEF Remains, n

LEMMA RemainsNone ==
  ASSUME NEW S, NEW flat \in Seq(S), NEW j \in Nat, Remains(<<>>, flat, j)
  PROVE  j = Len(flat)
<1> DEFINE e == <<>>
<1>1. Len(e) = 0 /\ Len(flat) \in Nat
  OBVIOUS
<1> HIDE DEF e
<1>2. Len(e) = Len(flat) - j
  BY DEF Remains, e
<1> QED BY <1>1, <1>2

-----------------------------------------------------------------------------
(* Sums *)

Pick(s) == CHOOSE x \in s : TRUE

\* SumFunction is the function of the sets of arguments that its equation describes.
Summed(it, f, s) == IF s = {} THEN 0 ELSE f[Pick(s)] + it[s \ {Pick(s)}]
Sums(it, f, D) == it = [s \in SUBSET D |-> Summed(it, f, s)]

LEMMA SumIs ==
  ASSUME NEW f
  PROVE  SumFunction(f) = (CHOOSE it : Sums(it, f, DOMAIN f))[DOMAIN f]
BY DEF SumFunction, SumFunctionOnSet, FoldFunctionOnSet, MapThenFoldSet, Sums, Summed, Pick

LEMMA PickIn ==
  ASSUME NEW s, s # {}
  PROVE  Pick(s) \in s
BY DEF Pick

\* The subsets of D with n elements at most.
Small(D, n) == {s \in SUBSET D : Cardinality(s) <= n}

LEMMA SmallSets ==
  ASSUME NEW D, IsFiniteSet(D)
  PROVE  /\ Cardinality(D) \in Nat /\ Small(D, Cardinality(D)) = SUBSET D
         /\ Small(D, 0) = {{}}
         /\ \A n \in Nat : \A s \in Small(D, n + 1) : \A x \in s : s \ {x} \in Small(D, n)
<1>1. \A s \in SUBSET D : IsFiniteSet(s) /\ Cardinality(s) \in Nat /\ Cardinality(s) <= Cardinality(D)
  BY FS_Subset, FS_CardinalityType
<1>2. Cardinality(D) \in Nat
  BY FS_CardinalityType
<1>3. Small(D, Cardinality(D)) = SUBSET D
  BY <1>1 DEF Small
<1>4. Small(D, 0) = {{}}
  <2>1. \A s \in SUBSET D : Cardinality(s) <= 0 => s = {}
    BY <1>1, FS_EmptySet
  <2>2. Cardinality({}) = 0
    BY FS_EmptySet
  <2> QED BY <2>1, <2>2 DEF Small
<1>5. ASSUME NEW n \in Nat, NEW s \in Small(D, n + 1), NEW x \in s PROVE s \ {x} \in Small(D, n)
  <2>1. s \in SUBSET D /\ Cardinality(s) <= n + 1
    BY DEF Small
  <2>2. IsFiniteSet(s) /\ Cardinality(s) \in Nat
    BY <1>1, <2>1
  <2>3. Cardinality(s \ {x}) = Cardinality(s) - 1
    BY <2>2, FS_RemoveElement
  <2>4. Cardinality(s \ {x}) <= n
    BY <2>1, <2>2, <2>3
  <2> QED BY <2>1, <2>4 DEF Small
<1> QED BY <1>2, <1>3, <1>4, <1>5

\* The equation, for some of the sets.
SumsSome(it, f, T) == \A s \in T : it[s] = Summed(it, f, s)

LEMMA SumsSomeExists ==
  ASSUME NEW D, IsFiniteSet(D), NEW f, NEW n \in Nat
  PROVE  \E it : SumsSome(it, f, Small(D, n))
<1> DEFINE T == {m \in Nat : \E it : SumsSome(it, f, Small(D, m))}
<1>1. 0 \in T
  <2> DEFINE it == [s \in SUBSET D |-> 0]
  <2>1. \A s \in Small(D, 0) : s = {} /\ it[s] = 0
    BY SmallSets
  <2>2. SumsSome(it, f, Small(D, 0))
    BY <2>1 DEF SumsSome, Summed
  <2> HIDE DEF it
  <2> QED BY <2>2
<1>2. ASSUME NEW m \in Nat, m \in T PROVE m + 1 \in T
  <2>1. PICK it : SumsSome(it, f, Small(D, m))
    BY <1>2
  <2> DEFINE new == [s \in SUBSET D |-> Summed(it, f, s)]
  <2>2. \A s \in Small(D, m) : new[s] = it[s]
    BY <2>1 DEF SumsSome, Small
  <2>3. \A s \in Small(D, m + 1) : new[s] = Summed(it, f, s)
    BY DEF Small
  <2> HIDE DEF new
  <2>4. ASSUME NEW s \in Small(D, m + 1) PROVE Summed(it, f, s) = Summed(new, f, s)
    <3>1. CASE s = {}
      BY <3>1 DEF Summed
    <3>2. CASE s # {}
      <4> DEFINE x == Pick(s)
      <4>1. x \in s
        BY <3>2, PickIn
      <4> HIDE DEF x
      <4>2. s \ {x} \in Small(D, m)
        BY <4>1, SmallSets
      <4>3. new[s \ {x}] = it[s \ {x}]
        BY <2>2, <4>2
      <4> QED BY <3>2, <4>3 DEF Summed, x
    <3> QED BY <3>1, <3>2
  <2>5. SumsSome(new, f, Small(D, m + 1))
    BY <2>3, <2>4 DEF SumsSome
  <2> QED BY <2>3, <2>5
<1> HIDE DEF T
<1>3. Nat \subseteq T
  BY <1>1, <1>2, Induction
<1> QED BY <1>3 DEF T

LEMMA SumHolds ==
  ASSUME NEW D, IsFiniteSet(D), NEW f, DOMAIN f = D
  PROVE  \E it : SumsSome(it, f, SUBSET D) /\ SumFunction(f) = it[D]
<1> DEFINE n == Cardinality(D)
           it == CHOOSE h : Sums(h, f, D)
<1>1. n \in Nat /\ Small(D, n) = SUBSET D
  BY SmallSets
<1> HIDE DEF n
<1>2. PICK h : SumsSome(h, f, SUBSET D)
  <2>1. \E h : SumsSome(h, f, Small(D, n))
    BY <1>1, SumsSomeExists
  <2> QED BY <1>1, <2>1
<1> DEFINE g == [s \in SUBSET D |-> h[s]]
<1>3. ASSUME NEW s \in SUBSET D PROVE g[s] = Summed(g, f, s)
  <2>1. h[s] = Summed(h, f, s) /\ g[s] = h[s]
    BY <1>2 DEF SumsSome
  <2>2. g[s \ {Pick(s)}] = h[s \ {Pick(s)}]
    OBVIOUS
  <2> HIDE DEF g
  <2>3. Summed(g, f, s) = Summed(h, f, s)
    BY <2>2 DEF Summed
  <2> QED BY <2>1, <2>3
<1>4. g = [s \in SUBSET D |-> g[s]]
  OBVIOUS
<1> HIDE DEF g
<1>5. g = [s \in SUBSET D |-> Summed(g, f, s)]
  BY <1>3, <1>4
<1>6. Sums(g, f, D)
  BY <1>5 DEF Sums
<1>7. Sums(it, f, D)
  BY <1>6
<1> HIDE DEF it
<1>8. SumsSome(it, f, SUBSET D)
  BY <1>7 DEF Sums, SumsSome
<1>9. SumFunction(f) = it[D]
  BY SumIs DEF it
<1> QED BY <1>8, <1>9

LEMMA SumsNat ==
  ASSUME NEW D, IsFiniteSet(D), NEW f, Into(f, D, Nat), NEW it, SumsSome(it, f, SUBSET D),
         NEW n \in Nat
  PROVE  Into(it, Small(D, n), Nat)
<1> DEFINE T == {m \in Nat : Into(it, Small(D, m), Nat)}
<1>1. 0 \in T
  <2>1. \A s \in Small(D, 0) : s = {} /\ s \in SUBSET D
    BY SmallSets
  <2>2. \A s \in Small(D, 0) : it[s] = 0
    BY <2>1 DEF SumsSome, Summed
  <2> QED BY <2>2 DEF Into
<1>2. ASSUME NEW m \in Nat, m \in T PROVE m + 1 \in T
  <2>1. ASSUME NEW s \in Small(D, m + 1) PROVE it[s] \in Nat
    <3>1. s \in SUBSET D /\ it[s] = Summed(it, f, s)
      BY DEF SumsSome, Small
    <3>2. CASE s = {}
      BY <3>1, <3>2 DEF Summed
    <3>3. CASE s # {}
      <4> DEFINE x == Pick(s)
      <4>1. x \in s
        BY <3>3, PickIn
      <4>2. it[s] = f[x] + it[s \ {x}]
        BY <3>1, <3>3 DEF Summed
      <4> HIDE DEF x
      <4>3. s \ {x} \in Small(D, m)
        BY <4>1, SmallSets
      <4>4. it[s \ {x}] \in Nat /\ f[x] \in Nat
        BY <1>2, <3>1, <4>1, <4>3 DEF Into
      <4> QED BY <4>2, <4>4
    <3> QED BY <3>2, <3>3
  <2>2. Into(it, Small(D, m + 1), Nat)
    BY <2>1 DEF Into
  <2> QED BY <2>2
<1> HIDE DEF T
<1>3. Nat \subseteq T
  BY <1>1, <1>2, Induction
<1> QED BY <1>3 DEF T

\* Any element may be the first to be taken.
TakesOut(it, f, T) == \A s \in T : \A x \in s : it[s] = f[x] + it[s \ {x}]

LEMMA SumsTakeOut ==
  ASSUME NEW D, IsFiniteSet(D), NEW f, Into(f, D, Nat), NEW it, SumsSome(it, f, SUBSET D),
         NEW n \in Nat
  PROVE  TakesOut(it, f, Small(D, n))
<1> DEFINE T == {m \in Nat : TakesOut(it, f, Small(D, m))}
<1>0. ASSUME NEW s \in SUBSET D PROVE it[s] \in Nat
  <2> DEFINE c == Cardinality(D)
  <2>1. c \in Nat /\ Small(D, c) = SUBSET D
    BY SmallSets
  <2> HIDE DEF c
  <2>2. Into(it, Small(D, c), Nat)
    BY <2>1, SumsNat
  <2> QED BY <2>1, <2>2 DEF Into
<1>1. 0 \in T
  <2>1. \A s \in Small(D, 0) : s = {}
    BY SmallSets
  <2> QED BY <2>1 DEF TakesOut
<1>2. ASSUME NEW m \in Nat, m \in T PROVE m + 1 \in T
  <2>1. ASSUME NEW s \in Small(D, m + 1), NEW x \in s PROVE it[s] = f[x] + it[s \ {x}]
    <3> DEFINE y == Pick(s)
    <3>1. s \in SUBSET D /\ it[s] = Summed(it, f, s)
      BY DEF SumsSome, Small
    <3>2. y \in s
      BY PickIn
    <3>3. it[s] = f[y] + it[s \ {y}]
      BY <3>1 DEF Summed
    <3> HIDE DEF y
    <3>4. CASE x = y
      BY <3>3, <3>4
    <3>5. CASE x # y
      <4> DEFINE u == s \ {x}
                 v == s \ {y}
                 w == (s \ {x}) \ {y}
      <4>1. u \in Small(D, m) /\ v \in Small(D, m)
        BY <3>2, SmallSets
      <4>2. y \in u /\ x \in v /\ u \ {y} = w /\ v \ {x} = w /\ w \in SUBSET D
        BY <3>1, <3>2, <3>5
      <4>3. it[u] = f[y] + it[u \ {y}]
        <5> HIDE DEF u, v, w
        <5> QED BY <1>2, <4>1, <4>2 DEF TakesOut
      <4>4. it[v] = f[x] + it[v \ {x}]
        <5> HIDE DEF u, v, w
        <5> QED BY <1>2, <4>1, <4>2 DEF TakesOut
      <4>5. it[w] \in Nat
        BY <1>0, <4>2
      <4>6. f[x] \in Nat /\ f[y] \in Nat
        BY <3>1, <3>2 DEF Into
      <4>7. it[s] = f[y] + it[v]
        BY <3>3
      <4> HIDE DEF w
      <4>8. it[u] = f[y] + it[w] /\ it[v] = f[x] + it[w]
        BY <4>2, <4>3, <4>4
      <4> HIDE DEF v
      <4>9. it[s] = f[x] + it[u]
        BY <4>5, <4>6, <4>7, <4>8
      <4> QED BY <4>9
    <3> QED BY <3>4, <3>5
  <2>2. TakesOut(it, f, Small(D, m + 1))
    BY <2>1 DEF TakesOut
  <2> QED BY <2>2
<1> HIDE DEF T
<1>3. Nat \subseteq T
  BY <1>1, <1>2, Induction
<1> QED BY <1>3 DEF T

\* Two functions that agree have the same sums.
AgreeOn(f, g, T) == \A s \in T : f[s] = g[s]

LEMMA SumsAgree ==
  ASSUME NEW D, IsFiniteSet(D), NEW C, D \subseteq C, NEW f, NEW g, AgreeOn(f, g, D),
         NEW it, SumsSome(it, f, SUBSET D), NEW jt, SumsSome(jt, g, SUBSET C)
  PROVE  AgreeOn(it, jt, {D})
<1> DEFINE T == {m \in Nat : AgreeOn(it, jt, Small(D, m))}
<1>1. 0 \in T
  <2>1. \A s \in Small(D, 0) : s = {} /\ s \in SUBSET D /\ s \in SUBSET C
    BY SmallSets
  <2>2. \A s \in Small(D, 0) : it[s] = 0 /\ jt[s] = 0
    BY <2>1 DEF SumsSome, Summed
  <2> QED BY <2>2 DEF AgreeOn
<1>2. ASSUME NEW m \in Nat, m \in T PROVE m + 1 \in T
  <2>1. ASSUME NEW s \in Small(D, m + 1) PROVE it[s] = jt[s]
    <3>1. s \in SUBSET D /\ s \in SUBSET C
      BY DEF Small
    <3>2. it[s] = Summed(it, f, s) /\ jt[s] = Summed(jt, g, s)
      BY <3>1 DEF SumsSome
    <3>3. CASE s = {}
      BY <3>2, <3>3 DEF Summed
    <3>4. CASE s # {}
      <4> DEFINE x == Pick(s)
      <4>1. x \in s
        BY <3>4, PickIn
      <4>2. it[s] = f[x] + it[s \ {x}] /\ jt[s] = g[x] + jt[s \ {x}]
        BY <3>2, <3>4 DEF Summed
      <4> HIDE DEF x
      <4>3. s \ {x} \in Small(D, m)
        BY <4>1, SmallSets
      <4>4. it[s \ {x}] = jt[s \ {x}] /\ f[x] = g[x]
        BY <1>2, <3>1, <4>1, <4>3 DEF AgreeOn
      <4> QED BY <4>2, <4>4
    <3> QED BY <3>3, <3>4
  <2>2. AgreeOn(it, jt, Small(D, m + 1))
    BY <2>1 DEF AgreeOn
  <2> QED BY <2>2
<1> HIDE DEF T
<1>3. Nat \subseteq T
  BY <1>1, <1>2, Induction
<1> DEFINE n == Cardinality(D)
<1>4. n \in Nat /\ D \in Small(D, n)
  BY SmallSets
<1> HIDE DEF n
<1>5. AgreeOn(it, jt, Small(D, n))
  BY <1>3, <1>4 DEF T
<1> QED BY <1>4, <1>5 DEF AgreeOn

\* The sum of the first n values.
SumTo(f, n) == SumFunction([k \in 1..n |-> f[k]])

LEMMA SumToIs ==
  ASSUME NEW n \in Nat, NEW f
  PROVE  \E it : SumsSome(it, f, SUBSET (1..n)) /\ SumTo(f, n) = it[1..n]
<1> DEFINE D == 1..n
           g == [k \in D |-> f[k]]
<1>1. IsFiniteSet(D)
  BY FS_Interval
<1>2. DOMAIN g = D /\ \A k \in D : g[k] = f[k]
  OBVIOUS
<1>3. SumTo(f, n) = SumFunction(g)
  BY DEF SumTo
<1> HIDE DEF D, g
<1>4. PICK it : SumsSome(it, g, SUBSET D) /\ SumFunction(g) = it[D]
  BY <1>1, <1>2, SumHolds
<1>5. ASSUME NEW s \in SUBSET D PROVE Summed(it, f, s) = Summed(it, g, s)
  <2>1. s # {} => Pick(s) \in D
    BY PickIn
  <2> QED BY <1>2, <2>1 DEF Summed
<1>6. SumsSome(it, f, SUBSET D)
  BY <1>4, <1>5 DEF SumsSome
<1>7. SumsSome(it, f, SUBSET D) /\ SumTo(f, n) = it[D]
  BY <1>3, <1>4, <1>6
<1> QED BY <1>7 DEF D

LEMMA SumToNone ==
  ASSUME NEW f
  PROVE  SumTo(f, 0) = 0
<1> DEFINE D == 1..0
<1>1. D = {}
  OBVIOUS
<1>2. PICK it : SumsSome(it, f, SUBSET D) /\ SumTo(f, 0) = it[D]
  BY SumToIs
<1> HIDE DEF D
<1>3. it[D] = 0
  BY <1>1, <1>2 DEF SumsSome, Summed
<1> QED BY <1>2, <1>3

LEMMA SumToNat ==
  ASSUME NEW n \in Nat, NEW f, Into(f, 1..n, Nat)
  PROVE  SumTo(f, n) \in Nat
<1> DEFINE D == 1..n
           c == Cardinality(D)
<1>1. IsFiniteSet(D)
  BY FS_Interval
<1>2. PICK it : SumsSome(it, f, SUBSET D) /\ SumTo(f, n) = it[D]
  BY SumToIs
<1>3. c \in Nat /\ D \in Small(D, c)
  BY <1>1, SmallSets
<1>4. Into(f, D, Nat)
  OBVIOUS
<1> HIDE DEF D, c
<1>5. Into(it, Small(D, c), Nat)
  BY <1>1, <1>2, <1>3, <1>4, SumsNat
<1> QED BY <1>2, <1>3, <1>5 DEF Into

LEMMA SumToAgree ==
  ASSUME NEW n \in Nat, NEW f, NEW g, Agree(f, g, n)
  PROVE  SumTo(f, n) = SumTo(g, n)
<1>1. \A k \in 1..n : f[k] = g[k]
  BY DEF Agree
<1>2. [k \in 1..n |-> f[k]] = [k \in 1..n |-> g[k]]
  BY <1>1
<1> QED BY <1>2 DEF SumTo

LEMMA SumToNext ==
  ASSUME NEW n \in Nat, NEW f, Into(f, 1..(n + 1), Nat)
  PROVE  SumTo(f, n + 1) = SumTo(f, n) + f[n + 1]
<1> DEFINE m == n + 1
           C == 1..m
           D == 1..n
           c == Cardinality(C)
<1>0. m \in Nat /\ m \in C /\ C \ {m} = D /\ D \subseteq C
  OBVIOUS
<1>1. IsFiniteSet(C) /\ IsFiniteSet(D)
  BY FS_Interval
<1>2. PICK it : SumsSome(it, f, SUBSET D) /\ SumTo(f, n) = it[D]
  BY SumToIs
<1> HIDE DEF m
<1>3. PICK jt : SumsSome(jt, f, SUBSET C) /\ SumTo(f, m) = jt[C]
  BY <1>0, SumToIs
<1>4. c \in Nat /\ C \in Small(C, c) /\ Small(C, c) = SUBSET C
  <2> HIDE DEF C
  <2> QED BY <1>1, SmallSets
<1>5. Into(f, C, Nat)
  BY DEF m
<1> HIDE DEF C, D, c
<1>6. TakesOut(jt, f, Small(C, c))
  BY <1>1, <1>3, <1>4, <1>5, SumsTakeOut
<1>7. jt[C] = f[m] + jt[C \ {m}]
  BY <1>0, <1>4, <1>6 DEF TakesOut
<1>8. AgreeOn(f, f, D)
  BY DEF AgreeOn
<1>9. it[D] = jt[D]
  <2>1. D \subseteq C /\ IsFiniteSet(D) /\ SumsSome(it, f, SUBSET D) /\ SumsSome(jt, f, SUBSET C)
    BY <1>0, <1>1, <1>2, <1>3
  <2>2. AgreeOn(it, jt, {D})
    BY <1>8, <2>1, SumsAgree
  <2> QED BY <2>2 DEF AgreeOn
<1>10. Into(jt, Small(C, c), Nat)
  BY <1>1, <1>3, <1>4, <1>5, SumsNat
<1>11. jt[D] \in Nat /\ f[m] \in Nat
  BY <1>0, <1>4, <1>5, <1>10 DEF Into
<1>12. jt[C] = jt[D] + f[m]
  <2>1. jt[C] = f[m] + jt[D]
    BY <1>0, <1>7
  <2> QED BY <1>11, <2>1
<1>13. SumTo(f, m) = SumTo(f, n) + f[m]
  BY <1>2, <1>3, <1>9, <1>12
<1> QED BY <1>13 DEF m

-----------------------------------------------------------------------------
(* The last instruction of a kind *)

Before(ops, flat, j) == {m \in 1..(j - 1) : flat[m].op \in ops}

LEMMA MaxIs ==
  ASSUME NEW T, NEW x \in T, T \subseteq Nat, \A y \in T : y <= x
  PROVE  Max(T) = x
<1> DEFINE z == Max(T)
<1>1. z \in T /\ \A y \in T : z >= y
  <2>1. \A y \in T : x >= y
    OBVIOUS
  <2>2. z = CHOOSE u \in T : \A y \in T : u >= y
    BY DEF Max
  <2> HIDE DEF z
  <2> QED BY <2>1, <2>2
<1> HIDE DEF z
<1>2. z \in Nat /\ x \in Nat /\ z >= x /\ z <= x
  BY <1>1
<1>3. z = x
  BY <1>2
<1> QED BY <1>3 DEF z

LEMMA LastOfFirst ==
  ASSUME NEW ops, NEW flat
  PROVE  LastOf(ops, flat, 1) = 0
<1> DEFINE T == {0} \cup Before(ops, flat, 1)
<1>1. T = {0}
  BY DEF Before
<1> HIDE DEF T
<1>2. Max(T) = 0
  BY <1>1, MaxIs
<1> QED BY <1>2 DEF LastOf, Before, T

LEMMA LastOfIn ==
  ASSUME NEW ops, NEW flat, NEW j \in Nat, j # 0
  PROVE  /\ LastOf(ops, flat, j) \in {0} \cup Before(ops, flat, j)
         /\ \A m \in Before(ops, flat, j) : m <= LastOf(ops, flat, j)
<1> DEFINE T == {0} \cup Before(ops, flat, j)
           U == {m \in Nat : \E x \in T : x = j - m}
<1>1. T \subseteq 0..(j - 1) /\ 0 \in T
  BY DEF Before
<1>2. LastOf(ops, flat, j) = Max(T)
  BY DEF LastOf, Before
<1>3. \A y \in Before(ops, flat, j) : y \in T
  OBVIOUS
<1>4. U \subseteq Nat /\ U # {}
  <2>1. j \in U
    BY <1>1
  <2> HIDE DEF T
  <2> QED BY <2>1
<1>5. \A x \in T : j - x \in U
  <2> SUFFICES ASSUME NEW x \in T PROVE j - x \in U
    OBVIOUS
  <2>1. x \in 0..(j - 1)
    BY <1>1
  <2> HIDE DEF T
  <2>2. j - x \in Nat /\ x = j - (j - x)
    BY <2>1
  <2> DEFINE y == j - x
  <2> HIDE DEF y
  <2>3. y \in Nat /\ \E z \in T : z = j - y
    BY <2>2 DEF y
  <2>4. y \in U
    BY <2>3
  <2> QED BY <2>4 DEF y
<1> HIDE DEF T, U
<1>6. PICK u \in U : \A y \in U : u <= y
  BY <1>4, Least
<1>7. PICK x \in T : x = j - u
  BY <1>6 DEF U
<1>8. u \in Nat
  BY <1>4, <1>6
<1>9. ASSUME NEW y \in T PROVE y <= x
  <2>1. u <= j - y
    BY <1>5, <1>6
  <2>2. y \in Nat /\ x \in Nat
    BY <1>1
  <2> QED BY <1>7, <1>8, <2>1, <2>2
<1>10. T \subseteq Nat
  BY <1>1
<1>11. Max(T) = x
  BY <1>9, <1>10, MaxIs
<1> QED BY <1>2, <1>3, <1>9, <1>11 DEF T

LEMMA LastOfNext ==
  ASSUME NEW ops, NEW flat, NEW j \in Nat, j # 0
  PROVE  LastOf(ops, flat, j + 1) = IF flat[j].op \in ops THEN j ELSE LastOf(ops, flat, j)
<1> DEFINE B == Before(ops, flat, j)
           C == Before(ops, flat, j + 1)
           T == {0} \cup C
           m == LastOf(ops, flat, j)
<1>1. C = {n \in 1..j : flat[n].op \in ops}
  BY DEF Before
<1>2. B = {n \in 1..(j - 1) : flat[n].op \in ops}
  BY DEF Before
<1>3. LastOf(ops, flat, j + 1) = Max(T)
  BY DEF LastOf, Before
<1>4. m \in {0} \cup B /\ \A n \in B : n <= m
  BY LastOfIn
<1> HIDE DEF B, C, m
<1>5. T \subseteq Nat
  BY <1>1
<1>6. CASE flat[j].op \in ops
  <2>1. j \in T /\ \A n \in T : n <= j
    BY <1>1, <1>6
  <2> HIDE DEF T
  <2>2. Max(T) = j
    BY <1>5, <2>1, MaxIs
  <2> QED BY <1>3, <1>6, <2>2
<1>7. CASE flat[j].op \notin ops
  <2>1. C = B
    <3>1. 1..j = 1..(j - 1) \cup {j}
      OBVIOUS
    <3> QED BY <1>1, <1>2, <1>7, <3>1
  <2>2. m \in Nat
    BY <1>2, <1>4
  <2>3. m \in T /\ \A n \in T : n <= m
    BY <1>4, <2>1, <2>2
  <2> HIDE DEF T
  <2>4. Max(T) = m
    BY <1>5, <2>3, MaxIs
  <2> QED BY <1>3, <1>7, <2>4 DEF m
<1> QED BY <1>6, <1>7

-----------------------------------------------------------------------------
(* Sums since then *)

\* The sum of the n values that follow the m-th.
SumFrom(v, m, n) == SumFunction([l \in 1..n |-> v[m + l]])

LEMMA SumFromNone ==
  ASSUME NEW v, NEW m
  PROVE  SumFrom(v, m, 0) = 0
<1> DEFINE f == [l \in 1..0 |-> v[m + l]]
           g == [k \in 1..0 |-> f[k]]
<1>1. f = g
  OBVIOUS
<1>2. SumFrom(v, m, 0) = SumFunction(f)
  BY DEF SumFrom
<1>3. SumTo(f, 0) = SumFunction(g)
  BY DEF SumTo
<1> HIDE DEF f, g
<1> QED BY <1>1, <1>2, <1>3, SumToNone

LEMMA SumFromIs ==
  ASSUME NEW v, NEW m \in Nat, NEW n \in Nat, NEW q \in Nat, n <= q
  PROVE  SumFrom(v, m, n) = SumTo([l \in 1..q |-> v[m + l]], n)
<1> DEFINE f == [l \in 1..q |-> v[m + l]]
           g == [k \in 1..n |-> f[k]]
           h == [l \in 1..n |-> v[m + l]]
<1>1. \A k \in 1..n : f[k] = v[m + k]
  OBVIOUS
<1> HIDE DEF f
<1>2. g = h
  BY <1>1
<1>3. SumFrom(v, m, n) = SumFunction(h)
  BY DEF SumFrom
<1>4. SumTo(f, n) = SumFunction(g)
  BY DEF SumTo
<1> HIDE DEF g, h
<1>5. SumFrom(v, m, n) = SumTo(f, n)
  BY <1>2, <1>3, <1>4
<1> QED BY <1>5 DEF f

LEMMA SumFromNext ==
  ASSUME NEW m \in Nat, NEW n \in Nat, NEW v, Into(v, 1..(m + (n + 1)), Nat)
  PROVE  /\ SumFrom(v, m, n + 1) = SumFrom(v, m, n) + v[m + (n + 1)]
         /\ SumFrom(v, m, n) \in Nat
<1> DEFINE q == n + 1
           f == [l \in 1..q |-> v[m + l]]
<1>0. q \in Nat /\ q \in 1..q /\ n <= q /\ q <= q /\ q = n + 1
  OBVIOUS
<1>1. Into(v, 1..(m + q), Nat)
  OBVIOUS
<1> HIDE DEF q
<1>2. \A l \in 1..q : m + l \in 1..(m + q)
  BY <1>0
<1>3. \A l \in 1..q : f[l] = v[m + l] /\ v[m + l] \in Nat
  BY <1>1, <1>2 DEF Into
<1>4. SumFrom(v, m, n) = SumTo(f, n) /\ SumFrom(v, m, q) = SumTo(f, q)
  <2>1. n \in Nat /\ q \in Nat /\ n <= q /\ q <= q
    BY <1>0
  <2>2. SumFrom(v, m, n) = SumTo([l \in 1..q |-> v[m + l]], n)
    BY <2>1, SumFromIs
  <2>3. SumFrom(v, m, q) = SumTo([l \in 1..q |-> v[m + l]], q)
    BY <2>1, SumFromIs
  <2> QED BY <2>2, <2>3
<1>5. Into(f, 1..q, Nat)
  <2> HIDE DEF f
  <2> QED BY <1>3 DEF Into
<1> HIDE DEF f
<1>6. SumTo(f, n + 1) = SumTo(f, n) + f[n + 1]
  <2>1. Into(f, 1..(n + 1), Nat)
    BY <1>5 DEF q
  <2> QED BY <2>1, SumToNext
<1>7. Into(f, 1..n, Nat)
  BY <1>0, <1>5 DEF Into
<1>8. SumTo(f, n) \in Nat
  BY <1>7, SumToNat
<1>9. SumFrom(v, m, q) = SumFrom(v, m, n) + v[m + q]
  BY <1>0, <1>3, <1>4, <1>6
<1> QED BY <1>4, <1>8, <1>9 DEF q

-----------------------------------------------------------------------------
(* Positions and imports, from one instruction to the next *)

\* A value that some instructions set, and the others count on from.
Since(ops, b, v, flat, j) == b[LastOf(ops, flat, j)] + SumFrom(v, LastOf(ops, flat, j), j - LastOf(ops, flat, j) - 1)

LEMMA SinceFirst ==
  ASSUME NEW ops, NEW b, NEW v, NEW flat, b[0] \in Nat
  PROVE  Since(ops, b, v, flat, 1) = b[0]
<1>1. LastOf(ops, flat, 1) = 0
  BY LastOfFirst
<1>2. SumFrom(v, 0, 0) = 0
  BY SumFromNone
<1>3. 1 - 0 - 1 = 0
  OBVIOUS
<1>4. Since(ops, b, v, flat, 1) = b[0] + SumFrom(v, 0, 1 - 0 - 1)
  BY <1>1 DEF Since
<1> QED BY <1>2, <1>3, <1>4

Continues(ops, b, v, flat, j) ==
  /\ Since(ops, b, v, flat, j) \in Nat
  /\ Since(ops, b, v, flat, j + 1)
       = IF flat[j].op \in ops THEN b[j] ELSE Since(ops, b, v, flat, j) + v[j]

LEMMA SinceNext ==
  ASSUME NEW ops, NEW b, NEW v, NEW flat, NEW j \in Nat, j # 0,
         b[0] \in Nat, Into(b, Before(ops, flat, j + 1), Nat), Into(v, 1..j, Nat)
  PROVE  Continues(ops, b, v, flat, j)
<1> DEFINE m == LastOf(ops, flat, j)
           n == j - m - 1
<1>1. m \in {0} \cup Before(ops, flat, j)
  BY LastOfIn
<1>2. m \in 0..(j - 1)
  BY <1>1 DEF Before
<1>3. b[m] \in Nat
  <2>1. CASE m = 0
    BY <2>1
  <2>2. CASE m \in Before(ops, flat, j)
    <3>1. m \in Before(ops, flat, j + 1)
      BY <2>2 DEF Before
    <3> HIDE DEF m
    <3> QED BY <3>1 DEF Into
  <2> QED BY <1>1, <2>1, <2>2
<1>4. LastOf(ops, flat, j + 1) = IF flat[j].op \in ops THEN j ELSE m
  BY LastOfNext
<1>5. Since(ops, b, v, flat, j) = b[m] + SumFrom(v, m, n)
  BY DEF Since
<1>6. Since(ops, b, v, flat, j + 1)
        = b[LastOf(ops, flat, j + 1)]
            + SumFrom(v, LastOf(ops, flat, j + 1), (j + 1) - LastOf(ops, flat, j + 1) - 1)
  BY DEF Since
<1> HIDE DEF m
<1>7. n \in Nat /\ m \in Nat /\ m + (n + 1) = j /\ (j + 1) - m - 1 = n + 1 /\ (j + 1) - j - 1 = 0
  BY <1>2
<1> HIDE DEF n
<1>8. Into(v, 1..(m + (n + 1)), Nat)
  BY <1>7
<1>9. SumFrom(v, m, n + 1) = SumFrom(v, m, n) + v[m + (n + 1)] /\ SumFrom(v, m, n) \in Nat
  BY <1>7, <1>8, SumFromNext
<1>10. SumFrom(v, m, n + 1) = SumFrom(v, m, n) + v[j]
  BY <1>7, <1>9
<1>11. v[j] \in Nat
  BY DEF Into
<1>12. CASE flat[j].op \in ops
  <2>1. j \in Before(ops, flat, j + 1)
    BY <1>12 DEF Before
  <2>2. b[j] \in Nat
    BY <2>1 DEF Into
  <2>3. Since(ops, b, v, flat, j + 1) = b[j] + SumFrom(v, j, 0)
    BY <1>4, <1>6, <1>7, <1>12
  <2>4. SumFrom(v, j, 0) = 0
    BY SumFromNone
  <2>5. Since(ops, b, v, flat, j + 1) = b[j]
    BY <2>2, <2>3, <2>4
  <2>6. Since(ops, b, v, flat, j) \in Nat
    BY <1>3, <1>5, <1>9
  <2> QED BY <1>12, <2>5, <2>6 DEF Continues
<1>13. CASE flat[j].op \notin ops
  <2>1. Since(ops, b, v, flat, j + 1) = b[m] + SumFrom(v, m, n + 1)
    BY <1>4, <1>6, <1>7, <1>13
  <2> DEFINE x == b[m]
             y == SumFrom(v, m, n)
             z == v[j]
  <2>2. x \in Nat /\ y \in Nat /\ z \in Nat
    BY <1>3, <1>9, <1>11
  <2>3. Since(ops, b, v, flat, j + 1) = x + (y + z) /\ Since(ops, b, v, flat, j) = x + y
    BY <1>5, <1>10, <2>1
  <2> HIDE DEF x, y, z
  <2>4. x + (y + z) = (x + y) + z /\ x + y \in Nat
    BY <2>2
  <2>5. Since(ops, b, v, flat, j + 1) = Since(ops, b, v, flat, j) + z
    BY <2>3, <2>4
  <2>6. Since(ops, b, v, flat, j) \in Nat
    BY <2>3, <2>4
  <2> QED BY <1>13, <2>5, <2>6 DEF z, Continues
<1> QED BY <1>12, <1>13

-----------------------------------------------------------------------------
\* What a well-formed program has of instructions.
Kinds == {"C", "D", "skip", "import", "section"}
Instruction(i) ==
  /\ i.op = "Relocator" => i.data \in Nat
  /\ i.op = "SetPosition" => i.to \in Nat
  /\ i.op = "Import" => i.index \in Nat
  /\ i.op \in {"Section", "SetSectC", "SetSectD"} => i.index \in SectionIndex
  /\ Words(i) \in Seq(Kinds)
  /\ \A k \in 1..Len(Words(i)) : Words(i)[k] = "section" => i.op = "Section"
Instructions(flat) == \A j \in 1..Len(flat) : Instruction(flat[j])

\* Counts make words.
Counted(i) ==
  /\ i.op \in DOMAIN Run => i.count \in Nat
  /\ i.op = "BySectDWithSkip" => i.skip \in Nat /\ i.count \in Nat

Unsectioned == Kinds \ {"section"}

LEMMA RunType ==
  ASSUME NEW op \in DOMAIN Run
  PROVE  Run[op] \in Seq(Unsectioned)
<1>1. "C" \in Unsectioned /\ "D" \in Unsectioned /\ "skip" \in Unsectioned /\ "import" \in Unsectioned
  BY DEF Unsectioned, Kinds
<1> DEFINE U == Unsectioned
           c == "C"
           d == "D"
           s == "skip"
           m == "import"
<1>2. c \in U /\ d \in U /\ s \in U /\ m \in U
  BY <1>1
<1>3. op \in {"BySectC", "BySectD", "TVector12", "TVector8", "VTable8", "ImportRun", "IncrementPosition"}
  BY DEF Run
<1>4. Run[op] \in {<<c>>, <<d>>, <<c, d, s>>, <<c, d>>, <<d, s>>, <<m>>, <<s>>}
  BY <1>3 DEF Run
<1> HIDE DEF U, c, d, s, m
<1>5. {<<c>>, <<d>>, <<c, d, s>>, <<c, d>>, <<d, s>>, <<m>>, <<s>>} \subseteq Seq(U)
  BY <1>2
<1> QED BY <1>4, <1>5 DEF U

LEMMA WordsType ==
  ASSUME NEW i, Counted(i)
  PROVE  /\ Words(i) \in Seq(Kinds)
         /\ \A k \in 1..Len(Words(i)) : Words(i)[k] = "section" => i.op = "Section"
<1>0. Unsectioned \subseteq Kinds /\ "section" \notin Unsectioned
  BY DEF Unsectioned
<1>1. ASSUME Words(i) \in Seq(Unsectioned)
      PROVE  /\ Words(i) \in Seq(Kinds)
             /\ \A k \in 1..Len(Words(i)) : Words(i)[k] = "section" => i.op = "Section"
  <2> DEFINE w == Words(i)
  <2> HIDE DEF w
  <2>1. w \in Seq(Unsectioned)
    BY <1>1 DEF w
  <2>2. \A k \in 1..Len(w) : w[k] \in Unsectioned
    BY <2>1
  <2>3. w \in Seq(Kinds)
    BY <1>0, <2>1, <2>2
  <2>4. \A k \in 1..Len(w) : w[k] # "section"
    BY <1>0, <2>2
  <2> QED BY <2>3, <2>4 DEF w
<1>2. CASE i.op \in DOMAIN Run
  <2>0. i.op # "BySectDWithSkip" /\ i.op # "Import" /\ i.op # "Section"
    BY <1>2 DEF Run
  <2>1. Words(i) = Times(i.count, Run[i.op])
    BY <1>2, <2>0 DEF Words
  <2> DEFINE r == Run[i.op]
             n == i.count
  <2>2. r \in Seq(Unsectioned) /\ n \in Nat
    BY <1>2, RunType DEF Counted
  <2> HIDE DEF r, n
  <2>3. Times(n, r) \in Seq(Unsectioned)
    BY <2>2, TimesOf
  <2> QED BY <1>1, <2>1, <2>3 DEF r, n
<1>3. CASE i.op = "BySectDWithSkip"
  <2>1. i.op \notin DOMAIN Run
    BY <1>3 DEF Run
  <2> DEFINE a == <<"skip">>
             b == <<"D">>
             m == i.skip
             n == i.count
  <2>2. Words(i) = Times(m, a) \o Times(n, b)
    BY <1>3, <2>1 DEF Words
  <2>3. a \in Seq(Unsectioned) /\ b \in Seq(Unsectioned)
    <3>1. "D" \in Unsectioned /\ "skip" \in Unsectioned
      BY DEF Unsectioned, Kinds
    <3> DEFINE x == "skip"
               y == "D"
    <3>2. x \in Unsectioned /\ y \in Unsectioned
      BY <3>1
    <3> HIDE DEF x, y
    <3>3. <<x>> \in Seq(Unsectioned) /\ <<y>> \in Seq(Unsectioned)
      BY <3>2
    <3> QED BY <3>3 DEF x, y
  <2>4. m \in Nat /\ n \in Nat
    BY <1>3 DEF Counted
  <2> HIDE DEF a, b, m, n
  <2> DEFINE p == Times(m, a)
             q == Times(n, b)
  <2>5. p \in Seq(Unsectioned) /\ q \in Seq(Unsectioned)
    BY <2>3, <2>4, TimesOf
  <2> HIDE DEF p, q
  <2>6. p \o q \in Seq(Unsectioned)
    BY <2>5
  <2> QED BY <1>1, <2>2, <2>6 DEF p, q
<1>4. CASE i.op = "Import"
  <2>1. i.op \notin DOMAIN Run /\ i.op # "BySectDWithSkip"
    BY <1>4 DEF Run
  <2> DEFINE x == "import"
  <2>2. Words(i) = <<x>>
    BY <1>4, <2>1 DEF Words
  <2>3. x \in Unsectioned
    BY DEF Unsectioned, Kinds
  <2> HIDE DEF x
  <2>4. <<x>> \in Seq(Unsectioned)
    BY <2>3
  <2> QED BY <1>1, <2>2, <2>4
<1>5. CASE i.op = "Section"
  <2>1. i.op \notin DOMAIN Run
    BY <1>5 DEF Run
  <2> DEFINE x == "section"
  <2>2. Words(i) = <<x>>
    BY <1>5, <2>1 DEF Words
  <2>3. x \in Kinds
    BY DEF Kinds
  <2> HIDE DEF x
  <2>4. <<x>> \in Seq(Kinds)
    BY <2>3
  <2> QED BY <1>5, <2>2, <2>4
<1>6. CASE i.op \notin DOMAIN Run /\ i.op # "BySectDWithSkip" /\ i.op # "Import" /\ i.op # "Section"
  <2>1. Words(i) = <<>>
    BY <1>6 DEF Words
  <2>2. <<>> \in Seq(Unsectioned)
    OBVIOUS
  <2> QED BY <1>1, <2>1, <2>2
<1> QED BY <1>2, <1>3, <1>4, <1>5, <1>6

LEMMA ImportsNat ==
  ASSUME NEW i, Instruction(i)
  PROVE  Imports(i) \in Nat
<1> DEFINE w == Words(i)
           T == {k \in DOMAIN w : w[k] = "import"}
<1>1. w \in Seq(Kinds)
  BY DEF Instruction
<1> HIDE DEF w
<1>2. DOMAIN w = 1..Len(w) /\ Len(w) \in Nat
  BY <1>1
<1>3. IsFiniteSet(1..Len(w))
  BY <1>2, FS_Interval
<1>4. T \in SUBSET (1..Len(w))
  BY <1>2
<1> HIDE DEF T
<1>5. IsFiniteSet(T)
  BY <1>3, <1>4, FS_Subset
<1>6. Cardinality(T) \in Nat
  BY <1>5, FS_CardinalityType
<1> QED BY <1>6 DEF Imports, T, w

LEMMA ImportsOne ==
  ASSUME NEW i, i.op = "Import"
  PROVE  Imports(i) = 1
<1>1. i.op \notin DOMAIN Run /\ i.op # "BySectDWithSkip"
  BY DEF Run
<1>2. Words(i) = <<"import">>
  BY <1>1 DEF Words
<1> DEFINE w == <<"import">>
           T == {k \in DOMAIN w : w[k] = "import"}
<1>3. T = {1}
  OBVIOUS
<1>4. Cardinality({1}) = 1
  BY FS_Singleton
<1>5. Imports(i) = Cardinality(T)
  BY <1>2 DEF Imports
<1> HIDE DEF T
<1> QED BY <1>3, <1>4, <1>5

LengthOf(flat) == [l \in 1..Len(flat) |-> Len(Words(flat[l]))]
ImportsOf(flat) == [l \in 1..Len(flat) |-> Imports(flat[l])]
PositionOf(flat) == [m \in Nat |-> IF m = 0 \/ flat[m].op = "Relocator" THEN 0 ELSE flat[m].to]
IndexOf(flat) == [m \in Nat |-> IF m = 0 \/ flat[m].op = "Relocator" THEN 0 ELSE flat[m].index + 1]

LEMMA StartIs ==
  ASSUME NEW S, NEW flat \in Seq(S), NEW j \in 1..(Len(flat) + 1)
  PROVE  Start(flat, j) = Since({"SetPosition", "Relocator"}, PositionOf(flat), LengthOf(flat), flat, j)
<1> DEFINE ops == {"SetPosition", "Relocator"}
           m == LastOf(ops, flat, j)
           n == j - m - 1
           v == LengthOf(flat)
           b == PositionOf(flat)
           f == [l \in 1..n |-> Len(Words(flat[m + l]))]
           g == [l \in 1..n |-> v[m + l]]
<1>0. Len(flat) \in Nat /\ j \in Nat /\ j # 0
  OBVIOUS
<1>1. Start(flat, j) = (IF m = 0 \/ flat[m].op = "Relocator" THEN 0 ELSE flat[m].to) + SumFunction(f)
  BY DEF Start
<1>2. Since(ops, b, v, flat, j) = b[m] + SumFrom(v, m, n)
  BY DEF Since
<1>3. SumFrom(v, m, n) = SumFunction(g)
  BY DEF SumFrom
<1>4. m \in 0..(j - 1)
  <2>1. m \in {0} \cup Before(ops, flat, j)
    <3> HIDE DEF ops
    <3> QED BY <1>0, LastOfIn
  <2> QED BY <2>1 DEF Before
<1> HIDE DEF ops, m
<1>5. \A l \in 1..n : m + l \in 1..Len(flat)
  BY <1>0, <1>4
<1>6. \A k \in 1..Len(flat) : v[k] = Len(Words(flat[k]))
  BY DEF LengthOf
<1> HIDE DEF v, n
<1>7. f = g
  BY <1>5, <1>6
<1>8. b[m] = IF m = 0 \/ flat[m].op = "Relocator" THEN 0 ELSE flat[m].to
  BY <1>0, <1>4 DEF PositionOf
<1> HIDE DEF f, g, b
<1>9. Start(flat, j) = Since(ops, b, v, flat, j)
  BY <1>1, <1>2, <1>3, <1>7, <1>8
<1> QED BY <1>9 DEF ops, b, v

LEMMA ImportAtIs ==
  ASSUME NEW S, NEW flat \in Seq(S), NEW j \in 1..(Len(flat) + 1)
  PROVE  ImportAt(flat, j) = Since({"Import", "Relocator"}, IndexOf(flat), ImportsOf(flat), flat, j)
<1> DEFINE ops == {"Import", "Relocator"}
           m == LastOf(ops, flat, j)
           n == j - m - 1
           v == ImportsOf(flat)
           b == IndexOf(flat)
           f == [l \in 1..n |-> Imports(flat[m + l])]
           g == [l \in 1..n |-> v[m + l]]
<1>0. Len(flat) \in Nat /\ j \in Nat /\ j # 0
  OBVIOUS
<1>1. ImportAt(flat, j) = (IF m = 0 \/ flat[m].op = "Relocator" THEN 0 ELSE flat[m].index + 1) + SumFunction(f)
  BY DEF ImportAt
<1>2. Since(ops, b, v, flat, j) = b[m] + SumFrom(v, m, n)
  BY DEF Since
<1>3. SumFrom(v, m, n) = SumFunction(g)
  BY DEF SumFrom
<1>4. m \in 0..(j - 1)
  <2>1. m \in {0} \cup Before(ops, flat, j)
    <3> HIDE DEF ops
    <3> QED BY <1>0, LastOfIn
  <2> QED BY <2>1 DEF Before
<1> HIDE DEF ops, m
<1>5. \A l \in 1..n : m + l \in 1..Len(flat)
  BY <1>0, <1>4
<1>6. \A k \in 1..Len(flat) : v[k] = Imports(flat[k])
  BY DEF ImportsOf
<1> HIDE DEF v, n
<1>7. f = g
  BY <1>5, <1>6
<1>8. b[m] = IF m = 0 \/ flat[m].op = "Relocator" THEN 0 ELSE flat[m].index + 1
  BY <1>0, <1>4 DEF IndexOf
<1> HIDE DEF f, g, b
<1>9. ImportAt(flat, j) = Since(ops, b, v, flat, j)
  BY <1>1, <1>2, <1>3, <1>7, <1>8
<1> QED BY <1>9 DEF ops, b, v

\* What an instruction does to relocAddress, and to importIndex.
Advanced(i, p) == IF i.op = "SetPosition" THEN i.to ELSE IF i.op = "Relocator" THEN 0 ELSE p + Len(Words(i))
Counting(i, n) == IF i.op = "Import" THEN i.index + 1 ELSE IF i.op = "Relocator" THEN 0 ELSE n + Imports(i)

LEMMA Starts ==
  ASSUME NEW S, NEW flat \in Seq(S), Instructions(flat)
  PROVE  /\ Start(flat, 1) = 0
         /\ \A j \in 1..Len(flat) :
              /\ Start(flat, j) \in Nat
              /\ Start(flat, j + 1) = Advanced(flat[j], Start(flat, j))
<1> DEFINE ops == {"SetPosition", "Relocator"}
           b == PositionOf(flat)
           v == LengthOf(flat)
<1>0. Len(flat) \in Nat /\ 1 \in 1..(Len(flat) + 1)
  OBVIOUS
<1>1. \A j \in 1..(Len(flat) + 1) : Start(flat, j) = Since(ops, b, v, flat, j)
  BY StartIs
<1>2. b[0] = 0
  BY DEF PositionOf
<1>3. ASSUME NEW j \in 1..Len(flat) PROVE v[j] = Len(Words(flat[j])) /\ v[j] \in Nat
  <2>1. Words(flat[j]) \in Seq(Kinds)
    BY DEF Instructions, Instruction
  <2>2. Len(Words(flat[j])) \in Nat
    BY <2>1
  <2> QED BY <2>2 DEF LengthOf
<1>4. ASSUME NEW j \in 1..Len(flat) PROVE Into(b, Before(ops, flat, j + 1), Nat)
  <2>1. ASSUME NEW m \in Before(ops, flat, j + 1) PROVE b[m] \in Nat
    <3>1. m \in 1..Len(flat) /\ flat[m].op \in ops
      BY <1>0 DEF Before
    <3>2. Instruction(flat[m])
      BY <3>1 DEF Instructions
    <3>3. flat[m].op = "Relocator" \/ flat[m].to \in Nat
      BY <3>1, <3>2 DEF Instruction
    <3> QED BY <3>1, <3>3 DEF PositionOf
  <2> QED BY <2>1 DEF Into
<1>5. ASSUME NEW j \in 1..Len(flat) PROVE b[j] = IF flat[j].op = "Relocator" THEN 0 ELSE flat[j].to
  BY DEF PositionOf
<1>6. \A j \in 1..Len(flat) : flat[j].op \in ops <=> flat[j].op = "SetPosition" \/ flat[j].op = "Relocator"
  OBVIOUS
<1> HIDE DEF ops, b, v
<1>7. Start(flat, 1) = 0
  BY <1>0, <1>1, <1>2, SinceFirst
<1>8. ASSUME NEW j \in 1..Len(flat)
      PROVE  /\ Start(flat, j) \in Nat
             /\ Start(flat, j + 1) = Advanced(flat[j], Start(flat, j))
  <2>1. j \in Nat /\ j # 0 /\ j \in 1..(Len(flat) + 1) /\ j + 1 \in 1..(Len(flat) + 1)
    BY <1>0
  <2>2. Into(v, 1..j, Nat)
    <3>1. \A k \in 1..j : k \in 1..Len(flat)
      BY <1>0
    <3> QED BY <1>3, <3>1 DEF Into
  <2>3. b[0] \in Nat /\ Into(b, Before(ops, flat, j + 1), Nat)
    BY <1>2, <1>4
  <2>4. Continues(ops, b, v, flat, j)
    BY <2>1, <2>2, <2>3, SinceNext
  <2> QED BY <1>1, <1>3, <1>5, <1>6, <2>1, <2>4 DEF Continues, Advanced
<1> QED BY <1>7, <1>8

LEMMA ImportIndices ==
  ASSUME NEW S, NEW flat \in Seq(S), Instructions(flat)
  PROVE  /\ ImportAt(flat, 1) = 0
         /\ \A j \in 1..Len(flat) :
              /\ ImportAt(flat, j) \in Nat
              /\ ImportAt(flat, j + 1) = Counting(flat[j], ImportAt(flat, j))
<1> DEFINE ops == {"Import", "Relocator"}
           b == IndexOf(flat)
           v == ImportsOf(flat)
<1>0. Len(flat) \in Nat /\ 1 \in 1..(Len(flat) + 1)
  OBVIOUS
<1>1. \A j \in 1..(Len(flat) + 1) : ImportAt(flat, j) = Since(ops, b, v, flat, j)
  BY ImportAtIs
<1>2. b[0] = 0
  BY DEF IndexOf
<1>3. ASSUME NEW j \in 1..Len(flat) PROVE v[j] = Imports(flat[j]) /\ v[j] \in Nat
  <2>1. Instruction(flat[j])
    BY DEF Instructions
  <2>2. Imports(flat[j]) \in Nat
    BY <2>1, ImportsNat
  <2> QED BY <2>2 DEF ImportsOf
<1>4. ASSUME NEW j \in 1..Len(flat) PROVE Into(b, Before(ops, flat, j + 1), Nat)
  <2>1. ASSUME NEW m \in Before(ops, flat, j + 1) PROVE b[m] \in Nat
    <3>1. m \in 1..Len(flat) /\ flat[m].op \in ops
      BY <1>0 DEF Before
    <3>2. Instruction(flat[m])
      BY <3>1 DEF Instructions
    <3>3. flat[m].op = "Relocator" \/ flat[m].index \in Nat
      BY <3>1, <3>2 DEF Instruction
    <3> QED BY <3>1, <3>3 DEF IndexOf
  <2> QED BY <2>1 DEF Into
<1>5. ASSUME NEW j \in 1..Len(flat) PROVE b[j] = IF flat[j].op = "Relocator" THEN 0 ELSE flat[j].index + 1
  BY DEF IndexOf
<1>6. \A j \in 1..Len(flat) : flat[j].op \in ops <=> flat[j].op = "Import" \/ flat[j].op = "Relocator"
  OBVIOUS
<1> HIDE DEF ops, b, v
<1>7. ImportAt(flat, 1) = 0
  BY <1>0, <1>1, <1>2, SinceFirst
<1>8. ASSUME NEW j \in 1..Len(flat)
      PROVE  /\ ImportAt(flat, j) \in Nat
             /\ ImportAt(flat, j + 1) = Counting(flat[j], ImportAt(flat, j))
  <2>1. j \in Nat /\ j # 0 /\ j \in 1..(Len(flat) + 1) /\ j + 1 \in 1..(Len(flat) + 1)
    BY <1>0
  <2>2. Into(v, 1..j, Nat)
    <3>1. \A k \in 1..j : k \in 1..Len(flat)
      BY <1>0
    <3> QED BY <1>3, <3>1 DEF Into
  <2>3. b[0] \in Nat /\ Into(b, Before(ops, flat, j + 1), Nat)
    BY <1>2, <1>4
  <2>4. Continues(ops, b, v, flat, j)
    BY <2>1, <2>2, <2>3, SinceNext
  <2> QED BY <1>1, <1>3, <1>5, <1>6, <2>1, <2>4 DEF Continues, Counting
<1> QED BY <1>7, <1>8

-----------------------------------------------------------------------------
(* The invariant *)

\* A frame holds what is left of its file.
Frames(name, file) ==
  [name : {name}, pattern : Seq(ToSet(file.pattern)), imports : Seq(ToSet(file.imports)),
   program : Seq(1..Len(Program(file))), data : Nat, relocAddress : Nat, importIndex : Nat,
   sectionC : Nat, sectionD : Nat]
FramesOf(fs) == UNION {Frames(name, fs[name]) : name \in DOMAIN fs}

Word == 0..(WordSize - 1)

LoaderTypes ==
  /\ files \in World
  /\ resolvers \subseteq File
  /\ DOMAIN sections \subseteq File
  /\ \A name \in DOMAIN sections : sections[name] \in Seq(Word)
  /\ loading \in Seq(FramesOf(files))
  /\ thrown \in {"none", "library", "logic_error", "stack"}

\* Each container but the innermost waits for the one within it, and has had the libraries before that.
Nested ==
  \A k \in 2..Len(loading) : loading[k].imports # <<>> /\ loading[k - 1].name = Head(loading[k].imports)
Unloaded == \A k \in 1..Len(loading) : loading[k].name \notin resolvers
Awaited ==
  \A k \in 1..Len(loading) :
    ToSet(files[loading[k].name].imports) \subseteq resolvers \cup ToSet(loading[k].imports)

\* What the first j instructions of a program leave of the section, and of the machine.
FrameAt(name, flat, j) ==
  [name |-> name, importIndex |-> ImportAt(flat, j),
   sectionC |-> SectionAt(name, "SetSectC", 0, flat, j), sectionD |-> SectionAt(name, "SetSectD", 1, flat, j)]
Fix(name, file, flat, a, j) ==
  IF a - (Data(flat, j) + Start(flat, j)) \in DOMAIN Words(flat[j])
  THEN Addend(file.symbols, FrameAt(name, flat, j), flat[j], a - (Data(flat, j) + Start(flat, j))) ELSE 0
Fixes(name, file, flat, a) == [j \in 1..Len(flat) |-> Fix(name, file, flat, a, j)]
Original(file) == Unpacking(file.pattern)
Relocated(name, file, flat, j) ==
  [a \in 1..Len(Original(file)) |->
     (Original(file)[a] + SumTo(Fixes(name, file, flat, a), j)) % WordSize]

Reached(frame, section, file, flat, j) ==
  /\ Remains(Rest(Program(file), frame.program), flat, j)
  /\ frame.data = Data(flat, j + 1)
  /\ frame.relocAddress = Start(flat, j + 1)
  /\ frame.importIndex = ImportAt(flat, j + 1)
  /\ frame.sectionC = SectionAt(frame.name, "SetSectC", 0, flat, j + 1)
  /\ frame.sectionD = SectionAt(frame.name, "SetSectD", 1, flat, j + 1)
  /\ frame.pattern = <<>> => section = Relocated(frame.name, file, flat, j)
  /\ frame.pattern # <<>> => j = 0 /\ section \o Unpacking(frame.pattern) = Original(file)

Progress(frame, section, file) ==
  \E j \in 0..Len(Flat(Program(file))) : Reached(frame, section, file, Flat(Program(file)), j)

\* An outer container of the same name has lost its section.
Innermost(k) == \A l \in 1..(k - 1) : loading[l].name # loading[k].name
UnderWay ==
  thrown = "none" => \A k \in 1..Len(loading) : Innermost(k) =>
    /\ loading[k].name \in DOMAIN sections
    /\ Progress(loading[k], sections[loading[k].name], files[loading[k].name])

Complete ==
  \A name \in resolvers :
    /\ name \in DOMAIN sections
    /\ ToSet(files[name].imports) \subseteq resolvers
    /\ sections[name] = Relocated(name, files[name], Flat(Program(files[name])),
                                  Len(Flat(Program(files[name]))))

LoaderInv == LoaderTypes /\ Nested /\ Unloaded /\ Awaited /\ UnderWay /\ Complete

-----------------------------------------------------------------------------
(* Well-formed files *)

LEMMA WellFormedIs ==
  ASSUME NEW file, WellFormed(file)
  PROVE  /\ Program(file) \in Seq(ToSet(Program(file))) /\ Repeats(Program(file))
         /\ \A i \in ToSet(Program(file)) : Instruction(i)
         /\ Flat(Program(file)) \in Seq(ToSet(Program(file))) /\ Instructions(Flat(Program(file)))
         /\ file.pattern \in Seq(ToSet(file.pattern))
         /\ \A o \in ToSet(file.pattern) : Unpacked(o) \in Seq(Word)
         /\ file.imports \in Seq(Library)
<1> DEFINE program == Program(file)
           S == ToSet(program)
           flat == Flat(program)
<1>0. file.pattern \in Seq(ToSet(file.pattern)) /\ file.imports \in Seq(Library)
  BY DEF WellFormed, IsSequence
<1>1. program \in Seq(S) /\ file.pattern \in Seq(ToSet(file.pattern)) /\ file.imports \in Seq(Library)
  <2>1. file.program \in Seq(ToSet(file.program))
    BY DEF WellFormed, IsSequence
  <2>2. Len(file.program) \in Nat /\ DOMAIN file.program = 1..Len(file.program)
    BY <2>1
  <2> DEFINE n == Len(file.program)
             d(k) == Decoded(file.program[k])
  <2>3. program = [k \in 1..n |-> d(k)]
    BY <2>2 DEF Program
  <2>4. n \in Nat
    BY <2>2
  <2> HIDE DEF n, d, program
  <2>5. DOMAIN program = 1..n /\ \A k \in 1..n : program[k] \in S
    BY <2>3 DEF ToSet, S
  <2>6. program \in Seq(S)
    <3> HIDE DEF S
    <3>1. program = [k \in 1..n |-> program[k]]
      BY <2>3
    <3> QED BY <2>4, <2>5, <3>1
  <2> QED BY <1>0, <2>6
<1>2. Repeats(program)
  BY DEF WellFormed, Repeats
<1>3. \A k \in DOMAIN program : Instruction(program[k])
  <2> SUFFICES ASSUME NEW k \in DOMAIN program PROVE Instruction(program[k])
    OBVIOUS
  <2> DEFINE i == program[k]
  <2>1. /\ Counted(i)
        /\ i.op = "Relocator" => i.data \in Nat
        /\ i.op = "SetPosition" => i.to \in Nat
        /\ i.op = "Import" => i.index \in Nat
        /\ i.op \in {"Section", "SetSectC", "SetSectD"} => i.index \in SectionIndex
    BY DEF WellFormed, Counted
  <2> HIDE DEF i
  <2>2. Instruction(i)
    BY <2>1, WordsType DEF Instruction
  <2> QED BY <2>2 DEF i
<1>4. \A i \in S : Instruction(i)
  <2> HIDE DEF program
  <2> QED BY <1>3 DEF ToSet
<1>5. \A o \in ToSet(file.pattern) : Unpacked(o) \in Seq(Word)
  <2>1. \A k \in DOMAIN file.pattern : Unpacked(file.pattern[k]) \in Seq(Word)
    BY DEF WellFormed, Word
  <2> QED BY <2>1 DEF ToSet
<1> HIDE DEF program, S
<1>6. flat \in Seq(S)
  <2> DEFINE id == [k \in 1..Len(program) |-> k]
  <2>1. id \in Seq(1..Len(program))
    BY <1>1
  <2>2. flat = Rest(program, id)
    BY <1>1, RestAll
  <2> HIDE DEF id, flat
  <2> QED BY <1>1, <1>2, <2>1, <2>2, RestTypes
<1> HIDE DEF flat
<1>7. Instructions(flat)
  BY <1>4, <1>6 DEF Instructions
<1> QED BY <1>1, <1>2, <1>4, <1>5, <1>6, <1>7 DEF flat, S, program

LEMMA FileWellFormed ==
  ASSUME files \in World, NEW name \in File
  PROVE  WellFormed(files[name]) /\ name \in Library
BY WorldAssumption DEF File

LEMMA UnpackingType ==
  ASSUME NEW S, NEW pattern \in Seq(S), \A o \in S : Unpacked(o) \in Seq(Word)
  PROVE  /\ [k \in 1..Len(pattern) |-> Unpacked(pattern[k])] \in Seq(Seq(Word))
         /\ Unpacking(pattern) \in Seq(Word)
<1> DEFINE X == Seq(Word)
           t == [k \in 1..Len(pattern) |-> Unpacked(pattern[k])]
<1>1. Len(pattern) \in Nat /\ \A k \in 1..Len(pattern) : pattern[k] \in S
  OBVIOUS
<1>2. \A o \in S : Unpacked(o) \in X
  OBVIOUS
<1> HIDE DEF X
<1>3. t \in Seq(X)
  BY <1>1, <1>2
<1> HIDE DEF t
<1>4. FlattenSeq(t) \in Seq(Word)
  BY <1>3, FlattenType DEF X
<1> QED BY <1>3, <1>4 DEF Unpacking, t, X

LEMMA UnpackingFirst ==
  ASSUME NEW S, NEW pattern \in Seq(S), pattern # <<>>, \A o \in S : Unpacked(o) \in Seq(Word)
  PROVE  Unpacking(pattern) = Unpacked(Head(pattern)) \o Unpacking(Tail(pattern))
<1> DEFINE n == Len(pattern)
           h == Head(pattern)
           t == Tail(pattern)
           x == Unpacked(h)
           X == Seq(Word)
           s == [k \in 1..Len(t) |-> Unpacked(t[k])]
           r == [k \in 1..n |-> Unpacked(pattern[k])]
<1>1. n \in Nat \ {0} /\ h \in S /\ t \in Seq(S) /\ Len(t) = n - 1 /\ h = pattern[1]
      /\ \A k \in 1..(n - 1) : t[k] = pattern[k + 1]
  OBVIOUS
<1>2. s \in Seq(X)
  <2> HIDE DEF t
  <2> QED BY <1>1, UnpackingType
<1>3. x \in X
  BY <1>1
<1>4. Len(s) = n - 1 /\ \A k \in 1..(n - 1) : s[k] = Unpacked(pattern[k + 1])
  <2> HIDE DEF t, n
  <2> QED BY <1>1
<1>5. r \in Seq(X) /\ Len(r) = n
  BY UnpackingType
<1>6. \A k \in 1..n : r[k] = Unpacked(pattern[k])
  OBVIOUS
<1>7. x = Unpacked(pattern[1])
  BY <1>1
<1>8. Unpacking(t) = FlattenSeq(s) /\ Unpacking(pattern) = FlattenSeq(r)
  BY DEF Unpacking
<1> HIDE DEF n, h, t, x, X, s, r
<1> DEFINE u == <<x>>
           v == u \o s
<1>9. u \in Seq(X) /\ Len(u) = 1 /\ u[1] = x
  BY <1>3
<1> HIDE DEF u
<1>10. v \in Seq(X) /\ Len(v) = n
       /\ \A k \in 1..n : v[k] = IF k = 1 THEN u[1] ELSE s[k - 1]
  <2>1. u \o s \in Seq(X) /\ Len(u \o s) = Len(u) + Len(s)
        /\ \A k \in 1..(Len(u) + Len(s)) : (u \o s)[k] = IF k <= Len(u) THEN u[k] ELSE s[k - Len(u)]
    BY <1>2, <1>9, ConcatProperties
  <2>2. 1 + (n - 1) = n /\ n \in Nat
    BY <1>1
  <2>3. \A k \in 1..n : k <= 1 <=> k = 1
    OBVIOUS
  <2>4. v \in Seq(X) /\ Len(v) = n
    BY <1>4, <1>9, <2>1, <2>2
  <2>5. \A k \in 1..n : v[k] = IF k <= 1 THEN u[k] ELSE s[k - 1]
    BY <1>4, <1>9, <2>1, <2>2
  <2> HIDE DEF v
  <2> QED BY <2>3, <2>4, <2>5
<1> HIDE DEF v
<1>11. \A k \in 1..n : v[k] = r[k]
  <2> SUFFICES ASSUME NEW k \in 1..n PROVE v[k] = r[k]
    OBVIOUS
  <2>1. CASE k = 1
    BY <1>6, <1>7, <1>9, <1>10, <2>1
  <2>2. CASE k # 1
    <3>1. k - 1 \in 1..(n - 1) /\ (k - 1) + 1 = k
      BY <1>1, <2>2
    <3>2. s[k - 1] = Unpacked(pattern[k])
      BY <1>4, <3>1
    <3> QED BY <1>6, <1>10, <2>2, <3>2
  <2> QED BY <2>1, <2>2
<1>12. r = v
  BY <1>5, <1>10, <1>11
<1>13. FlattenSeq(<<x>> \o s) = x \o FlattenSeq(s)
  BY <1>2, <1>3, FlattenFirst DEF X
<1>14. FlattenSeq(r) = x \o FlattenSeq(s)
  BY <1>12, <1>13 DEF v, u
<1> QED BY <1>8, <1>14 DEF x, h, t

LEMMA UnpackingNone ==
  ASSUME NEW pattern, pattern = <<>>
  PROVE  Unpacking(pattern) = <<>>
<1> DEFINE t == [k \in 1..Len(pattern) |-> Unpacked(pattern[k])]
<1>1. Len(pattern) = 0
  OBVIOUS
<1>2. t = <<>>
  BY <1>1
<1>3. Unpacking(pattern) = FlattenSeq(t)
  BY DEF Unpacking
<1> HIDE DEF t
<1> QED BY <1>2, <1>3, FlattenEmpty

-----------------------------------------------------------------------------
(* What a container stands for, instruction by instruction *)

LEMMA LinkedIs ==
  ASSUME files \in World, NEW name \in File, Program(files[name]) = Meaning(files[name])
  PROVE  Linked(name) = Relocated(name, files[name], Flat(Program(files[name])),
                                   Len(Flat(Program(files[name]))))
<1> DEFINE file == files[name]
           flat == Flat(Program(file))
           n == Len(flat)
           u == Original(file)
           frame(j) == [name |-> name, importIndex |-> ImportAt(flat, j),
                        sectionC |-> SectionAt(name, "SetSectC", 0, flat, j),
                        sectionD |-> SectionAt(name, "SetSectD", 1, flat, j)]
           fixes(a) == SumFunction([j \in DOMAIN flat |->
                            LET k == a - (Data(flat, j) + Start(flat, j))
                            IN IF k \in DOMAIN Words(flat[j]) THEN Addend(file.symbols, frame(j), flat[j], k) ELSE 0])
<1>1. WellFormed(file)
  BY FileWellFormed
<1>2. flat \in Seq(ToSet(Program(file)))
  BY <1>1, WellFormedIs
<1>3. DOMAIN flat = 1..n
  <2> HIDE DEF flat
  <2> QED BY <1>2
<1>4. u \in Seq(Word)
  <2> DEFINE S == ToSet(file.pattern)
             p == file.pattern
  <2>1. p \in Seq(S) /\ \A o \in S : Unpacked(o) \in Seq(Word)
    BY <1>1, WellFormedIs
  <2> HIDE DEF S, p
  <2>2. Unpacking(p) \in Seq(Word)
    BY <2>1, UnpackingType
  <2> QED BY <2>2 DEF p, Original
<1>5. DOMAIN u = 1..Len(u)
  <2> HIDE DEF u
  <2> QED BY <1>4
<1>6. flat = Flat(Meaning(file))
  OBVIOUS
<1>7. Linked(name) = [a \in DOMAIN u |-> (u[a] + fixes(a)) % WordSize]
  BY <1>6 DEF Linked, Original
<1>8. ASSUME NEW a PROVE fixes(a) = SumTo(Fixes(name, file, flat, a), n)
  <2> DEFINE g == Fixes(name, file, flat, a)
             f == [j \in 1..n |-> g[j]]
             h == [j \in DOMAIN flat |->
                            LET k == a - (Data(flat, j) + Start(flat, j))
                            IN IF k \in DOMAIN Words(flat[j]) THEN Addend(file.symbols, frame(j), flat[j], k) ELSE 0]
  <2>1. \A j \in 1..n : h[j] = Fix(name, file, flat, a, j)
    BY <1>3 DEF Fix, FrameAt
  <2>2. \A j \in 1..n : f[j] = Fix(name, file, flat, a, j)
    BY DEF Fixes
  <2>3. h = [j \in 1..n |-> h[j]] /\ f = [j \in 1..n |-> f[j]]
    BY <1>3
  <2>4. fixes(a) = SumFunction(h) /\ SumTo(g, n) = SumFunction(f)
    BY DEF SumTo
  <2> HIDE DEF f, h, fixes, g, flat, n
  <2>5. h = f
    BY <2>1, <2>2, <2>3
  <2>6. fixes(a) = SumTo(g, n)
    BY <2>4, <2>5
  <2> QED BY <2>6 DEF g
<1>9. Relocated(name, file, flat, n) = [a \in 1..Len(u) |-> (u[a] + SumTo(Fixes(name, file, flat, a), n)) % WordSize]
  BY DEF Relocated
<1> HIDE DEF fixes, u, flat, n
<1>10. Linked(name) = Relocated(name, file, flat, n)
  BY <1>5, <1>7, <1>8, <1>9
<1> QED BY <1>10 DEF n, flat

-----------------------------------------------------------------------------
(* Relocation, instruction by instruction *)

LEMMA AddMod ==
  ASSUME NEW m \in Nat, m > 0, NEW x \in Nat, NEW c \in Nat
  PROVE  ((x % m) + c) % m = (x + c) % m /\ x % m \in 0..(m - 1)
<1>1. PICK q \in Int, r \in 0..(m - 1) : x = q * m + r
  <2>1. x = (x \div m) * m + (x % m) /\ x % m \in 0..(m - 1) /\ x \div m \in Int
    OBVIOUS
  <2> QED BY <2>1
<1>2. PICK t \in Int, d \in 0..(m - 1) : r + c = t * m + d
  <2> DEFINE y == r + c
  <2>1. y \in Nat
    OBVIOUS
  <2> HIDE DEF y
  <2>2. y = (y \div m) * m + (y % m) /\ y % m \in 0..(m - 1) /\ y \div m \in Int
    BY <2>1
  <2>3. \E t \in Int, d \in 0..(m - 1) : y = t * m + d
    BY <2>2
  <2> QED BY <2>3 DEF y
<1>3. x % m = r
  <2>1. (q * m + r) % m = r
    OBVIOUS
  <2> QED BY <1>1, <2>1
<1>4. (r + c) % m = d
  <2>1. (t * m + d) % m = d
    OBVIOUS
  <2> QED BY <1>2, <2>1
<1>5. (x + c) % m = d
  <2> DEFINE s == q + t
  <2>1. s \in Int
    OBVIOUS
  <2>2. s * m = q * m + t * m
    OBVIOUS
  <2>3. x + c = s * m + d
    <3> HIDE DEF s
    <3> DEFINE a == q * m
               b == t * m
    <3>1. a \in Int /\ b \in Int /\ x = a + r /\ r + c = b + d
      BY <1>1, <1>2
    <3>2. s * m = a + b
      BY <2>2
    <3> DEFINE e == s * m
    <3> HIDE DEF a, b, e
    <3>3. x + c = e + d
      BY <3>1, <3>2 DEF e
    <3> QED BY <3>3 DEF e
  <2> HIDE DEF s
  <2>4. (s * m + d) % m = d
    BY <2>1
  <2> QED BY <2>3, <2>4
<1> QED BY <1>3, <1>4, <1>5

LEMMA SectionAtFirst ==
  ASSUME NEW name, NEW op, NEW default, NEW flat
  PROVE  SectionAt(name, op, default, flat, 1) = SectionAddress(name, default)
<1> DEFINE ops == {op, "Relocator"}
<1>1. LastOf(ops, flat, 1) = 0
  <2> HIDE DEF ops
  <2> QED BY LastOfFirst
<1> QED BY <1>1 DEF SectionAt

SectionFollows(name, op, default, flat, j) ==
  SectionAt(name, op, default, flat, j + 1)
    = IF flat[j].op = op THEN SectionAddress(name, flat[j].index)
      ELSE IF flat[j].op = "Relocator" THEN SectionAddress(name, default)
      ELSE SectionAt(name, op, default, flat, j)

LEMMA SectionAtNext ==
  ASSUME NEW name, NEW op, op # "Relocator", NEW default, NEW flat, NEW j \in Nat, j # 0
  PROVE  SectionFollows(name, op, default, flat, j)
<1> DEFINE ops == {op, "Relocator"}
           l == LastOf(ops, flat, j + 1)
           m == LastOf(ops, flat, j)
<1>1. l = IF flat[j].op \in ops THEN j ELSE m
  <2> HIDE DEF ops
  <2> QED BY LastOfNext
<1>2. SectionAt(name, op, default, flat, j + 1)
        = SectionAddress(name, IF l = 0 \/ flat[l].op = "Relocator" THEN default ELSE flat[l].index)
  BY DEF SectionAt
<1>3. SectionAt(name, op, default, flat, j)
        = SectionAddress(name, IF m = 0 \/ flat[m].op = "Relocator" THEN default ELSE flat[m].index)
  BY DEF SectionAt
<1>4. flat[j].op \in ops <=> flat[j].op = op \/ flat[j].op = "Relocator"
  OBVIOUS
<1> HIDE DEF l, m, ops
<1>5. CASE flat[j].op = op
  BY <1>1, <1>2, <1>4, <1>5 DEF SectionFollows
<1>6. CASE flat[j].op # op /\ flat[j].op = "Relocator"
  BY <1>1, <1>2, <1>4, <1>6 DEF SectionFollows
<1>7. CASE flat[j].op # op /\ flat[j].op # "Relocator"
  BY <1>1, <1>2, <1>3, <1>4, <1>7 DEF SectionFollows
<1> QED BY <1>5, <1>6, <1>7

LEMMA SectionAtNat ==
  ASSUME NEW name \in Library, NEW op \in {"SetSectC", "SetSectD"}, NEW default \in {0, 1},
         NEW flat, Instructions(flat), Len(flat) \in Nat, NEW j \in 1..(Len(flat) + 1)
  PROVE  SectionAt(name, op, default, flat, j) \in Nat
<1> DEFINE ops == {op, "Relocator"}
           m == LastOf(ops, flat, j)
           x == IF m = 0 \/ flat[m].op = "Relocator" THEN default ELSE flat[m].index
<1>1. m \in {0} \cup Before(ops, flat, j)
  <2> HIDE DEF ops
  <2> QED BY LastOfIn
<1>2. x \in SectionIndex
  <2>1. CASE m = 0 \/ flat[m].op = "Relocator"
    <3>1. default \in SectionIndex
      BY LoaderAssumption DEF SectionIndex
    <3> QED BY <2>1, <3>1
  <2>2. CASE m # 0 /\ flat[m].op # "Relocator"
    <3>1. m \in 1..Len(flat) /\ flat[m].op = op
      BY <1>1, <2>2 DEF Before
    <3> HIDE DEF m
    <3>2. Instruction(flat[m])
      BY <3>1 DEF Instructions
    <3>3. flat[m].index \in SectionIndex
      BY <3>1, <3>2 DEF Instruction
    <3> QED BY <2>2, <3>3
  <2> QED BY <2>1, <2>2
<1>3. SectionAt(name, op, default, flat, j) = SectionAddress(name, x)
  BY DEF SectionAt
<1> HIDE DEF x
<1> QED BY <1>2, <1>3, LoaderAssumption

LEMMA DataFirst ==
  ASSUME NEW flat
  PROVE  Data(flat, 1) = 0
<1>1. LastOf({"Relocator"}, flat, 1) = 0
  BY LastOfFirst
<1> QED BY <1>1 DEF Data, Header

LEMMA DataNext ==
  ASSUME NEW flat, NEW j \in Nat, j # 0
  PROVE  Data(flat, j + 1) = IF flat[j].op = "Relocator" THEN flat[j].data ELSE Data(flat, j)
<1> DEFINE ops == {"Relocator"}
           l == LastOf(ops, flat, j + 1)
           m == LastOf(ops, flat, j)
<1>1. l = IF flat[j].op \in ops THEN j ELSE m
  <2> HIDE DEF ops
  <2> QED BY LastOfNext
<1>2. Data(flat, j + 1) = IF l = 0 THEN 0 ELSE flat[l].data
  BY DEF Data, Header
<1>3. Data(flat, j) = IF m = 0 THEN 0 ELSE flat[m].data
  BY DEF Data, Header
<1>4. flat[j].op \in ops <=> flat[j].op = "Relocator"
  OBVIOUS
<1> HIDE DEF l, m, ops
<1> QED BY <1>1, <1>2, <1>3, <1>4

LEMMA DataNat ==
  ASSUME NEW flat, Instructions(flat), Len(flat) \in Nat, NEW j \in 1..(Len(flat) + 1)
  PROVE  Data(flat, j) \in Nat
<1> DEFINE ops == {"Relocator"}
           m == LastOf(ops, flat, j)
<1>1. m \in {0} \cup Before(ops, flat, j)
  <2> HIDE DEF ops
  <2> QED BY LastOfIn
<1>2. Data(flat, j) = IF m = 0 THEN 0 ELSE flat[m].data
  BY DEF Data, Header
<1>3. CASE m = 0
  BY <1>2, <1>3
<1>4. CASE m # 0
  <2>1. m \in 1..Len(flat) /\ flat[m].op = "Relocator"
    BY <1>1, <1>4 DEF Before
  <2> HIDE DEF m
  <2>2. Instruction(flat[m])
    BY <2>1 DEF Instructions
  <2> QED BY <1>2, <1>4, <2>1, <2>2 DEF Instruction
<1> QED BY <1>3, <1>4

LEMMA FixNat ==
  ASSUME NEW name \in Library, NEW file, WellFormed(file), NEW flat, flat = Flat(Program(file)),
         NEW j \in 1..Len(flat), NEW a
  PROVE  Fix(name, file, flat, a, j) \in Nat
<1> DEFINE i == flat[j]
           k == a - (Data(flat, j) + Start(flat, j))
           frame == FrameAt(name, flat, j)
           index == FirstImport(frame, i) + k
           symbol == file.symbols[index]
<1>2. flat \in Seq(ToSet(Program(file))) /\ Instructions(flat)
  BY WellFormedIs
<1>3. Len(flat) \in Nat /\ DOMAIN flat = 1..Len(flat) /\ j \in 1..(Len(flat) + 1)
  BY <1>2
<1>4. Instruction(i)
  BY <1>2 DEF Instructions
<1>5. frame.sectionC \in Nat /\ frame.sectionD \in Nat /\ frame.name = name
  <2>1. SectionAt(name, "SetSectC", 0, flat, j) \in Nat /\ SectionAt(name, "SetSectD", 1, flat, j) \in Nat
    BY <1>2, <1>3, SectionAtNat
  <2> QED BY <2>1 DEF FrameAt
<1>6. Fix(name, file, flat, a, j) = IF k \in DOMAIN Words(i) THEN Addend(file.symbols, frame, i, k) ELSE 0
  BY DEF Fix
<1>7. ASSUME k \in DOMAIN Words(i) PROVE Addend(file.symbols, frame, i, k) \in Nat
  <2>1. Words(i) \in Seq(Kinds) /\ \A l \in 1..Len(Words(i)) : Words(i)[l] = "section" => i.op = "Section"
    BY <1>4 DEF Instruction
  <2>2. k \in 1..Len(Words(i))
    BY <1>7, <2>1
  <2>3. Words(i)[k] = "section" => i.op = "Section"
    BY <2>1, <2>2
  <2>4. index \in DOMAIN file.symbols => SymbolAddress(symbol.library, symbol.name) \in Nat
    <3>1. \A s \in ToSet(file.symbols) : SymbolAddress(s.library, s.name) \in Nat
      BY DEF WellFormed
    <3>2. index \in DOMAIN file.symbols => symbol \in ToSet(file.symbols)
      BY DEF ToSet
    <3> QED BY <3>1, <3>2
  <2>5. Words(i)[k] = "section" => SectionAddress(name, i.index) \in Nat
    <3> SUFFICES ASSUME Words(i)[k] = "section" PROVE SectionAddress(name, i.index) \in Nat
      OBVIOUS
    <3>1. i.op = "Section"
      BY <2>3
    <3>2. i.index \in SectionIndex
      BY <1>4, <3>1 DEF Instruction
    <3> QED BY <3>2, LoaderAssumption
  <2>6. Addend(file.symbols, frame, i, k) =
          CASE Words(i)[k] = "C"       -> frame.sectionC
            [] Words(i)[k] = "D"       -> frame.sectionD
            [] Words(i)[k] = "section" -> SectionAddress(name, i.index)
            [] Words(i)[k] = "import" /\ index \in DOMAIN file.symbols ->
                 SymbolAddress(symbol.library, symbol.name)
            [] OTHER -> 0
    BY <1>5 DEF Addend
  <2> DEFINE w == Words(i)[k]
             p == SymbolAddress(symbol.library, symbol.name)
             q == SectionAddress(name, i.index)
             c == frame.sectionC
             d == frame.sectionD
             known == index \in DOMAIN file.symbols
  <2> HIDE DEF w, p, q, c, d, known
  <2>7. /\ c \in Nat /\ d \in Nat
        /\ w = "section" => q \in Nat
        /\ known => p \in Nat
    BY <1>5, <2>4, <2>5 DEF w, p, q, c, d, known
  <2>8. Addend(file.symbols, frame, i, k) = CASE w = "C" -> c [] w = "D" -> d [] w = "section" -> q
                                 [] w = "import" /\ known -> p [] OTHER -> 0
    BY <2>6 DEF w, p, q, c, d, known
  <2> QED BY <2>7, <2>8
<1> HIDE DEF k, frame, i
<1> QED BY <1>6, <1>7

LEMMA FixesInto ==
  ASSUME NEW name \in Library, NEW file, WellFormed(file), NEW flat, flat = Flat(Program(file)), NEW a
  PROVE  Into(Fixes(name, file, flat, a), 1..Len(flat), Nat)
<1>1. ASSUME NEW j \in 1..Len(flat) PROVE Fixes(name, file, flat, a)[j] \in Nat
  <2>1. Fix(name, file, flat, a, j) \in Nat
    BY FixNat
  <2> QED BY <2>1 DEF Fixes
<1> QED BY <1>1 DEF Into

LEMMA OriginalType ==
  ASSUME NEW file, WellFormed(file)
  PROVE  Original(file) \in Seq(Word)
<1> DEFINE p == file.pattern
           S == ToSet(p)
<1>2. p \in Seq(S) /\ \A o \in S : Unpacked(o) \in Seq(Word)
  BY WellFormedIs
<1> HIDE DEF p, S
<1>3. Unpacking(p) \in Seq(Word)
  BY <1>2, UnpackingType
<1> QED BY <1>3 DEF Original, p

LEMMA RelocatedFirst ==
  ASSUME NEW file, WellFormed(file), NEW name, NEW flat
  PROVE  Relocated(name, file, flat, 0) = Original(file)
<1> DEFINE u == Original(file)
           r == Relocated(name, file, flat, 0)
<1>1. u \in Seq(Word)
  BY OriginalType
<1>2. r = [a \in 1..Len(u) |-> (u[a] + SumTo(Fixes(name, file, flat, a), 0)) % WordSize]
  BY DEF Relocated
<1> HIDE DEF u, r
<1>3. WordSize \in Nat \ {0}
  BY LoaderAssumption
<1>4. ASSUME NEW a \in 1..Len(u) PROVE (u[a] + SumTo(Fixes(name, file, flat, a), 0)) % WordSize = u[a]
  <2> DEFINE x == u[a]
  <2>1. SumTo(Fixes(name, file, flat, a), 0) = 0
    BY SumToNone
  <2>2. x \in 0..(WordSize - 1)
    <3>1. u[a] \in Word
      BY <1>1
    <3> QED BY <3>1 DEF Word
  <2> HIDE DEF x
  <2>3. (x + 0) % WordSize = x
    BY <1>3, <2>2
  <2> QED BY <2>1, <2>3 DEF x
<1>5. r = [a \in 1..Len(u) |-> u[a]]
  BY <1>2, <1>4
<1>6. u = [a \in 1..Len(u) |-> u[a]]
  BY <1>1
<1> QED BY <1>5, <1>6 DEF u, r

LEMMA RelocatedWord ==
  ASSUME NEW name \in Library, NEW file, WellFormed(file), NEW flat, flat = Flat(Program(file)),
         NEW j \in 0..Len(flat), NEW a \in 1..Len(Original(file))
  PROVE  /\ Original(file)[a] \in Nat /\ SumTo(Fixes(name, file, flat, a), j) \in Nat
         /\ Relocated(name, file, flat, j)[a]
              = (Original(file)[a] + SumTo(Fixes(name, file, flat, a), j)) % WordSize
         /\ Relocated(name, file, flat, j)[a] \in Word
<1> DEFINE u == Original(file)
           f == Fixes(name, file, flat, a)
           x == u[a]
           y == SumTo(f, j)
<1>1. u \in Seq(Word)
  BY OriginalType
<1>2. WordSize \in Nat /\ WordSize > 0
  BY LoaderAssumption
<1>3. x \in Nat
  <2>1. a \in 1..Len(u)
    OBVIOUS
  <2> HIDE DEF u
  <2>2. u[a] \in Word
    BY <1>1, <2>1
  <2> QED BY <1>2, <2>2 DEF Word
<1>4. Into(f, 1..Len(flat), Nat)
  BY FixesInto
<1> HIDE DEF f
<1>5. j \in Nat /\ Into(f, 1..j, Nat)
  <2>2. flat \in Seq(ToSet(Program(file)))
    BY WellFormedIs
  <2>3. Len(flat) \in Nat
    BY <2>2
  <2> QED BY <1>4, <2>3 DEF Into
<1>6. y \in Nat
  BY <1>5, SumToNat
<1>7. Relocated(name, file, flat, j)[a] = (x + y) % WordSize
  BY DEF Relocated, f
<1> HIDE DEF x, y
<1> DEFINE z == x + y
<1>8. z \in Nat
  BY <1>3, <1>6
<1> HIDE DEF z
<1>9. z % WordSize \in 0..(WordSize - 1)
  BY <1>2, <1>8
<1> QED BY <1>3, <1>6, <1>7, <1>9 DEF x, y, z, f, Word

LEMMA RelocatedType ==
  ASSUME NEW name \in Library, NEW file, WellFormed(file), NEW flat, flat = Flat(Program(file)),
         NEW j \in 0..Len(flat)
  PROVE  Relocated(name, file, flat, j) \in Seq(Word) /\ Len(Relocated(name, file, flat, j)) = Len(Original(file))
<1> DEFINE n == Len(Original(file))
           r == Relocated(name, file, flat, j)
<1>1. n \in Nat
  BY OriginalType
<1>2. r = [a \in 1..n |-> (Original(file)[a] + SumTo(Fixes(name, file, flat, a), j)) % WordSize]
  BY DEF Relocated
<1>3. \A a \in 1..n : r[a] \in Word
  BY RelocatedWord
<1>4. r = [a \in 1..n |-> r[a]]
  BY <1>2
<1> HIDE DEF n, r
<1>5. r \in Seq(Word) /\ Len(r) = n
  BY <1>1, <1>3, <1>4
<1> QED BY <1>5 DEF n, r

LEMMA AddendSame ==
  ASSUME NEW f, NEW g, NEW i, NEW k, NEW symbols,
         f.name = g.name, f.importIndex = g.importIndex, f.sectionC = g.sectionC, f.sectionD = g.sectionD
  PROVE  Addend(symbols, f, i, k) = Addend(symbols, g, i, k)
<1>1. FirstImport(f, i) = FirstImport(g, i)
  BY DEF FirstImport
<1> DEFINE x == FirstImport(f, i)
<1> HIDE DEF x
<1> QED BY <1>1 DEF Addend, x

LEMMA RelocatedNext ==
  ASSUME NEW name \in Library, NEW file, WellFormed(file), NEW flat, flat = Flat(Program(file)),
         NEW j \in Nat, j + 1 \in 1..Len(flat), NEW frame, frame.name = name, file = files[name],
         frame.data = Data(flat, j + 1),
         frame.relocAddress = Start(flat, j + 1), frame.importIndex = ImportAt(flat, j + 1),
         frame.sectionC = SectionAt(name, "SetSectC", 0, flat, j + 1),
         frame.sectionD = SectionAt(name, "SetSectD", 1, flat, j + 1)
  PROVE  Add(Relocated(name, file, flat, j), frame, flat[j + 1]) = Relocated(name, file, flat, j + 1)
<1> DEFINE n == Len(Original(file))
           m == j + 1
           i == flat[m]
           s == Relocated(name, file, flat, j)
           t == Relocated(name, file, flat, m)
           r == Add(s, frame, i)
           fit(a) == a - (frame.data + frame.relocAddress) \in DOMAIN Words(i)
           addend(a) == Addend(file.symbols, frame, i, a - (frame.data + frame.relocAddress))
<1>0. WordSize \in Nat /\ WordSize > 0
  BY LoaderAssumption
<1>1. Len(flat) \in Nat
  <2>2. flat \in Seq(ToSet(Program(file)))
    BY WellFormedIs
  <2> QED BY <2>2
<1>2. j \in 0..Len(flat) /\ m \in 0..Len(flat) /\ m \in 1..Len(flat)
  BY <1>1
<1>3. s \in Seq(Word) /\ Len(s) = n
  BY <1>2, RelocatedType
<1>4. t \in Seq(Word) /\ Len(t) = n
  <2> HIDE DEF m
  <2> QED BY <1>2, RelocatedType
<1>5. r = [a \in DOMAIN s |-> IF fit(a) THEN (s[a] + addend(a)) % WordSize ELSE s[a]]
  BY DEF Add
<1>6. ASSUME NEW a
      PROVE  Fix(name, file, flat, a, m) = IF fit(a) THEN addend(a) ELSE 0
  <2> DEFINE g == FrameAt(name, flat, m)
             k == a - (frame.data + frame.relocAddress)
  <2>1. g.name = frame.name /\ g.importIndex = frame.importIndex /\ g.sectionC = frame.sectionC
        /\ g.sectionD = frame.sectionD
    BY DEF FrameAt
  <2>2. Fix(name, file, flat, a, m) = IF k \in DOMAIN Words(i) THEN Addend(file.symbols, g, i, k) ELSE 0
    BY DEF Fix
  <2> HIDE DEF g, k, i
  <2>3. Addend(file.symbols, g, i, k) = Addend(file.symbols, frame, i, k)
    BY <2>1, AddendSame
  <2> QED BY <2>2, <2>3 DEF k
<1>7. ASSUME NEW a PROVE Fix(name, file, flat, a, m) \in Nat
  <2> HIDE DEF m
  <2> QED BY <1>2, FixNat
<1>8. ASSUME NEW a \in 1..n PROVE r[a] = t[a]
  <2> DEFINE f == Fixes(name, file, flat, a)
             x == Original(file)[a]
             y == SumTo(f, j)
             z == Fix(name, file, flat, a, m)
  <2>1. x \in Nat /\ y \in Nat /\ s[a] = (x + y) % WordSize /\ s[a] \in Word
    BY <1>2, RelocatedWord
  <2>2. t[a] = (x + SumTo(f, m)) % WordSize
    <3> HIDE DEF m
    <3> QED BY <1>2, RelocatedWord
  <2>3. Into(f, 1..Len(flat), Nat)
    BY FixesInto
  <2>4. f[m] = z
    BY <1>2 DEF Fixes
  <2> HIDE DEF f, t, s, z
  <2>5. Into(f, 1..(j + 1), Nat)
    BY <1>1, <2>3 DEF Into
  <2>6. SumTo(f, j + 1) = SumTo(f, j) + f[j + 1]
    BY <2>5, SumToNext
  <2>7. SumTo(f, m) = y + z
    BY <2>4, <2>6
  <2>8. z \in Nat
    BY <1>7 DEF z
  <2> HIDE DEF x, y
  <2> DEFINE w == x + y
  <2>9. w \in Nat /\ x + (y + z) = w + z
    BY <2>1, <2>8
  <2> HIDE DEF w
  <2>10. t[a] = (w + z) % WordSize
    BY <2>2, <2>7, <2>9
  <2>11. s[a] = w % WordSize
    BY <2>1 DEF w
  <2>12. ((w % WordSize) + z) % WordSize = (w + z) % WordSize
    BY <1>0, <2>8, <2>9, AddMod
  <2>13. a \in DOMAIN s
    BY <1>3 DEF s
  <2>14. r[a] = IF fit(a) THEN (s[a] + addend(a)) % WordSize ELSE s[a]
    BY <1>5, <2>13 DEF s
  <2>15. z = IF fit(a) THEN addend(a) ELSE 0
    BY <1>6 DEF z
  <2> HIDE DEF r, fit, addend
  <2>16. CASE fit(a)
    BY <2>10, <2>11, <2>12, <2>14, <2>15, <2>16
  <2>17. CASE ~fit(a)
    <3>1. z = 0 /\ r[a] = s[a]
      BY <2>14, <2>15, <2>17
    <3>2. w + z = w
      BY <2>9, <3>1
    <3> QED BY <2>10, <2>11, <3>1, <3>2
  <2> QED BY <2>16, <2>17
<1>9. DOMAIN s = 1..n
  BY <1>3
<1>10. r = [a \in 1..n |-> r[a]]
  BY <1>5, <1>9
<1>11. t = [a \in 1..n |-> t[a]]
  BY <1>4
<1> HIDE DEF r, t, n
<1>12. r = t
  BY <1>8, <1>10, <1>11
<1> QED BY <1>12 DEF r, t, s, i, m

-----------------------------------------------------------------------------
(* The invariant is kept *)

LEMMA FrameIs ==
  ASSUME NEW fs, NEW frame \in FramesOf(fs)
  PROVE  frame.name \in DOMAIN fs /\ frame \in Frames(frame.name, fs[frame.name])
<1>1. PICK name \in DOMAIN fs : frame \in Frames(name, fs[name])
  BY DEF FramesOf
<1>2. frame.name = name
  BY <1>1 DEF Frames
<1> QED BY <1>1, <1>2

LEMMA FrameIn ==
  ASSUME NEW fs, NEW name \in DOMAIN fs, NEW frame \in Frames(name, fs[name])
  PROVE  frame \in FramesOf(fs) /\ frame.name = name
BY DEF FramesOf, Frames

\* The sequence with another head.
LEMMA OtherHead ==
  ASSUME NEW S, NEW s \in Seq(S), s # <<>>, NEW x \in S, NEW t, t = <<x>> \o Tail(s)
  PROVE  /\ t \in Seq(S) /\ Len(t) = Len(s) /\ t[1] = x
         /\ \A k \in 2..Len(s) : t[k] = s[k]
         /\ Len(s) \in Nat /\ Len(s) >= 1 /\ Head(s) = s[1]
<1> DEFINE r == Tail(s)
           n == Len(s)
           u == <<x>>
<1>1. n \in Nat /\ n >= 1 /\ Head(s) = s[1] /\ r \in Seq(S) /\ Len(r) = n - 1
      /\ \A k \in 1..(n - 1) : r[k] = s[k + 1]
  OBVIOUS
<1>2. u \in Seq(S) /\ Len(u) = 1 /\ u[1] = x /\ t = u \o r
  OBVIOUS
<1> HIDE DEF r, n, u
<1>3. u \o r \in Seq(S) /\ Len(u \o r) = Len(u) + Len(r)
      /\ \A k \in 1..(Len(u) + Len(r)) : (u \o r)[k] = IF k <= Len(u) THEN u[k] ELSE r[k - Len(u)]
  <2>1. u \in Seq(S) /\ r \in Seq(S)
    BY <1>1, <1>2
  <2> QED BY <2>1, ConcatProperties
<1>4. t \in Seq(S) /\ Len(t) = n /\ t[1] = x
  BY <1>1, <1>2, <1>3
<1>5. ASSUME NEW k \in 2..n PROVE t[k] = s[k]
  <2>1. t[k] = r[k - 1]
    BY <1>1, <1>2, <1>3
  <2>2. k - 1 \in 1..(n - 1) /\ (k - 1) + 1 = k
    BY <1>1
  <2> QED BY <1>1, <2>1, <2>2
<1> QED BY <1>1, <1>4, <1>5 DEF n

\* What there is of the innermost container.
LEMMA TopIs ==
  ASSUME LoaderInv, loading # <<>>
  PROVE  /\ Top = loading[1] /\ Len(loading) \in Nat /\ Len(loading) >= 1
         /\ Top.name \in File /\ Top \in Frames(Top.name, files[Top.name])
         /\ WellFormed(files[Top.name]) /\ Top.name \in Library
         /\ Top.name \notin resolvers
         /\ thrown = "none" => /\ Top.name \in DOMAIN sections
                               /\ sections[Top.name] \in Seq(Word)
                               /\ Progress(Top, sections[Top.name], files[Top.name])
<1>1. loading \in Seq(FramesOf(files)) /\ files \in World
      /\ \A name \in DOMAIN sections : sections[name] \in Seq(Word)
  BY DEF LoaderInv, LoaderTypes
<1>2. Top = loading[1] /\ Len(loading) \in Nat /\ Len(loading) >= 1 /\ Top \in FramesOf(files)
  BY <1>1 DEF Top
<1>3. Top.name \in File /\ Top \in Frames(Top.name, files[Top.name])
  BY <1>2, FrameIs DEF File
<1>4. WellFormed(files[Top.name]) /\ Top.name \in Library
  BY <1>1, <1>3, FileWellFormed
<1>5. 1 \in 1..Len(loading)
  BY <1>2
<1>6. Top.name \notin resolvers
  BY <1>2, <1>5 DEF LoaderInv, Unloaded
<1>7. Innermost(1)
  BY DEF Innermost
<1>8. thrown = "none" => /\ Top.name \in DOMAIN sections
                         /\ Progress(Top, sections[Top.name], files[Top.name])
  BY <1>2, <1>5, <1>7 DEF LoaderInv, UnderWay
<1> QED BY <1>1, <1>2, <1>3, <1>4, <1>6, <1>8

\* The innermost container goes on.
LEMMA Continuing ==
  ASSUME LoaderInv, loading # <<>>, thrown = "none",
         NEW frame \in Frames(Top.name, files[Top.name]), NEW section \in Seq(Word),
         Continue(frame), UNCHANGED <<files, resolvers, thrown>>,
         DOMAIN sections' = DOMAIN sections, sections'[Top.name] = section,
         \A name \in DOMAIN sections : name # Top.name => sections'[name] = sections[name],
         ToSet(Top.imports) \subseteq resolvers \cup ToSet(frame.imports),
         Progress(frame, section, files[Top.name])
  PROVE  LoaderInv'
<1> DEFINE n == Len(loading)
           m == Top.name
<1>1. /\ Top = loading[1] /\ m \in File /\ m \notin resolvers /\ n \in Nat /\ n >= 1
      /\ m \in DOMAIN sections
  BY TopIs
<1>2. loading \in Seq(FramesOf(files))
  BY DEF LoaderInv, LoaderTypes
<1>3. frame \in FramesOf(files) /\ frame.name = m
  BY <1>1, FrameIn DEF File
<1>4. /\ loading' \in Seq(FramesOf(files)) /\ Len(loading') = n /\ loading'[1] = frame
      /\ \A k \in 2..n : loading'[k] = loading[k]
  BY <1>2, <1>3, OtherHead DEF Continue
<1>5. \A k \in 1..n : loading'[k].name = loading[k].name
  <2> SUFFICES ASSUME NEW k \in 1..n PROVE loading'[k].name = loading[k].name
    OBVIOUS
  <2>1. k = 1 \/ k \in 2..n
    BY <1>1
  <2> QED BY <1>1, <1>3, <1>4, <2>1
<1> HIDE DEF n, m
<1>6. LoaderTypes'
  <2>1. ASSUME NEW name \in DOMAIN sections' PROVE sections'[name] \in Seq(Word)
    <3>1. name # m => sections[name] \in Seq(Word) /\ sections'[name] = sections[name]
      BY <2>1 DEF LoaderInv, LoaderTypes, m
    <3> QED BY <3>1 DEF m
  <2>2. /\ files' \in World /\ resolvers' \subseteq File' /\ DOMAIN sections' \subseteq File'
        /\ thrown' \in {"none", "library", "logic_error", "stack"}
    BY DEF LoaderInv, LoaderTypes, File
  <2>3. loading' \in Seq(FramesOf(files'))
    BY <1>4
  <2> QED BY <2>1, <2>2, <2>3 DEF LoaderTypes, Word
<1>7. Nested'
  <2> SUFFICES ASSUME NEW k \in 2..n
               PROVE  loading'[k].imports # <<>> /\ loading'[k - 1].name = Head(loading'[k].imports)
    BY <1>4 DEF Nested
  <2>1. loading[k].imports # <<>> /\ loading[k - 1].name = Head(loading[k].imports)
    BY DEF LoaderInv, Nested, n
  <2>2. k - 1 \in 1..n
    BY <1>1
  <2> QED BY <1>4, <1>5, <2>1, <2>2
<1>8. Unloaded'
  <2>1. \A k \in 1..n : loading[k].name \notin resolvers
    BY DEF LoaderInv, Unloaded, n
  <2> QED BY <1>4, <1>5, <2>1 DEF Unloaded
<1>9. Awaited'
  <2> SUFFICES ASSUME NEW k \in 1..n
               PROVE  ToSet(files[loading[k].name].imports) \subseteq resolvers \cup ToSet(loading'[k].imports)
    BY <1>4, <1>5 DEF Awaited
  <2>1. ToSet(files[loading[k].name].imports) \subseteq resolvers \cup ToSet(loading[k].imports)
    BY DEF LoaderInv, Awaited, n
  <2>2. CASE k = 1
    <3>1. loading'[k] = frame /\ loading[k] = Top
      BY <1>1, <1>4, <2>2
    <3> QED BY <2>1, <3>1
  <2>3. CASE k \in 2..n
    BY <1>4, <2>1, <2>3
  <2> QED BY <1>1, <2>2, <2>3
<1>10. UnderWay'
  <2> SUFFICES ASSUME NEW k \in 1..n, Innermost(k)'
               PROVE  /\ loading'[k].name \in DOMAIN sections'
                      /\ Progress(loading'[k], sections'[loading'[k].name], files'[loading'[k].name])
    BY <1>4 DEF UnderWay
  <2>1. CASE k = 1
    <3>1. loading'[k] = frame /\ loading'[k].name = m
      BY <1>3, <1>4, <2>1
    <3> QED BY <1>1, <3>1 DEF m
  <2>2. CASE k \in 2..n
    <3>1. \A l \in 1..(k - 1) : loading'[l].name # loading'[k].name
      BY DEF Innermost
    <3>2. \A l \in 1..(k - 1) : l \in 1..n
      BY <1>1
    <3>3. \A l \in 1..(k - 1) : loading[l].name # loading[k].name
      BY <1>5, <3>1, <3>2
    <3>4. Innermost(k)
      BY <3>3 DEF Innermost
    <3>5. 1 \in 1..(k - 1)
      BY <1>1, <2>2
    <3>6. loading[k].name # m
      BY <1>1, <3>3, <3>5 DEF m
    <3>7. loading[k].name \in DOMAIN sections
          /\ Progress(loading[k], sections[loading[k].name], files[loading[k].name])
      BY <3>4 DEF LoaderInv, UnderWay, n
    <3>8. loading'[k] = loading[k]
      BY <1>4, <2>2
    <3>9. sections'[loading[k].name] = sections[loading[k].name]
      BY <3>6, <3>7 DEF m
    <3> QED BY <3>7, <3>8, <3>9
  <2> QED BY <1>1, <2>1, <2>2
<1>11. Complete'
  <2> SUFFICES ASSUME NEW name \in resolvers
               PROVE  /\ name \in DOMAIN sections
                      /\ ToSet(files[name].imports) \subseteq resolvers
                      /\ sections'[name] = Relocated(name, files[name], Flat(Program(files[name])),
                                                     Len(Flat(Program(files[name]))))
    BY DEF Complete
  <2>1. /\ name \in DOMAIN sections
        /\ ToSet(files[name].imports) \subseteq resolvers
        /\ sections[name] = Relocated(name, files[name], Flat(Program(files[name])),
                                      Len(Flat(Program(files[name]))))
    BY DEF LoaderInv, Complete
  <2>2. name # m
    BY <1>1
  <2> QED BY <2>1, <2>2 DEF m
<1> QED BY <1>6, <1>7, <1>8, <1>9, <1>10, <1>11 DEF LoaderInv

LEMMA OwnEntries ==
  ASSUME NEW S, NEW s \in Seq(S)
  PROVE  s \in Seq(ToSet(s))
<1>1. Len(s) \in Nat /\ DOMAIN s = 1..Len(s) /\ s = [k \in 1..Len(s) |-> s[k]]
  OBVIOUS
<1>2. \A k \in 1..Len(s) : s[k] \in ToSet(s)
  BY <1>1 DEF ToSet
<1> DEFINE T == ToSet(s)
<1> HIDE DEF T
<1>3. \A k \in 1..Len(s) : s[k] \in T
  BY <1>2 DEF T
<1>4. s \in Seq(T)
  BY <1>1, <1>3
<1> QED BY <1>4 DEF T

LEMMA FreshFrame ==
  ASSUME files \in World, NEW name \in File
  PROVE  /\ Loading(name) \in Frames(name, files[name])
         /\ Loading(name).imports = files[name].imports
         /\ Progress(Loading(name), <<>>, files[name])
<1> DEFINE file == files[name]
           program == Program(file)
           flat == Flat(program)
           id == [k \in 1..Len(program) |-> k]
           frame == Loading(name)
           c == SectionAddress(name, 0)
           d == SectionAddress(name, 1)
           S == ToSet(program)
<1>1. WellFormed(file) /\ name \in Library
  BY FileWellFormed
<1>2. /\ program \in Seq(S) /\ flat \in Seq(S) /\ Instructions(flat)
      /\ file.pattern \in Seq(ToSet(file.pattern)) /\ file.imports \in Seq(Library)
  BY <1>1, WellFormedIs
<1>3. file.imports \in Seq(ToSet(file.imports))
  BY <1>2, OwnEntries
<1>4. id \in Seq(1..Len(program))
  BY <1>2
<1>5. c \in Nat /\ d \in Nat
  <2>1. 0 \in SectionIndex /\ 1 \in SectionIndex
    BY LoaderAssumption DEF SectionIndex
  <2> QED BY <1>1, <2>1, LoaderAssumption
<1>6. frame = [name |-> name, pattern |-> file.pattern, imports |-> file.imports, program |-> id,
               data |-> 0, relocAddress |-> 0, importIndex |-> 0, sectionC |-> c, sectionD |-> d]
  <2>1. Len(program) = Len(file.program)
    <3>1. file.program \in Seq(ToSet(file.program))
      BY <1>1 DEF WellFormed, IsSequence
    <3>2. DOMAIN program = 1..Len(program) /\ Len(program) \in Nat
      <4> HIDE DEF program
      <4> QED BY <1>2
    <3>3. DOMAIN file.program = 1..Len(file.program) /\ Len(file.program) \in Nat
      BY <3>1
    <3>4. DOMAIN program = DOMAIN file.program
      BY DEF Program
    <3> HIDE DEF program
    <3> QED BY <3>2, <3>3, <3>4
  <2> QED BY <2>1 DEF Loading
<1>7. Rest(program, id) = flat
  BY <1>2, RestAll
<1> HIDE DEF id, c, d, frame, flat
<1>8. frame \in Frames(name, file)
  BY <1>2, <1>3, <1>4, <1>5, <1>6 DEF Frames
<1>9. Remains(flat, flat, 0)
  BY <1>2, RemainsAll
<1>10. Data(flat, 1) = 0 /\ Start(flat, 1) = 0 /\ ImportAt(flat, 1) = 0
  BY <1>2, DataFirst, Starts, ImportIndices
<1>11. SectionAt(name, "SetSectC", 0, flat, 1) = c /\ SectionAt(name, "SetSectD", 1, flat, 1) = d
  BY SectionAtFirst DEF c, d
<1>12. Relocated(name, file, flat, 0) = Original(file)
  BY <1>1, RelocatedFirst
<1>13. Original(file) \in Seq(Word)
  BY <1>1, OriginalType
<1>14. /\ frame.name = name /\ frame.pattern = file.pattern /\ frame.program = id
       /\ frame.data = 0 /\ frame.relocAddress = 0 /\ frame.importIndex = 0 /\ frame.sectionC = c /\ frame.sectionD = d
       /\ frame.imports = file.imports
  BY <1>6
<1>15. frame.pattern = <<>> => <<>> = Relocated(name, file, flat, 0)
  <2>1. frame.pattern = <<>> => Original(file) = <<>>
    BY <1>14, UnpackingNone DEF Original
  <2> QED BY <1>12, <2>1
<1>16. <<>> \o Unpacking(frame.pattern) = Original(file)
  <2>1. Unpacking(frame.pattern) = Original(file)
    BY <1>14 DEF Original
  <2> DEFINE u == Original(file)
  <2> HIDE DEF u
  <2>2. <<>> \o u = u
    BY <1>13 DEF u
  <2> QED BY <2>1, <2>2 DEF u
<1>17. Reached(frame, <<>>, file, flat, 0)
  <2>1. 0 + 1 = 1
    OBVIOUS
  <2> QED BY <1>7, <1>9, <1>10, <1>11, <1>14, <1>15, <1>16, <2>1 DEF Reached
<1>18. 0 \in 0..Len(flat)
  BY <1>2
<1>19. Progress(frame, <<>>, file)
  <2>1. Reached(frame, <<>>, file, Flat(Program(file)), 0) /\ 0 \in 0..Len(Flat(Program(file)))
    BY <1>17, <1>18 DEF flat
  <2> HIDE DEF file
  <2> QED BY <2>1 DEF Progress
<1> QED BY <1>8, <1>14, <1>19 DEF frame

\* One more container.
LEMMA OneMore ==
  ASSUME NEW S, NEW s \in Seq(S), NEW x \in S, NEW t, t = <<x>> \o s
  PROVE  /\ t \in Seq(S) /\ Len(t) = Len(s) + 1 /\ t[1] = x /\ Len(s) \in Nat
         /\ \A k \in 1..Len(s) : t[k + 1] = s[k]
<1> DEFINE n == Len(s)
           u == <<x>>
<1>1. n \in Nat
  OBVIOUS
<1>2. u \in Seq(S) /\ Len(u) = 1 /\ u[1] = x /\ t = u \o s
  OBVIOUS
<1> HIDE DEF n, u
<1>3. u \in Seq(S) /\ s \in Seq(S)
  BY <1>2
<1>4. u \o s \in Seq(S) /\ Len(u \o s) = Len(u) + Len(s)
      /\ \A k \in 1..(Len(u) + Len(s)) : (u \o s)[k] = IF k <= Len(u) THEN u[k] ELSE s[k - Len(u)]
  BY <1>3, ConcatProperties
<1>5. t \in Seq(S) /\ Len(t) = n + 1 /\ t[1] = x
  BY <1>1, <1>2, <1>4 DEF n
<1>6. ASSUME NEW k \in 1..n PROVE t[k + 1] = s[k]
  <2>1. k + 1 \in 1..(Len(u) + Len(s)) /\ ~(k + 1 <= Len(u)) /\ (k + 1) - Len(u) = k
    BY <1>1, <1>2 DEF n
  <2>2. (u \o s)[k + 1] = s[(k + 1) - Len(u)]
    BY <1>4, <2>1
  <2> QED BY <1>2, <2>1, <2>2
<1> QED BY <1>1, <1>5, <1>6 DEF n

LEMMA Beginning ==
  ASSUME LoaderInv, thrown = "none", NEW name \in File \ resolvers, Begin(name),
         UNCHANGED <<files, resolvers, thrown>>,
         loading # <<>> => Top.imports # <<>> /\ name = Head(Top.imports)
  PROVE  LoaderInv'
<1> DEFINE n == Len(loading)
           frame == Loading(name)
<1>0. LoaderTypes /\ files \in World /\ loading \in Seq(FramesOf(files))
  BY DEF LoaderInv, LoaderTypes
<1>1. /\ frame \in Frames(name, files[name]) /\ frame.imports = files[name].imports
      /\ Progress(frame, <<>>, files[name])
  BY <1>0, FreshFrame
<1>2. loading' = <<frame>> \o loading
      /\ sections' = [m \in DOMAIN sections \cup {name} |-> IF m = name THEN <<>> ELSE sections[m]]
  BY DEF Begin
<1> HIDE DEF frame
<1>3. frame \in FramesOf(files) /\ frame.name = name
  BY <1>1, FrameIn DEF File
<1>4. /\ loading' \in Seq(FramesOf(files)) /\ Len(loading') = n + 1 /\ loading'[1] = frame
      /\ n \in Nat /\ \A k \in 1..n : loading'[k + 1] = loading[k]
  BY <1>0, <1>2, <1>3, OneMore
<1>5. n # 0 => loading # <<>> /\ Top = loading[1]
  BY <1>0 DEF Top
<1> HIDE DEF n
<1>6. ASSUME NEW k \in 2..(n + 1) PROVE k - 1 \in 1..n /\ loading'[k] = loading[k - 1]
  <2>1. k - 1 \in 1..n /\ (k - 1) + 1 = k
    BY <1>4
  <2> QED BY <1>4, <2>1
<1>7. ASSUME NEW k \in 1..(n + 1) PROVE k = 1 \/ k \in 2..(n + 1)
  BY <1>4
<1>8. \A m \in DOMAIN sections : m # name => m \in DOMAIN sections' /\ sections'[m] = sections[m]
  BY <1>2
<1>9. name \in DOMAIN sections' /\ sections'[name] = <<>>
  BY <1>2
<1>10. LoaderTypes'
  <2>1. ASSUME NEW m \in DOMAIN sections' PROVE sections'[m] \in Seq(Word)
    <3>1. m # name => m \in DOMAIN sections
      BY <1>2
    <3>2. m # name => sections[m] \in Seq(Word) /\ sections'[m] = sections[m]
      BY <1>8, <3>1 DEF LoaderInv, LoaderTypes
    <3>3. <<>> \in Seq(Word)
      OBVIOUS
    <3> QED BY <1>9, <3>2, <3>3
  <2>2. /\ files' \in World /\ resolvers' \subseteq File'
        /\ thrown' \in {"none", "library", "logic_error", "stack"}
    BY DEF LoaderInv, LoaderTypes, File
  <2>3. DOMAIN sections' \subseteq File'
    BY <1>2 DEF LoaderInv, LoaderTypes, File
  <2>4. loading' \in Seq(FramesOf(files'))
    BY <1>4
  <2> QED BY <2>1, <2>2, <2>3, <2>4 DEF LoaderTypes, Word
<1>11. Nested'
  <2> SUFFICES ASSUME NEW k \in 2..(n + 1)
               PROVE  loading'[k].imports # <<>> /\ loading'[k - 1].name = Head(loading'[k].imports)
    BY <1>4 DEF Nested
  <2>1. CASE k = 2
    <3>1. loading'[k] = loading[1] /\ loading'[k - 1] = frame
      BY <1>4, <1>6, <2>1
    <3>2. n # 0
      BY <1>4, <2>1
    <3> QED BY <1>3, <1>5, <3>1, <3>2
  <2>2. CASE k # 2
    <3>1. k - 1 \in 2..(n + 1) /\ k - 1 \in 2..n /\ (k - 1) - 1 \in 1..n
      BY <1>4, <2>2
    <3> DEFINE l == k - 1
    <3> HIDE DEF l
    <3>2. loading[l].imports # <<>> /\ loading[l - 1].name = Head(loading[l].imports)
      BY <3>1 DEF LoaderInv, Nested, n, l
    <3>3. loading'[k] = loading[l]
      BY <1>6 DEF l
    <3>4. loading'[l] = loading[l - 1]
      BY <1>6, <3>1 DEF l
    <3> QED BY <3>2, <3>3, <3>4 DEF l
  <2> QED BY <2>1, <2>2
<1>12. Unloaded'
  <2> SUFFICES ASSUME NEW k \in 1..(n + 1) PROVE loading'[k].name \notin resolvers
    BY <1>4 DEF Unloaded
  <2>1. CASE k = 1
    BY <1>3, <1>4, <2>1
  <2>2. CASE k \in 2..(n + 1)
    <3>1. k - 1 \in 1..n /\ loading'[k] = loading[k - 1]
      BY <1>6, <2>2
    <3> DEFINE l == k - 1
    <3> HIDE DEF l
    <3>2. l \in 1..n /\ loading'[k] = loading[l]
      BY <3>1 DEF l
    <3>3. loading[l].name \notin resolvers
      BY <3>2 DEF LoaderInv, Unloaded, n
    <3> QED BY <3>2, <3>3
  <2> QED BY <1>7, <2>1, <2>2
<1>13. Awaited'
  <2> SUFFICES ASSUME NEW k \in 1..(n + 1)
               PROVE  ToSet(files[loading'[k].name].imports) \subseteq resolvers \cup ToSet(loading'[k].imports)
    BY <1>4 DEF Awaited
  <2>1. CASE k = 1
    <3>1. loading'[k] = frame
      BY <1>4, <2>1
    <3> QED BY <1>1, <1>3, <3>1
  <2>2. CASE k \in 2..(n + 1)
    <3>1. k - 1 \in 1..n /\ loading'[k] = loading[k - 1]
      BY <1>6, <2>2
    <3> DEFINE l == k - 1
    <3> HIDE DEF l
    <3>2. l \in 1..n /\ loading'[k] = loading[l]
      BY <3>1 DEF l
    <3>3. ToSet(files[loading[l].name].imports) \subseteq resolvers \cup ToSet(loading[l].imports)
      BY <3>2 DEF LoaderInv, Awaited, n
    <3> QED BY <3>2, <3>3
  <2> QED BY <1>7, <2>1, <2>2
<1>14. UnderWay'
  <2> SUFFICES ASSUME NEW k \in 1..(n + 1), Innermost(k)'
               PROVE  /\ loading'[k].name \in DOMAIN sections'
                      /\ Progress(loading'[k], sections'[loading'[k].name], files'[loading'[k].name])
    BY <1>4 DEF UnderWay
  <2>1. CASE k = 1
    <3>1. loading'[k] = frame /\ loading'[k].name = name
      BY <1>3, <1>4, <2>1
    <3> QED BY <1>1, <1>9, <3>1
  <2>2. CASE k \in 2..(n + 1)
    <3> DEFINE l == k - 1
    <3>1. l \in 1..n /\ loading'[k] = loading[l]
      BY <1>6, <2>2
    <3>2. \A j \in 1..l : loading'[j].name # loading[l].name
      BY <3>1 DEF Innermost
    <3> HIDE DEF l
    <3>3. ASSUME NEW j \in 1..(l - 1) PROVE loading[j].name # loading[l].name
      <4>1. j + 1 \in 1..l /\ j \in 1..n
        BY <1>4, <3>1
      <4>2. loading'[j + 1] = loading[j]
        BY <1>4, <4>1
      <4>3. loading'[j + 1].name # loading[l].name
        BY <3>2, <4>1
      <4> QED BY <4>2, <4>3
    <3>4. Innermost(l)
      BY <3>3 DEF Innermost
    <3>5. 1 \in 1..l
      BY <3>1
    <3>6. loading[l].name # name
      BY <1>3, <1>4, <3>2, <3>5
    <3>7. loading[l].name \in DOMAIN sections
          /\ Progress(loading[l], sections[loading[l].name], files[loading[l].name])
      BY <3>1, <3>4 DEF LoaderInv, UnderWay, n
    <3>8. sections'[loading[l].name] = sections[loading[l].name]
          /\ loading[l].name \in DOMAIN sections'
      BY <1>8, <3>6, <3>7
    <3> QED BY <3>1, <3>7, <3>8
  <2> QED BY <1>7, <2>1, <2>2
<1>15. Complete'
  <2> SUFFICES ASSUME NEW m \in resolvers
               PROVE  /\ m \in DOMAIN sections'
                      /\ ToSet(files[m].imports) \subseteq resolvers
                      /\ sections'[m] = Relocated(m, files[m], Flat(Program(files[m])),
                                                  Len(Flat(Program(files[m]))))
    BY DEF Complete
  <2>1. /\ m \in DOMAIN sections
        /\ ToSet(files[m].imports) \subseteq resolvers
        /\ sections[m] = Relocated(m, files[m], Flat(Program(files[m])),
                                   Len(Flat(Program(files[m]))))
    BY DEF LoaderInv, Complete
  <2>2. m # name
    OBVIOUS
  <2> QED BY <1>8, <2>1, <2>2
<1> QED BY <1>10, <1>11, <1>12, <1>13, <1>14, <1>15 DEF LoaderInv

-----------------------------------------------------------------------------
(* What an operation makes of a frame *)

LEMMA TailIs ==
  ASSUME NEW S, NEW s \in Seq(S), s # <<>>
  PROVE  Tail(s) \in Seq(S) /\ Head(s) \in S
OBVIOUS

LEMMA ImportedKeeps ==
  ASSUME NEW name, NEW file, NEW frame \in Frames(name, file), frame.imports # <<>>,
         NEW section, Progress(frame, section, file)
  PROVE  /\ Imported(frame) \in Frames(name, file)
         /\ Imported(frame).imports = Tail(frame.imports)
         /\ Progress(Imported(frame), section, file)
<1> DEFINE new == Imported(frame)
           flat == Flat(Program(file))
<1>1. frame.imports \in Seq(ToSet(file.imports))
  BY DEF Frames
<1>2. Tail(frame.imports) \in Seq(ToSet(file.imports))
  <2> DEFINE u == frame.imports
             S == ToSet(file.imports)
  <2>1. u \in Seq(S) /\ u # <<>>
    BY <1>1
  <2> HIDE DEF u, S
  <2>2. Tail(u) \in Seq(S)
    BY <2>1, TailIs
  <2> QED BY <2>2 DEF u, S
<1>3. new = [frame EXCEPT !.imports = Tail(frame.imports)]
  BY DEF Imported
<1> HIDE DEF new
<1>4. new \in Frames(name, file) /\ new.imports = Tail(frame.imports)
  BY <1>2, <1>3 DEF Frames
<1>5. /\ new.name = frame.name /\ new.pattern = frame.pattern /\ new.program = frame.program
      /\ new.data = frame.data
      /\ new.relocAddress = frame.relocAddress /\ new.importIndex = frame.importIndex
      /\ new.sectionC = frame.sectionC /\ new.sectionD = frame.sectionD
  BY <1>3 DEF Frames
<1>6. PICK j \in 0..Len(flat) : Reached(frame, section, file, flat, j)
  BY DEF Progress
<1>7. Reached(new, section, file, flat, j)
  BY <1>5, <1>6 DEF Reached
<1>8. Progress(new, section, file)
  BY <1>6, <1>7 DEF Progress
<1> QED BY <1>4, <1>8 DEF new

LEMMA OperatedKeeps ==
  ASSUME NEW name, NEW file, WellFormed(file), NEW frame \in Frames(name, file), frame.pattern # <<>>,
         NEW section \in Seq(Word), Progress(frame, section, file)
  PROVE  /\ Operated(frame) \in Frames(name, file)
         /\ Operated(frame).imports = frame.imports
         /\ section \o Unpacked(Head(frame.pattern)) \in Seq(Word)
         /\ Progress(Operated(frame), section \o Unpacked(Head(frame.pattern)), file)
<1> DEFINE new == Operated(frame)
           flat == Flat(Program(file))
           p == frame.pattern
           S == ToSet(file.pattern)
           x == Unpacked(Head(p))
           t == Tail(p)
           r == Unpacking(t)
           u == Original(file)
           s == section \o x
<1>1. \A o \in S : Unpacked(o) \in Seq(Word)
  BY WellFormedIs
<1>2. p \in Seq(S)
  BY DEF Frames
<1>3. new = [frame EXCEPT !.pattern = Tail(frame.pattern)]
  BY DEF Operated
<1>4. PICK j \in 0..Len(flat) : Reached(frame, section, file, flat, j)
  BY DEF Progress
<1>5. t \in Seq(S) /\ Head(p) \in S
  <2> HIDE DEF p, S
  <2> QED BY <1>2, TailIs DEF p
<1>6. Unpacking(p) = x \o r
  <2> HIDE DEF S
  <2> QED BY <1>1, <1>2, UnpackingFirst
<1>7. x \in Seq(Word)
  BY <1>1, <1>5
<1>8. r \in Seq(Word)
  <2> HIDE DEF t, S
  <2> QED BY <1>1, <1>5, UnpackingType
<1>9. j = 0 /\ section \o Unpacking(p) = u
  BY <1>4 DEF Reached
<1>10. s \in Seq(Word)
  <2> HIDE DEF x
  <2> QED BY <1>7
<1>11. t = <<>> => r = <<>>
  BY UnpackingNone
<1>12. Relocated(name, file, flat, 0) = u
  BY RelocatedFirst
<1>13. u \in Seq(Word)
  BY OriginalType
<1> HIDE DEF new
<1>14. new \in Frames(name, file)
  BY <1>3, <1>5 DEF Frames
<1>15. /\ new.name = frame.name /\ new.pattern = t /\ new.program = frame.program
       /\ new.data = frame.data
       /\ new.relocAddress = frame.relocAddress /\ new.importIndex = frame.importIndex
       /\ new.sectionC = frame.sectionC /\ new.sectionD = frame.sectionD
       /\ new.imports = frame.imports /\ frame.name = name
  BY <1>3 DEF Frames
<1> HIDE DEF p, x, t, r, u, S, flat, s
<1>16. s \o r = u
  <2>1. (section \o x) \o r = section \o (x \o r)
    <3>1. \A a, b, c \in Seq(Word) : (a \o b) \o c = a \o (b \o c)
      OBVIOUS
    <3> QED BY <1>7, <1>8, <3>1, Zenon
  <2> QED BY <1>6, <1>9, <2>1 DEF s
<1>17. t = <<>> => s = u
  <2>1. s \o <<>> = s
    BY <1>10
  <2> QED BY <1>11, <1>16, <2>1
<1>18. Reached(new, s, file, flat, j)
  <2>1. new.pattern = <<>> => s = Relocated(new.name, file, flat, j)
    BY <1>9, <1>12, <1>15, <1>17
  <2>2. new.pattern # <<>> => j = 0 /\ s \o Unpacking(new.pattern) = Original(file)
    BY <1>9, <1>15, <1>16 DEF r, u
  <2> QED BY <1>4, <1>15, <2>1, <2>2 DEF Reached
<1>19. Progress(new, s, file)
  BY <1>4, <1>18 DEF Progress, flat
<1> QED BY <1>10, <1>14, <1>15, <1>19 DEF new, s, x, p

LEMMA RepeatKeeps ==
  ASSUME NEW name, NEW file, WellFormed(file), NEW frame \in Frames(name, file), frame.program # <<>>,
         NEW i, i = Program(file)[Head(frame.program)], i.op = "SmallRepeat",
         NEW section, Progress(frame, section, file)
  PROVE  /\ Repeat(frame, i) \in Frames(name, file)
         /\ Repeat(frame, i).imports = frame.imports
         /\ Progress(Repeat(frame, i), section, file)
<1> DEFINE new == Repeat(frame, i)
           program == Program(file)
           flat == Flat(program)
           ks == frame.program
           js == Times(i.times, [k \in 1..i.blocks |-> Head(ks) - i.blocks + k - 1]) \o Tail(ks)
           S == ToSet(program)
<1>1. program \in Seq(S) /\ Repeats(program)
  BY WellFormedIs
<1>2. ks \in Seq(1..Len(program))
  BY DEF Frames
<1>3. new = [frame EXCEPT !.program = js]
  BY DEF Repeat
<1>4. PICK j \in 0..Len(flat) : Reached(frame, section, file, flat, j)
  BY DEF Progress
<1>5. js \in Seq(1..Len(program)) /\ Rest(program, js) = Rest(program, ks)
  <2> HIDE DEF program, ks, S
  <2>1. i = program[Head(ks)] /\ ks # <<>>
    BY DEF program, ks
  <2> QED BY <1>1, <1>2, <2>1, RestRepeated
<1> HIDE DEF new, js
<1>6. new \in Frames(name, file)
  BY <1>3, <1>5 DEF Frames
<1>7. /\ new.name = frame.name /\ new.pattern = frame.pattern /\ new.program = js
      /\ new.data = frame.data
      /\ new.relocAddress = frame.relocAddress /\ new.importIndex = frame.importIndex
      /\ new.sectionC = frame.sectionC /\ new.sectionD = frame.sectionD
      /\ new.imports = frame.imports
  BY <1>3 DEF Frames
<1> HIDE DEF flat
<1>8. Reached(new, section, file, flat, j)
  BY <1>4, <1>5, <1>7 DEF Reached
<1>9. Progress(new, section, file)
  BY <1>4, <1>8 DEF Progress, flat
<1> QED BY <1>6, <1>7, <1>9 DEF new

\* What an instruction does to the machine.
Located(i, data) == IF i.op = "Relocator" THEN i.data ELSE data
Selected(name, op, default, i, section) ==
  IF i.op = op THEN SectionAddress(name, i.index)
  ELSE IF i.op = "Relocator" THEN SectionAddress(name, default) ELSE section

LEMMA ApplyIs ==
  ASSUME NEW name \in Library, NEW file, NEW frame \in Frames(name, file), frame.program # <<>>,
         NEW i, Instruction(i)
  PROVE  /\ Apply(frame, i) \in Frames(name, file)
         /\ Apply(frame, i).name = name /\ Apply(frame, i).pattern = frame.pattern
         /\ Apply(frame, i).imports = frame.imports
         /\ Apply(frame, i).program = Tail(frame.program)
         /\ Apply(frame, i).data = Located(i, frame.data)
         /\ Apply(frame, i).relocAddress = Advanced(i, frame.relocAddress)
         /\ Apply(frame, i).importIndex = Counting(i, frame.importIndex)
         /\ Apply(frame, i).sectionC = Selected(name, "SetSectC", 0, i, frame.sectionC)
         /\ Apply(frame, i).sectionD = Selected(name, "SetSectD", 1, i, frame.sectionD)
<1> DEFINE base == Located(i, frame.data)
           to == Advanced(i, frame.relocAddress)
           index == Counting(i, frame.importIndex)
           c == Selected(name, "SetSectC", 0, i, frame.sectionC)
           d == Selected(name, "SetSectD", 1, i, frame.sectionD)
           t == Tail(frame.program)
           new == Apply(frame, i)
<1>1. /\ frame.name = name /\ frame.data \in Nat /\ frame.relocAddress \in Nat /\ frame.importIndex \in Nat
      /\ frame.sectionC \in Nat /\ frame.sectionD \in Nat /\ frame.program \in Seq(1..Len(Program(file)))
  BY DEF Frames
<1>2. to \in Nat /\ base \in Nat
  <2>1. Len(Words(i)) \in Nat
    BY DEF Instruction
  <2>2. (i.op = "SetPosition" => i.to \in Nat) /\ (i.op = "Relocator" => i.data \in Nat)
    BY DEF Instruction
  <2> QED BY <1>1, <2>1, <2>2 DEF Advanced, Located
<1>3. Imports(i) \in Nat
  BY ImportsNat
<1>4. index \in Nat
  <2>1. i.op = "Import" => i.index \in Nat
    BY DEF Instruction
  <2> QED BY <1>1, <1>3, <2>1 DEF Counting
<1>5. i.op # "Relocator" => index = FirstImport(frame, i) + Imports(i)
  BY ImportsOne DEF FirstImport, Counting
<1>6. c \in Nat /\ d \in Nat
  <2>1. i.op \in {"SetSectC", "SetSectD"} => i.index \in SectionIndex
    BY DEF Instruction
  <2>2. 0 \in SectionIndex /\ 1 \in SectionIndex
    BY LoaderAssumption DEF SectionIndex
  <2> QED BY <1>1, <2>1, <2>2, LoaderAssumption DEF Selected
<1>7. t \in Seq(1..Len(Program(file)))
  <2> DEFINE u == frame.program
             S == 1..Len(Program(file))
  <2>1. u \in Seq(S) /\ u # <<>>
    BY <1>1
  <2> HIDE DEF u, S
  <2>2. Tail(u) \in Seq(S)
    BY <2>1, TailIs
  <2> QED BY <2>2 DEF u, S
<1>8. new = [frame EXCEPT !.program = t, !.data = base, !.relocAddress = to, !.importIndex = index,
                          !.sectionC = c, !.sectionD = d]
  <2>1. CASE i.op = "Relocator"
    BY <1>1, <2>1 DEF Apply, Located, Advanced, Counting, Selected
  <2>2. CASE i.op # "Relocator"
    <3>1. base = frame.data
      BY <2>2 DEF Located
    <3>2. to = IF i.op = "SetPosition" THEN i.to ELSE frame.relocAddress + Len(Words(i))
      BY <2>2 DEF Advanced
    <3>3. c = IF i.op = "SetSectC" THEN SectionAddress(name, i.index) ELSE frame.sectionC
      BY <2>2 DEF Selected
    <3>4. d = IF i.op = "SetSectD" THEN SectionAddress(name, i.index) ELSE frame.sectionD
      BY <2>2 DEF Selected
    <3> HIDE DEF base, to, index, c, d
    <3>5. new = [frame EXCEPT !.program = t, !.relocAddress = to, !.importIndex = index,
                              !.sectionC = c, !.sectionD = d]
      BY <1>1, <1>5, <2>2, <3>2, <3>3, <3>4 DEF Apply
    <3> HIDE DEF new, t
    <3>6. [frame EXCEPT !.program = t, !.data = base, !.relocAddress = to, !.importIndex = index,
                        !.sectionC = c, !.sectionD = d]
            = [frame EXCEPT !.program = t, !.relocAddress = to, !.importIndex = index,
                            !.sectionC = c, !.sectionD = d]
      BY <3>1 DEF Frames
    <3> QED BY <3>5, <3>6
  <2> QED BY <2>1, <2>2
<1> HIDE DEF base, to, index, c, d, t, new
<1>9. new \in Frames(name, file)
  BY <1>2, <1>4, <1>6, <1>7, <1>8 DEF Frames
<1>10. /\ new.name = name /\ new.pattern = frame.pattern /\ new.imports = frame.imports
       /\ new.program = t /\ new.data = base /\ new.relocAddress = to /\ new.importIndex = index
       /\ new.sectionC = c /\ new.sectionD = d
  BY <1>1, <1>8 DEF Frames
<1> QED BY <1>9, <1>10 DEF new, base, to, index, c, d, t

LEMMA ApplyKeeps ==
  ASSUME NEW name \in Library, NEW file, WellFormed(file), file = files[name],
         NEW frame \in Frames(name, file), frame.program # <<>>, frame.pattern = <<>>,
         NEW i, i = Program(file)[Head(frame.program)], i.op # "SmallRepeat",
         NEW section, Progress(frame, section, file)
  PROVE  /\ Apply(frame, i) \in Frames(name, file)
         /\ Apply(frame, i).imports = frame.imports
         /\ Add(section, frame, i) \in Seq(Word)
         /\ Progress(Apply(frame, i), Add(section, frame, i), file)
<1> DEFINE new == Apply(frame, i)
           program == Program(file)
           flat == Flat(program)
           ks == frame.program
           S == ToSet(program)
           rest == Rest(program, Tail(ks))
<1>1. /\ program \in Seq(S) /\ Repeats(program) /\ flat \in Seq(S) /\ Instructions(flat)
      /\ \A o \in S : Instruction(o)
  BY WellFormedIs
<1>2. ks \in Seq(1..Len(program)) /\ frame.name = name
  BY DEF Frames
<1>3. PICK j \in 0..Len(flat) : Reached(frame, section, file, flat, j)
  BY DEF Progress
<1> HIDE DEF program, flat, ks, S
<1>4. Head(ks) \in 1..Len(program) /\ Tail(ks) \in Seq(1..Len(program)) /\ ks # <<>>
  <2>1. ks # <<>>
    BY DEF ks
  <2> QED BY <1>2, <2>1, TailIs
<1>5. i = program[Head(ks)]
  BY DEF program, ks
<1>6. i \in S
  BY <1>1, <1>4, <1>5
<1>7. Instruction(i)
  BY <1>1, <1>6
<1>8. Rest(program, ks) = <<i>> \o rest
  <2>1. program[Head(ks)].op # "SmallRepeat"
    BY <1>5
  <2> QED BY <1>1, <1>2, <1>4, <1>5, <2>1, RestWritten
<1>9. rest \in Seq(S)
  BY <1>1, <1>4, RestTypes
<1> HIDE DEF rest
<1>10. Remains(<<i>> \o rest, flat, j)
  BY <1>3, <1>8 DEF Reached, program, ks
<1>11. j \in Nat /\ Len(flat) \in Nat
  BY <1>1
<1>12. j + 1 \in 1..Len(flat) /\ flat[j + 1] = i /\ Remains(rest, flat, j + 1)
  <2>1. flat \in Seq(S) /\ rest \in Seq(S) /\ i \in S /\ j \in Nat /\ Remains(<<i>> \o rest, flat, j)
    BY <1>1, <1>6, <1>9, <1>10, <1>11
  <2> QED BY <2>1, RemainsNext
<1>13. /\ frame.data = Data(flat, j + 1)
       /\ frame.relocAddress = Start(flat, j + 1) /\ frame.importIndex = ImportAt(flat, j + 1)
       /\ frame.sectionC = SectionAt(name, "SetSectC", 0, flat, j + 1)
       /\ frame.sectionD = SectionAt(name, "SetSectD", 1, flat, j + 1)
       /\ section = Relocated(name, file, flat, j)
  BY <1>2, <1>3 DEF Reached
<1>14. flat = Flat(Program(file))
  BY DEF flat, program
<1>15. Add(section, frame, i) = Relocated(name, file, flat, j + 1)
  <2>1. Add(Relocated(name, file, flat, j), frame, flat[j + 1]) = Relocated(name, file, flat, j + 1)
    BY <1>2, <1>11, <1>12, <1>13, <1>14, RelocatedNext
  <2> QED BY <1>12, <1>13, <2>1
<1> DEFINE m == j + 1
<1>16. m \in 0..Len(flat) /\ m \in 1..Len(flat) /\ m \in Nat /\ m # 0 /\ flat[m] = i
  BY <1>11, <1>12
<1>17. Relocated(name, file, flat, j + 1) \in Seq(Word)
  <2>1. Relocated(name, file, flat, m) \in Seq(Word)
    <3> HIDE DEF m
    <3> QED BY <1>14, <1>16, RelocatedType
  <2> QED BY <2>1
<1>18. Start(flat, m + 1) = Advanced(i, Start(flat, m)) /\ Data(flat, m + 1) = Located(i, Data(flat, m))
  <2> HIDE DEF m
  <2>1. Start(flat, m + 1) = Advanced(i, Start(flat, m))
    BY <1>1, <1>16, Starts
  <2> QED BY <1>16, <2>1, DataNext DEF Located
<1>19. ImportAt(flat, m + 1) = Counting(i, ImportAt(flat, m))
  <2> HIDE DEF m
  <2> QED BY <1>1, <1>16, ImportIndices
<1>20. SectionAt(name, "SetSectC", 0, flat, m + 1)
         = Selected(name, "SetSectC", 0, i, SectionAt(name, "SetSectC", 0, flat, m))
  <2> DEFINE op == "SetSectC"
             default == 0
  <2>1. op # "Relocator"
    OBVIOUS
  <2> HIDE DEF m, op, default
  <2>2. SectionFollows(name, op, default, flat, m)
    BY <1>16, <2>1, SectionAtNext
  <2> QED BY <1>16, <2>2 DEF SectionFollows, Selected, op, default
<1>21. SectionAt(name, "SetSectD", 1, flat, m + 1)
         = Selected(name, "SetSectD", 1, i, SectionAt(name, "SetSectD", 1, flat, m))
  <2> DEFINE op == "SetSectD"
             default == 1
  <2>1. op # "Relocator"
    OBVIOUS
  <2> HIDE DEF m, op, default
  <2>2. SectionFollows(name, op, default, flat, m)
    BY <1>16, <2>1, SectionAtNext
  <2> QED BY <1>16, <2>2 DEF SectionFollows, Selected, op, default
<1>22. /\ new \in Frames(name, file) /\ new.name = name /\ new.pattern = frame.pattern
       /\ new.imports = frame.imports /\ new.program = Tail(ks)
       /\ new.data = Located(i, frame.data)
       /\ new.relocAddress = Advanced(i, frame.relocAddress)
       /\ new.importIndex = Counting(i, frame.importIndex)
       /\ new.sectionC = Selected(name, "SetSectC", 0, i, frame.sectionC)
       /\ new.sectionD = Selected(name, "SetSectD", 1, i, frame.sectionD)
  BY <1>7, ApplyIs DEF ks
<1> DEFINE s == Add(section, frame, i)
<1> HIDE DEF new, s
<1>23. frame.data = Data(flat, m) /\ frame.relocAddress = Start(flat, m) /\ frame.importIndex = ImportAt(flat, m)
       /\ frame.sectionC = SectionAt(name, "SetSectC", 0, flat, m)
       /\ frame.sectionD = SectionAt(name, "SetSectD", 1, flat, m)
       /\ s = Relocated(name, file, flat, m) /\ Remains(rest, flat, m)
  BY <1>12, <1>13, <1>15 DEF s
<1> HIDE DEF m
<1>24. new.relocAddress = Start(flat, m + 1) /\ new.data = Data(flat, m + 1)
  BY <1>18, <1>22, <1>23
<1>25. new.importIndex = ImportAt(flat, m + 1)
  BY <1>19, <1>22, <1>23
<1>26. /\ new.sectionC = SectionAt(new.name, "SetSectC", 0, flat, m + 1)
       /\ new.sectionD = SectionAt(new.name, "SetSectD", 1, flat, m + 1)
  BY <1>20, <1>21, <1>22, <1>23
<1>27. Remains(Rest(Program(file), new.program), flat, m)
  BY <1>22, <1>23 DEF rest, program
<1>28. Reached(new, s, file, flat, m)
  BY <1>22, <1>23, <1>24, <1>25, <1>26, <1>27 DEF Reached
<1>29. Progress(new, s, file)
  BY <1>14, <1>16, <1>28 DEF Progress
<1>30. s \in Seq(Word)
  BY <1>17, <1>23 DEF m
<1> QED BY <1>22, <1>29, <1>30 DEF new, s

-----------------------------------------------------------------------------
(* The steps *)

LEMMA SectionsAreWords ==
  ASSUME LoaderInv, NEW name \in DOMAIN sections
  PROVE  sections[name] \in Seq(Word)
BY DEF LoaderInv, LoaderTypes

\* The same section.
LEMMA ContinuingHere ==
  ASSUME LoaderInv, loading # <<>>, thrown = "none",
         NEW frame \in Frames(Top.name, files[Top.name]),
         Continue(frame), UNCHANGED <<files, resolvers, sections, thrown>>,
         ToSet(Top.imports) \subseteq resolvers \cup ToSet(frame.imports),
         Progress(frame, sections[Top.name], files[Top.name])
  PROVE  LoaderInv'
<1>1. sections[Top.name] \in Seq(Word)
  BY TopIs
<1> DEFINE section == sections[Top.name]
<1>2. /\ section \in Seq(Word) /\ DOMAIN sections' = DOMAIN sections /\ sections'[Top.name] = section
      /\ \A name \in DOMAIN sections : name # Top.name => sections'[name] = sections[name]
      /\ Progress(frame, section, files[Top.name])
  BY <1>1
<1> HIDE DEF section
<1> QED BY <1>2, Continuing

LEMMA LoadStep ==
  ASSUME LoaderInv, NEW name \in Library, Load(name)
  PROVE  LoaderInv'
<1>1. /\ loading = <<>> /\ thrown = "none" /\ name \in File \ resolvers /\ Begin(name)
      /\ UNCHANGED <<files, resolvers, thrown>>
  BY DEF Load
<1> QED BY <1>1, Beginning

LEMMA ExecutePatternStep ==
  ASSUME LoaderInv, ExecutePattern
  PROVE  LoaderInv'
<1> DEFINE frame == Operated(Top)
           section == sections[Top.name] \o Unpacked(Head(Top.pattern))
           file == files[Top.name]
           old == sections[Top.name]
<1>1. /\ loading # <<>> /\ thrown = "none" /\ Top.pattern # <<>>
      /\ sections' = [sections EXCEPT ![Top.name] = section]
      /\ Continue(frame) /\ UNCHANGED <<files, resolvers, thrown>>
  BY DEF ExecutePattern
<1>2. /\ WellFormed(file) /\ Top \in Frames(Top.name, file) /\ Top.name \in DOMAIN sections
      /\ old \in Seq(Word) /\ Progress(Top, old, file)
  BY <1>1, TopIs
<1>3. /\ frame \in Frames(Top.name, file) /\ frame.imports = Top.imports
      /\ section \in Seq(Word) /\ Progress(frame, section, file)
  <2> HIDE DEF old, file
  <2> QED BY <1>1, <1>2, OperatedKeeps DEF old
<1> HIDE DEF section
<1>4. /\ DOMAIN sections' = DOMAIN sections /\ sections'[Top.name] = section
      /\ \A name \in DOMAIN sections : name # Top.name => sections'[name] = sections[name]
  BY <1>1, <1>2
<1> HIDE DEF frame
<1> QED BY <1>1, <1>3, <1>4, Continuing

\* A library is the first of those that are left, and the rest.
LEMMA FirstAndRest ==
  ASSUME NEW S, NEW s \in Seq(S), s # <<>>
  PROVE  ToSet(s) \subseteq {Head(s)} \cup ToSet(Tail(s)) /\ Head(s) \in ToSet(s)
<1> DEFINE n == Len(s)
           t == Tail(s)
<1>1. n \in Nat /\ n >= 1 /\ DOMAIN s = 1..n /\ Head(s) = s[1]
      /\ DOMAIN t = 1..(n - 1) /\ \A k \in 1..(n - 1) : t[k] = s[k + 1]
  OBVIOUS
<1> HIDE DEF n, t
<1>2. ASSUME NEW k \in 1..n PROVE s[k] \in {Head(s)} \cup ToSet(t)
  <2>1. CASE k = 1
    BY <1>1, <2>1
  <2>2. CASE k # 1
    <3>1. k - 1 \in 1..(n - 1) /\ (k - 1) + 1 = k
      BY <1>1, <2>2
    <3>2. t[k - 1] = s[k] /\ k - 1 \in DOMAIN t
      BY <1>1, <3>1
    <3>3. s[k] \in ToSet(t)
      BY <3>2 DEF ToSet
    <3> QED BY <3>3
  <2> QED BY <2>1, <2>2
<1>3. 1 \in DOMAIN s
  BY <1>1
<1> QED BY <1>1, <1>2, <1>3 DEF ToSet, t

LEMMA Throwing ==
  ASSUME LoaderInv, thrown' \in {"library", "logic_error", "stack"}, UNCHANGED <<files, resolvers, sections, loading>>
  PROVE  LoaderInv'
<1>1. LoaderTypes'
  BY DEF LoaderInv, LoaderTypes, File, Word
<1>2. Nested' /\ Unloaded' /\ Awaited' /\ Complete'
  BY DEF LoaderInv, Nested, Unloaded, Awaited, Complete
<1>3. UnderWay'
  BY DEF UnderWay
<1> QED BY <1>1, <1>2, <1>3 DEF LoaderInv

LEMMA LoadContainerStep ==
  ASSUME LoaderInv, LoadContainer
  PROVE  LoaderInv'
<1> DEFINE name == Head(Top.imports)
<1>1. /\ loading # <<>> /\ thrown = "none" /\ Top.imports # <<>> /\ UNCHANGED <<files, resolvers>>
  BY DEF LoadContainer
<1>2. \/ name \in resolvers /\ Continue(Imported(Top)) /\ UNCHANGED <<sections, thrown>>
      \/ name \notin resolvers /\ name \in File /\ Begin(name) /\ UNCHANGED thrown
      \/ thrown' = "library" /\ UNCHANGED <<loading, sections>>
  BY DEF LoadContainer
<1>3. CASE name \in resolvers /\ Continue(Imported(Top)) /\ UNCHANGED <<sections, thrown>>
  <2> DEFINE frame == Imported(Top)
             file == files[Top.name]
             section == sections[Top.name]
  <2>1. /\ Top \in Frames(Top.name, file) /\ Progress(Top, section, file)
    BY <1>1, TopIs
  <2>2. /\ frame \in Frames(Top.name, file) /\ frame.imports = Tail(Top.imports)
        /\ Progress(frame, section, file)
    <3> HIDE DEF file, section
    <3> QED BY <1>1, <2>1, ImportedKeeps
  <2>3. Top.imports \in Seq(ToSet(file.imports))
    <3> HIDE DEF file
    <3> QED BY <2>1 DEF Frames
  <2>4. ToSet(Top.imports) \subseteq {name} \cup ToSet(Tail(Top.imports))
    <3> DEFINE s == Top.imports
               S == ToSet(file.imports)
    <3>1. s \in Seq(S) /\ s # <<>>
      BY <1>1, <2>3
    <3> HIDE DEF s, S
    <3>2. ToSet(s) \subseteq {Head(s)} \cup ToSet(Tail(s))
      BY <3>1, FirstAndRest
    <3> QED BY <3>2 DEF s
  <2>5. ToSet(Top.imports) \subseteq resolvers \cup ToSet(frame.imports)
    BY <1>3, <2>2, <2>4
  <2> HIDE DEF frame
  <2> QED BY <1>1, <1>3, <2>2, <2>5, ContinuingHere DEF frame
<1>4. CASE name \notin resolvers /\ name \in File /\ Begin(name) /\ UNCHANGED thrown
  <2>1. name \in File \ resolvers /\ UNCHANGED <<files, resolvers, thrown>>
    BY <1>1, <1>4
  <2> QED BY <1>1, <1>4, <2>1, Beginning
<1>5. CASE thrown' = "library" /\ UNCHANGED <<loading, sections>>
  BY <1>1, <1>5, Throwing
<1> QED BY <1>2, <1>3, <1>4, <1>5

LEMMA ExecuteStep ==
  ASSUME LoaderInv, Execute
  PROVE  LoaderInv'
<1> DEFINE file == files[Top.name]
           i == Program(file)[Head(Top.program)]
           section == sections[Top.name]
<1>1. /\ loading # <<>> /\ thrown = "none" /\ Top.pattern = <<>> /\ Top.program # <<>>
      /\ UNCHANGED <<files, resolvers>>
  BY DEF Execute
<1>2. \/ i.op = "SmallRepeat" /\ Continue(Repeat(Top, i)) /\ UNCHANGED <<sections, thrown>>
      \/ thrown' \in {"logic_error", "stack"} /\ UNCHANGED <<loading, sections>>
      \/ /\ i.op # "SmallRepeat" /\ Continue(Apply(Top, i)) /\ UNCHANGED thrown
         /\ sections' = [sections EXCEPT ![Top.name] = Add(section, Top, i)]
  BY DEF Execute
<1>3. /\ WellFormed(file) /\ Top \in Frames(Top.name, file) /\ Top.name \in DOMAIN sections
      /\ section \in Seq(Word) /\ Progress(Top, section, file) /\ Top.name \in Library
  BY <1>1, TopIs
<1> DEFINE t == Top
<1>4. CASE i.op = "SmallRepeat" /\ Continue(Repeat(Top, i)) /\ UNCHANGED <<sections, thrown>>
  <2> DEFINE frame == Repeat(Top, i)
  <2>1. /\ frame \in Frames(Top.name, file) /\ frame.imports = Top.imports
        /\ Progress(frame, section, file)
    <3>1. i = Program(file)[Head(Top.program)] /\ i.op = "SmallRepeat"
      BY <1>4
    <3> HIDE DEF i, file, section
    <3> QED BY <1>1, <1>3, <3>1, RepeatKeeps
  <2> HIDE DEF frame
  <2> QED BY <1>1, <1>4, <2>1, ContinuingHere DEF frame
<1>5. CASE thrown' \in {"logic_error", "stack"} /\ UNCHANGED <<loading, sections>>
  BY <1>1, <1>5, Throwing
<1>6. CASE /\ i.op # "SmallRepeat" /\ Continue(Apply(Top, i)) /\ UNCHANGED thrown
           /\ sections' = [sections EXCEPT ![Top.name] = Add(section, Top, i)]
  <2> DEFINE frame == Apply(Top, i)
             new == Add(section, Top, i)
  <2>1. /\ frame \in Frames(Top.name, file) /\ frame.imports = Top.imports
        /\ new \in Seq(Word) /\ Progress(frame, new, file)
    <3> DEFINE n == Top.name
    <3>1. n \in Library /\ WellFormed(file) /\ file = files[n]
      BY <1>3
    <3>2. t \in Frames(n, file) /\ t.program # <<>> /\ t.pattern = <<>>
      BY <1>1, <1>3
    <3>3. i = Program(file)[Head(t.program)] /\ i.op # "SmallRepeat"
      BY <1>6
    <3>4. Progress(t, section, file)
      BY <1>3
    <3> HIDE DEF i, file, section, n, t
    <3>5. /\ Apply(t, i) \in Frames(n, file) /\ Apply(t, i).imports = t.imports
          /\ Add(section, t, i) \in Seq(Word) /\ Progress(Apply(t, i), Add(section, t, i), file)
      BY <3>1, <3>2, <3>3, <3>4, ApplyKeeps
    <3> QED BY <3>5 DEF t, n
  <2> HIDE DEF new
  <2>2. /\ DOMAIN sections' = DOMAIN sections /\ sections'[Top.name] = new
        /\ \A name \in DOMAIN sections : name # Top.name => sections'[name] = sections[name]
    BY <1>3, <1>6 DEF new
  <2>3. Continue(frame) /\ UNCHANGED <<files, resolvers, thrown>>
    BY <1>1, <1>6
  <2>4. ToSet(Top.imports) \subseteq resolvers \cup ToSet(frame.imports)
    BY <2>1
  <2> HIDE DEF frame, section
  <2> QED BY <1>1, <2>1, <2>2, <2>3, <2>4, Continuing
<1> QED BY <1>2, <1>4, <1>5, <1>6

\* One container less.
LEMMA OneLess ==
  ASSUME NEW S, NEW s \in Seq(S), s # <<>>, NEW t, t = Tail(s)
  PROVE  /\ t \in Seq(S) /\ Len(s) \in Nat /\ Len(t) = Len(s) - 1 /\ Len(t) \in Nat
         /\ \A k \in 1..Len(t) : t[k] = s[k + 1]
OBVIOUS

LEMMA UnwindStep ==
  ASSUME LoaderInv, Unwind
  PROVE  LoaderInv'
<1> DEFINE m == Top.name
<1>1. /\ thrown # "none" /\ loading # <<>> /\ loading' = Tail(loading)
      /\ thrown' = IF thrown = "library" /\ Tail(loading) = <<>> THEN "none" ELSE thrown
      /\ sections' = [n \in DOMAIN sections \ {m} |-> sections[n]]
      /\ UNCHANGED <<files, resolvers>>
  BY DEF Unwind
<1>2. loading \in Seq(FramesOf(files))
  BY DEF LoaderInv, LoaderTypes
<1> DEFINE n == Len(loading')
<1>3. /\ loading' \in Seq(FramesOf(files)) /\ n \in Nat /\ Len(loading) = n + 1
      /\ \A k \in 1..n : loading'[k] = loading[k + 1]
  <2> DEFINE t == loading'
  <2>1. t = Tail(loading)
    BY <1>1
  <2> HIDE DEF t
  <2>2. /\ t \in Seq(FramesOf(files)) /\ Len(t) = Len(loading) - 1 /\ Len(t) \in Nat /\ Len(loading) \in Nat
        /\ \A k \in 1..Len(t) : t[k] = loading[k + 1]
    BY <1>1, <1>2, <2>1, OneLess
  <2>3. Len(loading) = Len(t) + 1
    BY <2>2
  <2> QED BY <2>2, <2>3 DEF t
<1>4. m \notin resolvers
  BY <1>1, TopIs
<1> HIDE DEF n, m
<1>5. ASSUME NEW k \in 1..n PROVE k + 1 \in 1..Len(loading)
  BY <1>3
<1>6. LoaderTypes'
  <2>1. \A name \in DOMAIN sections' : name \in DOMAIN sections /\ sections'[name] = sections[name]
    BY <1>1
  <2>2. \A name \in DOMAIN sections' : sections'[name] \in Seq(Word)
    BY <2>1, SectionsAreWords
  <2>3. thrown' \in {"none", "library", "logic_error", "stack"}
    BY <1>1 DEF LoaderInv, LoaderTypes
  <2>4. files' \in World /\ resolvers' \subseteq File' /\ DOMAIN sections' \subseteq File'
    BY <1>1, <2>1 DEF LoaderInv, LoaderTypes, File
  <2>5. loading' \in Seq(FramesOf(files'))
    BY <1>1, <1>3
  <2> QED BY <2>2, <2>3, <2>4, <2>5 DEF LoaderTypes, Word
<1>7. Nested'
  <2> SUFFICES ASSUME NEW k \in 2..n
               PROVE  loading'[k].imports # <<>> /\ loading'[k - 1].name = Head(loading'[k].imports)
    BY <1>3 DEF Nested, n
  <2>1. k \in 1..n /\ k - 1 \in 1..n /\ (k - 1) + 1 = k /\ k + 1 \in 2..Len(loading) /\ (k + 1) - 1 = k
    BY <1>3
  <2>2. loading'[k] = loading[k + 1] /\ loading'[k - 1] = loading[k]
    <3>1. loading'[k - 1] = loading[(k - 1) + 1]
      BY <1>3, <2>1
    <3> QED BY <1>3, <2>1, <3>1
  <2> DEFINE l == k + 1
  <2>3. l \in 2..Len(loading) /\ l - 1 = k
    BY <2>1
  <2> HIDE DEF l
  <2>4. loading[l].imports # <<>> /\ loading[l - 1].name = Head(loading[l].imports)
    BY <2>3 DEF LoaderInv, Nested
  <2> QED BY <2>2, <2>3, <2>4 DEF l
<1>8. Unloaded'
  <2> SUFFICES ASSUME NEW k \in 1..n PROVE loading'[k].name \notin resolvers
    BY <1>1, <1>3 DEF Unloaded, n
  <2> DEFINE l == k + 1
  <2>1. l \in 1..Len(loading) /\ loading'[k] = loading[l]
    BY <1>3, <1>5
  <2> HIDE DEF l
  <2>2. loading[l].name \notin resolvers
    BY <2>1 DEF LoaderInv, Unloaded
  <2> QED BY <2>1, <2>2
<1>9. Awaited'
  <2> SUFFICES ASSUME NEW k \in 1..n
               PROVE  ToSet(files[loading'[k].name].imports) \subseteq resolvers \cup ToSet(loading'[k].imports)
    BY <1>1, <1>3 DEF Awaited, n
  <2> DEFINE l == k + 1
  <2>1. l \in 1..Len(loading) /\ loading'[k] = loading[l]
    BY <1>3, <1>5
  <2> HIDE DEF l
  <2>2. ToSet(files[loading[l].name].imports) \subseteq resolvers \cup ToSet(loading[l].imports)
    BY <2>1 DEF LoaderInv, Awaited
  <2> QED BY <2>1, <2>2
<1>10. UnderWay'
  <2>1. thrown' = "none" => loading' = <<>>
    BY <1>1
  <2>2. loading' = <<>> => n = 0
    BY DEF n
  <2> QED BY <2>1, <2>2 DEF UnderWay, n
<1>11. Complete'
  <2> SUFFICES ASSUME NEW name \in resolvers
               PROVE  /\ name \in DOMAIN sections'
                      /\ ToSet(files[name].imports) \subseteq resolvers
                      /\ sections'[name] = Relocated(name, files[name], Flat(Program(files[name])),
                                                     Len(Flat(Program(files[name]))))
    BY <1>1 DEF Complete
  <2>1. /\ name \in DOMAIN sections
        /\ ToSet(files[name].imports) \subseteq resolvers
        /\ sections[name] = Relocated(name, files[name], Flat(Program(files[name])),
                                      Len(Flat(Program(files[name]))))
    BY DEF LoaderInv, Complete
  <2>2. name # m
    BY <1>4
  <2>3. name \in DOMAIN sections' /\ sections'[name] = sections[name]
    BY <1>1, <2>1, <2>2
  <2> QED BY <2>1, <2>3
<1> QED BY <1>6, <1>7, <1>8, <1>9, <1>10, <1>11 DEF LoaderInv

LEMMA RestNone ==
  ASSUME NEW program
  PROVE  Rest(program, <<>>) = <<>>
<1> DEFINE e == <<>>
           E == Expansion(program)
           c == Mapped(E, e)
<1>1. Len(e) = 0
  OBVIOUS
<1>2. c = <<>>
  <2> HIDE DEF e, E
  <2> QED BY <1>1 DEF Mapped
<1>3. Rest(program, <<>>) = FlattenSeq(c)
  BY DEF Rest
<1> HIDE DEF c
<1> QED BY <1>2, <1>3, FlattenEmpty

\* A container of which nothing is left.
LEMMA NothingLeft ==
  ASSUME NEW name, NEW file, WellFormed(file), NEW frame \in Frames(name, file),
         frame.pattern = <<>>, frame.program = <<>>, NEW section, Progress(frame, section, file)
  PROVE  section = Relocated(name, file, Flat(Program(file)), Len(Flat(Program(file))))
<1> DEFINE flat == Flat(Program(file))
<1>1. PICK j \in 0..Len(flat) : Reached(frame, section, file, flat, j)
  BY DEF Progress
<1>2. flat \in Seq(ToSet(Program(file)))
  BY WellFormedIs
<1>3. frame.name = name
  BY DEF Frames
<1>4. Rest(Program(file), frame.program) = <<>>
  BY RestNone
<1> HIDE DEF flat
<1>5. Remains(<<>>, flat, j) /\ section = Relocated(name, file, flat, j)
  BY <1>1, <1>3, <1>4 DEF Reached
<1>6. j \in Nat
  BY <1>1, <1>2
<1>7. j = Len(flat)
  BY <1>2, <1>5, <1>6, RemainsNone
<1> QED BY <1>5, <1>7 DEF flat

LEMMA HeadIn ==
  ASSUME NEW S, NEW s \in Seq(S), s # <<>>
  PROVE  Head(s) \in S
OBVIOUS

\* No container that waits is the one within which nothing is left.
LEMMA NotTwice ==
  ASSUME LoaderInv, loading # <<>>, Top.imports = <<>>, NEW k \in 2..Len(loading)
  PROVE  loading[k].name # Top.name
<1> DEFINE m == Top.name
           l == k - 1
<1>1. loading \in Seq(FramesOf(files)) /\ Len(loading) \in Nat
  BY DEF LoaderInv, LoaderTypes
<1>2. k \in 1..Len(loading) /\ l \in 1..Len(loading) /\ 1 \in 1..Len(loading)
  BY <1>1
<1>3. loading[k].imports # <<>> /\ loading[l].name = Head(loading[k].imports)
  BY DEF LoaderInv, Nested
<1> HIDE DEF l
<1>4. loading[l].name \notin resolvers
  BY <1>2 DEF LoaderInv, Unloaded
<1>5. Top = loading[1]
  BY TopIs
<1>6. ToSet(files[m].imports) \subseteq resolvers \cup ToSet(Top.imports)
  BY <1>2, <1>5 DEF LoaderInv, Awaited
<1>7. ToSet(Top.imports) = {}
  <2> DEFINE e == <<>>
  <2>1. DOMAIN e = {}
    OBVIOUS
  <2> HIDE DEF e
  <2>2. ToSet(e) = {}
    BY <2>1 DEF ToSet
  <2> QED BY <2>2 DEF e
<1>8. loading[k] \in FramesOf(files)
  BY <1>1, <1>2
<1>9. loading[k] \in Frames(loading[k].name, files[loading[k].name])
  BY <1>8, FrameIs
<1>10. loading[k].imports \in Seq(ToSet(files[loading[k].name].imports))
  BY <1>9 DEF Frames
<1> HIDE DEF m
<1> SUFFICES ASSUME loading[k].name = m PROVE FALSE
  BY DEF m
<1> DEFINE s == loading[k].imports
           S == ToSet(files[m].imports)
<1>11. s \in Seq(S) /\ s # <<>>
  BY <1>3, <1>10
<1> HIDE DEF s, S
<1>12. Head(s) \in S
  BY <1>11, HeadIn
<1> QED BY <1>3, <1>4, <1>6, <1>7, <1>12 DEF s, S

LEMMA LoadedStep ==
  ASSUME LoaderInv, Loaded
  PROVE  LoaderInv'
<1> DEFINE m == Top.name
           n == Len(loading')
<1>1. /\ loading # <<>> /\ thrown = "none"
      /\ Top.pattern = <<>> /\ Top.imports = <<>> /\ Top.program = <<>>
      /\ resolvers' = resolvers \cup {m} /\ loading' = Tail(loading)
      /\ UNCHANGED <<files, sections, thrown>>
  BY DEF Loaded
<1>2. loading \in Seq(FramesOf(files))
  BY DEF LoaderInv, LoaderTypes
<1>3. /\ loading' \in Seq(FramesOf(files)) /\ n \in Nat /\ Len(loading) = n + 1
      /\ \A k \in 1..n : loading'[k] = loading[k + 1]
  <2> DEFINE t == loading'
  <2>1. t = Tail(loading)
    BY <1>1
  <2> HIDE DEF t
  <2>2. /\ t \in Seq(FramesOf(files)) /\ Len(t) = Len(loading) - 1 /\ Len(t) \in Nat /\ Len(loading) \in Nat
        /\ \A k \in 1..Len(t) : t[k] = loading[k + 1]
    BY <1>1, <1>2, <2>1, OneLess
  <2>3. Len(loading) = Len(t) + 1
    BY <2>2
  <2> QED BY <2>2, <2>3 DEF t
<1>4. /\ Top = loading[1] /\ m \in File /\ WellFormed(files[m]) /\ Top \in Frames(m, files[m])
      /\ m \in DOMAIN sections /\ Progress(Top, sections[m], files[m])
  BY <1>1, TopIs
<1>5. \A k \in 2..Len(loading) : loading[k].name # m
  BY <1>1, NotTwice
<1>6. sections[m] = Relocated(m, files[m], Flat(Program(files[m])), Len(Flat(Program(files[m]))))
  <2> DEFINE file == files[m]
             frame == Top
             section == sections[m]
  <2>1. WellFormed(file) /\ frame \in Frames(m, file)
    BY <1>4
  <2>2. frame.pattern = <<>> /\ frame.program = <<>>
    BY <1>1
  <2>3. Progress(frame, section, file)
    BY <1>4
  <2> HIDE DEF file, frame, section, m
  <2>4. section = Relocated(m, file, Flat(Program(file)), Len(Flat(Program(file))))
    BY <2>1, <2>2, <2>3, NothingLeft
  <2> QED BY <2>4 DEF section, file
<1>7. ToSet(files[m].imports) \subseteq resolvers
  <2>1. 1 \in 1..Len(loading)
    BY <1>3
  <2>2. ToSet(files[m].imports) \subseteq resolvers \cup ToSet(Top.imports)
    BY <1>4, <2>1 DEF LoaderInv, Awaited
  <2> DEFINE e == <<>>
  <2>3. DOMAIN e = {}
    OBVIOUS
  <2> HIDE DEF e
  <2>4. ToSet(e) = {}
    BY <2>3 DEF ToSet
  <2> QED BY <1>1, <2>2, <2>4 DEF e
<1> HIDE DEF n, m
<1>8. ASSUME NEW k \in 1..n
      PROVE  k + 1 \in 1..Len(loading) /\ k + 1 \in 2..Len(loading) /\ k + 1 # 1
  BY <1>3
<1>9. LoaderTypes'
  <2>1. \A name \in DOMAIN sections' : sections'[name] \in Seq(Word)
    BY <1>1, SectionsAreWords
  <2>2. thrown' \in {"none", "library", "logic_error", "stack"}
    BY <1>1 DEF LoaderInv, LoaderTypes
  <2>3. files' \in World /\ resolvers' \subseteq File' /\ DOMAIN sections' \subseteq File'
    BY <1>1, <1>4 DEF LoaderInv, LoaderTypes, File
  <2>4. loading' \in Seq(FramesOf(files'))
    BY <1>1, <1>3
  <2> QED BY <2>1, <2>2, <2>3, <2>4 DEF LoaderTypes, Word
<1>10. Nested'
  <2> SUFFICES ASSUME NEW k \in 2..n
               PROVE  loading'[k].imports # <<>> /\ loading'[k - 1].name = Head(loading'[k].imports)
    BY <1>3 DEF Nested, n
  <2>1. k \in 1..n /\ k - 1 \in 1..n /\ (k - 1) + 1 = k /\ k + 1 \in 2..Len(loading) /\ (k + 1) - 1 = k
    BY <1>3
  <2>2. loading'[k] = loading[k + 1] /\ loading'[k - 1] = loading[k]
    <3>1. loading'[k - 1] = loading[(k - 1) + 1]
      BY <1>3, <2>1
    <3> QED BY <1>3, <2>1, <3>1
  <2> DEFINE l == k + 1
  <2>3. l \in 2..Len(loading) /\ l - 1 = k
    BY <2>1
  <2> HIDE DEF l
  <2>4. loading[l].imports # <<>> /\ loading[l - 1].name = Head(loading[l].imports)
    BY <2>3 DEF LoaderInv, Nested
  <2> QED BY <2>2, <2>3, <2>4 DEF l
<1>11. Unloaded'
  <2> SUFFICES ASSUME NEW k \in 1..n PROVE loading'[k].name \notin resolvers'
    BY <1>3 DEF Unloaded, n
  <2> DEFINE l == k + 1
  <2>1. l \in 1..Len(loading) /\ l \in 2..Len(loading) /\ loading'[k] = loading[l]
    BY <1>3, <1>8
  <2> HIDE DEF l
  <2>2. loading[l].name \notin resolvers
    BY <2>1 DEF LoaderInv, Unloaded
  <2>3. loading[l].name # m
    BY <1>5, <2>1
  <2> QED BY <1>1, <2>1, <2>2, <2>3
<1>12. Awaited'
  <2> SUFFICES ASSUME NEW k \in 1..n
               PROVE  ToSet(files[loading'[k].name].imports) \subseteq resolvers' \cup ToSet(loading'[k].imports)
    BY <1>1, <1>3 DEF Awaited, n
  <2> DEFINE l == k + 1
  <2>1. l \in 1..Len(loading) /\ loading'[k] = loading[l]
    BY <1>3, <1>8
  <2> HIDE DEF l
  <2>2. ToSet(files[loading[l].name].imports) \subseteq resolvers \cup ToSet(loading[l].imports)
    BY <2>1 DEF LoaderInv, Awaited
  <2> QED BY <1>1, <2>1, <2>2
<1>13. UnderWay'
  <2> SUFFICES ASSUME NEW k \in 1..n, Innermost(k)'
               PROVE  /\ loading'[k].name \in DOMAIN sections
                      /\ Progress(loading'[k], sections[loading'[k].name], files[loading'[k].name])
    BY <1>1, <1>3 DEF UnderWay, n
  <2> DEFINE l == k + 1
  <2>1. l \in 1..Len(loading) /\ l \in 2..Len(loading) /\ loading'[k] = loading[l] /\ l - 1 = k
    BY <1>3, <1>8
  <2>2. \A j \in 1..(k - 1) : loading'[j].name # loading[l].name
    BY <2>1 DEF Innermost
  <2> HIDE DEF l
  <2>3. ASSUME NEW j \in 1..(l - 1) PROVE loading[j].name # loading[l].name
    <3>1. CASE j = 1
      BY <1>4, <1>5, <2>1, <3>1 DEF m
    <3>2. CASE j # 1
      <4> DEFINE i == j - 1
      <4>1. i \in 1..(k - 1) /\ i \in 1..n /\ i + 1 = j
        BY <1>3, <2>1, <3>2
      <4> HIDE DEF i
      <4>2. loading'[i] = loading[i + 1]
        BY <1>3, <4>1
      <4>3. loading'[i].name # loading[l].name
        BY <2>2, <4>1
      <4> QED BY <4>1, <4>2, <4>3
    <3> QED BY <3>1, <3>2
  <2>4. Innermost(l)
    BY <2>3 DEF Innermost
  <2>5. /\ loading[l].name \in DOMAIN sections
        /\ Progress(loading[l], sections[loading[l].name], files[loading[l].name])
    BY <1>1, <2>1, <2>4 DEF LoaderInv, UnderWay
  <2> QED BY <2>1, <2>5
<1>14. Complete'
  <2> SUFFICES ASSUME NEW name \in resolvers \cup {m}
               PROVE  /\ name \in DOMAIN sections
                      /\ ToSet(files[name].imports) \subseteq resolvers \cup {m}
                      /\ sections[name] = Relocated(name, files[name], Flat(Program(files[name])),
                                                    Len(Flat(Program(files[name]))))
    BY <1>1 DEF Complete
  <2>1. CASE name \in resolvers
    <3>1. /\ name \in DOMAIN sections
          /\ ToSet(files[name].imports) \subseteq resolvers
          /\ sections[name] = Relocated(name, files[name], Flat(Program(files[name])),
                                        Len(Flat(Program(files[name]))))
      BY <2>1 DEF LoaderInv, Complete
    <3> QED BY <3>1
  <2>2. CASE name = m
    BY <1>4, <1>6, <1>7, <2>2
  <2> QED BY <2>1, <2>2
<1> QED BY <1>9, <1>10, <1>11, <1>12, <1>13, <1>14 DEF LoaderInv

LEMMA InitLoaderInv == InitLoader => LoaderInv
<1> SUFFICES ASSUME InitLoader PROVE LoaderInv
  OBVIOUS
<1>1. /\ files \in World /\ resolvers = {} /\ sections = [name \in {} |-> <<>>]
      /\ loading = <<>> /\ thrown = "none"
  BY DEF InitLoader
<1>2. Len(loading) = 0 /\ DOMAIN sections = {} /\ loading \in Seq(FramesOf(files))
  BY <1>1
<1>3. LoaderTypes
  BY <1>1, <1>2 DEF LoaderTypes
<1>4. Nested /\ Unloaded /\ Awaited /\ UnderWay
  BY <1>2 DEF Nested, Unloaded, Awaited, UnderWay
<1>5. Complete
  BY <1>1 DEF Complete
<1> QED BY <1>3, <1>4, <1>5 DEF LoaderInv

LEMMA LoaderStays ==
  ASSUME LoaderInv, UNCHANGED loaderVars
  PROVE  LoaderInv'
<1>1. UNCHANGED <<files, resolvers, sections, loading, thrown>>
  BY DEF loaderVars
<1>2. LoaderTypes'
  BY <1>1 DEF LoaderInv, LoaderTypes, File
<1>3. Nested' /\ Unloaded' /\ Awaited'
  BY <1>1 DEF LoaderInv, Nested, Unloaded, Awaited
<1>4. \A k : Innermost(k)' <=> Innermost(k)
  BY <1>1 DEF Innermost
<1>5. UnderWay'
  BY <1>1, <1>4 DEF LoaderInv, UnderWay
<1>6. Complete'
  BY <1>1 DEF LoaderInv, Complete
<1> QED BY <1>2, <1>3, <1>5, <1>6 DEF LoaderInv

LEMMA NextLoaderInv == LoaderInv /\ [NextLoader]_loaderVars => LoaderInv'
<1> SUFFICES ASSUME LoaderInv, [NextLoader]_loaderVars PROVE LoaderInv'
  OBVIOUS
<1>1. ASSUME NEW name \in Library, Load(name) PROVE LoaderInv'
  BY <1>1, LoadStep
<1>2. CASE ExecutePattern
  BY <1>2, ExecutePatternStep
<1>3. CASE LoadContainer
  BY <1>3, LoadContainerStep
<1>4. CASE Unwind
  BY <1>4, UnwindStep
<1>5. CASE Loaded
  BY <1>5, LoadedStep
<1>6. CASE Execute
  BY <1>6, ExecuteStep
<1>7. CASE UNCHANGED loaderVars
  BY <1>7, LoaderStays
<1> QED BY <1>1, <1>2, <1>3, <1>4, <1>5, <1>6, <1>7 DEF NextLoader

LEMMA InvIsLinked == LoaderInv => LoadedIsLinked
<1> SUFFICES ASSUME LoaderInv, NEW name \in resolvers
             PROVE  /\ ToSet(files[name].imports) \subseteq resolvers
                    /\ Program(files[name]) = Meaning(files[name]) => sections[name] = Linked(name)
  BY DEF LoadedIsLinked
<1>1. files \in World /\ name \in File
  BY DEF LoaderInv, LoaderTypes
<1>2. Program(files[name]) = Meaning(files[name]) =>
        Linked(name) = Relocated(name, files[name], Flat(Program(files[name])), Len(Flat(Program(files[name]))))
  BY <1>1, LinkedIs
<1>3. /\ ToSet(files[name].imports) \subseteq resolvers
      /\ sections[name] = Relocated(name, files[name], Flat(Program(files[name])), Len(Flat(Program(files[name]))))
  BY DEF LoaderInv, Complete
<1> QED BY <1>2, <1>3

LEMMA InvIsTyped == LoaderInv => LoaderTypeOK
<1> SUFFICES ASSUME LoaderInv PROVE LoaderTypeOK
  OBVIOUS
<1>1. LoaderTypes
  BY DEF LoaderInv
<1>2. ASSUME NEW k \in DOMAIN loading PROVE loading[k].name \in File
  <2>1. loading[k] \in FramesOf(files)
    BY <1>1 DEF LoaderTypes
  <2> QED BY <2>1, FrameIs DEF File
<1> QED BY <1>1, <1>2 DEF LoaderTypeOK, LoaderTypes, Word
-----------------------------------------------------------------------------
(* The theorems *)

Everything == <<channelVars, transportVars, loaderVars, part>>

ServicesInv == ChannelTypeOK /\ PipesOK /\ TransportInv /\ LoaderInv

LEMMA InitServicesInv == Init => ServicesInv
BY InitTypes, InitTransportInv, InitLoaderInv DEF Init, ServicesInv

LEMMA NextServicesInv == ServicesInv /\ [Next]_Everything => ServicesInv'
<1> SUFFICES ASSUME ServicesInv, [Next]_Everything PROVE ServicesInv'
  OBVIOUS
<1>1. [NextChannel]_channelVars /\ [NextTransport]_transportVars /\ [NextLoader]_loaderVars
  BY DEF Next, Everything
<1>2. ChannelTypeOK' /\ PipesOK'
  BY <1>1, NextTypes DEF ServicesInv
<1>3. TransportInv'
  BY <1>1, NextTransportInv DEF ServicesInv
<1>4. LoaderInv'
  BY <1>1, NextLoaderInv DEF ServicesInv
<1> QED BY <1>2, <1>3, <1>4 DEF ServicesInv

LEMMA ServicesInvHolds == Spec => []ServicesInv
BY InitServicesInv, NextServicesInv, PTL DEF Spec, Everything

\* The variables of the user interface, the network and the loader have their types: the sections hold
\* words, however long their patterns and programs are, and what is being loaded has a file.
THEOREM TypeCorrect == Spec => []TypeOK
<1>1. ServicesInv => TypeOK
  BY InvIsTyped DEF ServicesInv, TransportInv, TypeOK
<1> QED BY <1>1, ServicesInvHolds, PTL

\* A container that is loaded has its libraries loaded, and if the code takes its instructions for what
\* they are, its sections are what the container stands for: each relocation is applied once, with the
\* section and import addresses that hold at its place, whatever is loaded in between, whatever failed
\* before, however repetitions are nested and whichever header begins.
THEOREM ContainersLinked == Spec => []LoadedIsLinked
<1>1. ServicesInv => LoadedIsLinked
  BY InvIsLinked DEF ServicesInv
<1> QED BY <1>1, ServicesInvHolds, PTL
=============================================================================
