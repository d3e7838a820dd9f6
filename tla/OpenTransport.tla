--------------------------- MODULE OpenTransport ---------------------------
(***************************************************************************)
(* OpenTransportLib: the endpoints of the guest's network library, each a  *)
(* socket of the host.  Guest threads are host threads, and call it at the *)
(* same time; endpointMutex is held from the look-up of an endpoint to the *)
(* end of the host call made for it, however long that takes.              *)
(*                                                                         *)
(* Of the host there are the open descriptors and whether calls on them    *)
(* may block.  What is sent, addresses and error codes are left out, and   *)
(* so is the notifier of an endpoint, which nothing ever calls.            *)
(***************************************************************************)
EXTENDS Naturals

CONSTANTS Client,       \* guest threads
          Descriptor,   \* bound: the host's descriptors
          MaxEndpoints  \* bound: how often an endpoint is opened, and the numbers that guests name

ASSUME TransportAssumption == MaxEndpoints \in Nat /\ "none" \notin Client

VARIABLES
  endpointMap,    \* endpoints, by number: [fd, isAsynchronous]
  nextEndpointId,
  endpointMutex,  \* the thread that holds it, or "none"
  nonblocking,    \* the host's open descriptors: O_NONBLOCK
  at,             \* where each thread is
  replaced,       \* history: sockets whose number in the map was given another one
  unbindFailed    \* history: OTUnbind closed a socket and got no other

transportVars == <<endpointMap, nextEndpointId, endpointMutex, nonblocking, at, replaced, unbindFailed>>

Open     == DOMAIN nonblocking
Endpoint == DOMAIN endpointMap
Number   == 1..MaxEndpoints

With(f, x, y)  == [z \in DOMAIN f \cup {x} |-> IF z = x THEN y ELSE f[z]]
Without(f, S)  == [z \in DOMAIN f \ S |-> f[z]]

Out              == [pc |-> "out"]
Opened(fd, id, async) == [pc |-> "opened", fd |-> fd, id |-> id, isAsynchronous |-> async]
InHost(ep, to)   == [pc |-> "host", ep |-> ep, to |-> to]

InitTransport ==
  /\ endpointMap = [ep \in {} |-> Out]
  /\ nextEndpointId = 1
  /\ endpointMutex = "none"
  /\ nonblocking = [fd \in {} |-> FALSE]
  /\ at = [t \in Client |-> Out]
  /\ replaced = {}
  /\ unbindFailed = FALSE

-----------------------------------------------------------------------------
\* endpointMap[ep] = what it is now: the socket that it was stays open.
Put(ep, fd, async) ==
  /\ endpointMap' = With(endpointMap, ep, [fd |-> fd, isAsynchronous |-> async])
  /\ replaced' = replaced \cup (IF ep \in Endpoint THEN {endpointMap[ep].fd} ELSE {})

\* Mutant: the number is not counted.
SocketUncounted(t, async) ==
  /\ at[t] = Out
  /\ nextEndpointId <= MaxEndpoints
  /\ \E fd \in Descriptor \ Open :
       /\ nonblocking' = With(nonblocking, fd, async)
       /\ at' = [at EXCEPT ![t] = Opened(fd, nextEndpointId, async)]
  /\ UNCHANGED <<endpointMap, nextEndpointId, endpointMutex, replaced, unbindFailed>>

\* OTOpenEndpoint and OTAsyncOpenEndpoint: the new socket and its number are not in the map yet, and
\* only a guest that guesses knows the number.
Socket(t, async) ==
  /\ at[t] = Out
  /\ nextEndpointId <= MaxEndpoints
  /\ \E fd \in Descriptor \ Open :
       /\ nonblocking' = With(nonblocking, fd, async)
       /\ at' = [at EXCEPT ![t] = Opened(fd, nextEndpointId, async)]
  /\ nextEndpointId' = nextEndpointId + 1
  /\ UNCHANGED <<endpointMap, endpointMutex, replaced, unbindFailed>>

Insert(t) ==
  /\ at[t].pc = "opened"
  /\ endpointMutex = "none"
  /\ Put(at[t].id, at[t].fd, at[t].isAsynchronous)
  /\ at' = [at EXCEPT ![t] = Out]
  /\ UNCHANGED <<nextEndpointId, endpointMutex, nonblocking, unbindFailed>>

\* What a call does with an endpoint when it has the mutex and the host does not keep it.
Locked(t, ep) == at[t] = Out /\ endpointMutex = "none" /\ ep \in Endpoint

\* Mutant: the endpoint of a closed socket stays.
CloseOnly(t, ep) ==
  /\ Locked(t, ep)
  /\ nonblocking' = Without(nonblocking, {endpointMap[ep].fd})
  /\ UNCHANGED <<endpointMap, nextEndpointId, endpointMutex, at, replaced, unbindFailed>>

OTCloseProvider(t, ep) ==
  /\ Locked(t, ep)
  /\ nonblocking' = Without(nonblocking, {endpointMap[ep].fd})
  /\ endpointMap' = Without(endpointMap, {ep})
  /\ UNCHANGED <<nextEndpointId, endpointMutex, at, replaced, unbindFailed>>

\* So does LibraryUnload.
CloseOpenTransport(t) ==
  /\ at[t] = Out /\ endpointMutex = "none"
  /\ nonblocking' = Without(nonblocking, {endpointMap[ep].fd : ep \in Endpoint})
  /\ endpointMap' = Without(endpointMap, Endpoint)
  /\ UNCHANGED <<nextEndpointId, endpointMutex, at, replaced, unbindFailed>>

SetMode(t, ep, async) ==
  /\ Locked(t, ep)
  /\ endpointMap' = [endpointMap EXCEPT ![ep].isAsynchronous = async]
  /\ nonblocking' = [fd \in Open |-> IF fd = endpointMap[ep].fd THEN async ELSE nonblocking[fd]]
  /\ UNCHANGED <<nextEndpointId, endpointMutex, at, replaced, unbindFailed>>

OTSetAsynchronous(t, ep) == SetMode(t, ep, TRUE)
OTSetSynchronous(t, ep)  == SetMode(t, ep, FALSE)

\* A new socket takes the place of the bound one, which is closed first: its descriptor may be the
\* new one's.  Without a new one the endpoint keeps the descriptor that is not its own any more.
Unbind(t, ep, mode) ==
  /\ Locked(t, ep)
  /\ LET rest == Without(nonblocking, {endpointMap[ep].fd})
     IN \/ \E fd \in Descriptor \ DOMAIN rest :
             /\ nonblocking' = With(rest, fd, mode)
             /\ endpointMap' = [endpointMap EXCEPT ![ep].fd = fd]
             /\ UNCHANGED unbindFailed
        \/ /\ nonblocking' = rest
           /\ unbindFailed' = TRUE
           /\ UNCHANGED endpointMap
  /\ UNCHANGED <<nextEndpointId, endpointMutex, at, replaced>>

\* Mutant: the new socket blocks, as sockets do.
UnbindBlocking(t, ep) == Unbind(t, ep, FALSE)

OTUnbind(t, ep) == Unbind(t, ep, endpointMap[ep].isAsynchronous)

-----------------------------------------------------------------------------
\* OTConnect, OTSnd, OTRcv, OTSndUData and OTRcvUData call the host, which may take its time if the
\* socket is not nonblocking.  What they do to the connection is the host's.  OTAccept does as well,
\* and what it accepts becomes the socket of whatever number the guest names: that of an endpoint,
\* of a closed one, or of one that is still to come.
CallHost(t, ep) ==
  /\ Locked(t, ep)
  /\ endpointMutex' = t
  /\ \E to \in Number \cup {0} : at' = [at EXCEPT ![t] = InHost(ep, to)]
  /\ UNCHANGED <<endpointMap, nextEndpointId, nonblocking, replaced, unbindFailed>>

\* Also when OTAccept fails.
HostReturns(t) ==
  /\ at[t].pc = "host"
  /\ endpointMutex' = "none"
  /\ at' = [at EXCEPT ![t] = Out]
  /\ UNCHANGED <<endpointMap, nextEndpointId, nonblocking, replaced, unbindFailed>>

\* An accepted socket is nonblocking if the one that listens is: so it is in BSD.
OTAccept(t) ==
  /\ at[t].pc = "host" /\ at[t].to # 0
  /\ LET server == endpointMap[at[t].ep]
     IN \E fd \in Descriptor \ Open :
          /\ server.fd \in Open
          /\ nonblocking' = With(nonblocking, fd, nonblocking[server.fd])
          /\ Put(at[t].to, fd, server.isAsynchronous)
  /\ endpointMutex' = "none"
  /\ at' = [at EXCEPT ![t] = Out]
  /\ UNCHANGED <<nextEndpointId, unbindFailed>>

NextTransport ==
  \E t \in Client :
    \/ \E async \in BOOLEAN : Socket(t, async)
    \/ Insert(t)
    \/ CloseOpenTransport(t)
    \/ \E ep \in Endpoint :
         \/ OTCloseProvider(t, ep) \/ OTSetAsynchronous(t, ep) \/ OTSetSynchronous(t, ep)
         \/ OTUnbind(t, ep) \/ CallHost(t, ep)
    \/ HostReturns(t) \/ OTAccept(t)

TransportSpec == InitTransport /\ [][NextTransport]_transportVars

TransportTypeOK ==
  /\ Open \subseteq Descriptor /\ nonblocking \in [Open -> BOOLEAN]
  /\ nextEndpointId \in 1..(MaxEndpoints + 1)
  /\ Endpoint \subseteq Number
  /\ endpointMap \in [Endpoint -> [fd : Descriptor, isAsynchronous : BOOLEAN]]
  /\ endpointMutex \in Client \cup {"none"}
  /\ DOMAIN at = Client
  /\ \A t \in Client :
       \/ at[t] = Out
       \/ \E fd \in Descriptor, id \in 1..(nextEndpointId - 1), async \in BOOLEAN :
            at[t] = Opened(fd, id, async)
       \/ \E ep \in Endpoint, to \in Number \cup {0} : at[t] = InHost(ep, to)
  /\ replaced \subseteq Descriptor
  /\ unbindFailed \in BOOLEAN

-----------------------------------------------------------------------------
Opening == {t \in Client : at[t].pc = "opened"}

\* Every endpoint has an open socket, and no two have the same or that of an endpoint about to be:
\* a call never reaches a connection of another endpoint through a descriptor used again, and no
\* socket stays open but for those whose number OTAccept gave another one, or was given another one
\* after OTAccept had taken it.  A failed OTUnbind ends all that.
SocketsBelongToEndpoints ==
  ~unbindFailed =>
    /\ Open = {endpointMap[ep].fd : ep \in Endpoint} \cup {at[t].fd : t \in Opening} \cup replaced
    /\ \A ep, e \in Endpoint : endpointMap[ep].fd = endpointMap[e].fd => ep = e
    /\ \A t, u \in Opening : at[t].fd = at[u].fd => t = u
    /\ \A ep \in Endpoint, t \in Opening : endpointMap[ep].fd # at[t].fd
    /\ \A fd \in replaced : /\ \A ep \in Endpoint : endpointMap[ep].fd # fd
                            /\ \A t \in Opening : at[t].fd # fd

\* A thread that the host keeps waiting, and that all others wait for since it holds the mutex, is
\* in a call on a synchronous endpoint: asynchronous ones never keep anybody waiting.
Waits(t) == at[t].pc = "host" /\ LET fd == endpointMap[at[t].ep].fd IN fd \in Open /\ ~nonblocking[fd]

OnlySynchronousCallsWait ==
  ~unbindFailed =>
    \A t \in Client : Waits(t) => endpointMutex = t /\ ~endpointMap[at[t].ep].isAsynchronous
=============================================================================
