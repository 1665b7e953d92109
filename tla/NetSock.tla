------------------------------- MODULE NetSock -------------------------------
(***************************************************************************)
(* The sockets of host/net.c: who owns a descriptor or a TLS session, from *)
(* the system call that creates it to the one that closes it.  A handle is *)
(* a foreign pointer made in two phases: net_handle allocates it before    *)
(* any descriptor exists, net_attach gives it one.                         *)
(*                                                                         *)
(* One primitive runs at a time; `call` holds its locals and the place it  *)
(* has reached.  Every system call may fail, every allocation may raise,   *)
(* and the collector may finalize any handle that is not held whenever a   *)
(* handle is allocated or a script runs.  A descriptor number is reused as *)
(* soon as it is free, lowest first.  Bytes are the matter of NetStream.   *)
(***************************************************************************)
EXTENDS Integers, FiniteSets

CONSTANTS
  Handles,      \* bound: the socket objects in the arena
  NoHandle,
  FdMax,        \* bound: descriptors are 0..FdMax, more are refused (EMFILE)
  AddressMax,   \* bound: the addresses that a name resolves to
  SignalMax,    \* bound: the signals that interrupt poll
  Timeouts      \* timeout-ms arguments; Absent is -1

ASSUME NetAssumption ==
  /\ NoHandle \notin Handles /\ IsFiniteSet(Handles) /\ FdMax \in Nat /\ AddressMax \in Nat
  /\ SignalMax \in Nat /\ Timeouts \subseteq Int

VARIABLES
  kernel,    \* the descriptor table
  sock,      \* the backing of each handle
  held,      \* the handles that a script can reach
  call,      \* the primitive under way
  addrinfo,  \* the list of getaddrinfo is allocated
  sessions, contexts,  \* live SSL and SSL_CTX objects
  signals    \* signals so far

vars == <<kernel, sock, held, call, addrinfo, sessions, contexts, signals>>
tls  == <<sessions, contexts>>

Absent == -1
NoFd   == -1
Fds    == 0..FdMax

(* SO_RCVTIMEO and SO_SNDTIMEO: a zero timeval means no deadline.          *)
NoDeadline == 0

Closed   == [open |-> FALSE, blocking |-> TRUE, deadline |-> NoDeadline, queue |-> 0]
OpenFd   == [Closed EXCEPT !.open = TRUE]

Unused   == [made |-> "no", timeout |-> Absent, backed |-> FALSE, fd |-> NoFd, ssl |-> FALSE]
Creators == {"connect", "tls", "listen", "accept"}

Idle == [pc |-> "idle", op |-> "no", h |-> NoHandle, arg |-> NoHandle, timeout |-> Absent,
         left |-> 0, fd |-> NoFd, ctx |-> FALSE, ssl |-> FALSE]

At(pc) == call.pc = pc

Goto(pc) == call' = [call EXCEPT !.pc = pc]

FreeFds == {f \in Fds : ~kernel[f].open}
Lowest  == CHOOSE f \in FreeFds : \A g \in FreeFds : f <= g

(* The descriptor that the argument's backing names, without a check.      *)
ListenFd == sock[call.arg].fd
-----------------------------------------------------------------------------
(* fe_error: the C frame is gone.  Its handle, if any, is left to the      *)
(* collector.                                                              *)
Raise == call' = Idle /\ UNCHANGED held

Return == call' = Idle /\ held' = held \cup {call.h}

(* net_gc: what the finalizer closes, unless tcp-close has.                *)
FinalizedFds(dead) == {sock[h].fd : h \in {d \in dead : sock[d].backed}} \ {NoFd}

(* A collection: it may run where a script allocates, and in net_handle.   *)
Collect ==
  /\ call.pc \in {"idle", "handle"}
  /\ LET dead == {h \in Handles : sock[h].made # "no"} \ (held \cup {call.arg})
         enc  == {h \in dead : sock[h].ssl}
     IN /\ dead # {}
        /\ sock' = [h \in Handles |-> IF h \in dead THEN Unused ELSE sock[h]]
        /\ kernel' = [f \in Fds |-> IF f \in FinalizedFds(dead) THEN Closed ELSE kernel[f]]
        /\ sessions' = sessions - Cardinality(enc)
        /\ contexts' = contexts - Cardinality(enc)
  /\ UNCHANGED <<held, call, addrinfo, signals>>

(* The script loses its last reference. *)
Drop(h) ==
  /\ At("idle") /\ h \in held
  /\ held' = held \ {h}
  /\ UNCHANGED <<kernel, sock, call, addrinfo, tls, signals>>

(* The arguments of a creating primitive have been checked; a listener     *)
(* takes no timeout.                                                       *)
Begin(op, timeout) ==
  /\ At("idle") /\ op # "accept" /\ (op = "listen" => timeout = Absent)
  /\ call' = [Idle EXCEPT !.pc = "handle", !.op = op, !.timeout = timeout]
  /\ UNCHANGED <<kernel, sock, held, addrinfo, tls, signals>>

BeginAccept(l, timeout) ==
  /\ At("idle") /\ l \in held /\ sock[l].made = "listen" /\ sock[l].fd # NoFd
  /\ call' = [Idle EXCEPT !.pc = "ready?", !.op = "accept", !.arg = l, !.timeout = timeout]
  /\ UNCHANGED <<kernel, sock, held, addrinfo, tls, signals>>

(* net_handle: an object with a NULL backing, or out of memory.            *)
NewHandle ==
  /\ At("handle")
  /\ \/ \E h \in Handles :
          /\ sock[h].made = "no"
          /\ sock' = [sock EXCEPT ![h] = [Unused EXCEPT !.made = call.op, !.timeout = call.timeout]]
          /\ call' = [call EXCEPT !.h = h,
               !.pc = CASE call.op = "listen" -> "bind"
                        [] call.op = "accept" -> "accept"
                        [] OTHER              -> "resolve"]
     \/ Raise /\ UNCHANGED sock
  /\ UNCHANGED <<kernel, held, addrinfo, tls, signals>>
-----------------------------------------------------------------------------
(* net_dial and net_connect                                                *)
Resolve ==
  /\ At("resolve")
  /\ \/ \E n \in 1..AddressMax :
          call' = [call EXCEPT !.pc = "socket", !.left = n] /\ addrinfo' = TRUE
     \/ Raise /\ UNCHANGED addrinfo
  /\ UNCHANGED <<kernel, sock, held, tls, signals>>

(* Slip: the address that failed is tried again.                           *)
SameAddress == call' = [call EXCEPT !.pc = "socket", !.fd = NoFd]

NextAddress == call' = [call EXCEPT !.pc = "socket", !.fd = NoFd, !.left = @ - 1]

DialSocket ==
  /\ At("socket") /\ call.left > 0
  /\ \/ /\ FreeFds # {}
        /\ call' = [call EXCEPT !.pc = "connect", !.fd = Lowest]
        /\ kernel' = [kernel EXCEPT ![Lowest] = OpenFd]
     \/ NextAddress /\ UNCHANGED kernel
  /\ UNCHANGED <<sock, held, addrinfo, tls, signals>>

(* No address is left: freeaddrinfo, then the error.                       *)
DialFails ==
  /\ At("socket") /\ call.left = 0
  /\ addrinfo' = FALSE
  /\ Raise
  /\ UNCHANGED <<kernel, sock, tls, signals>>

(* close(fd) before the next address; forgotten by a slip.                 *)
FailedButOpen == NextAddress /\ UNCHANGED kernel

Failed == NextAddress /\ kernel' = [kernel EXCEPT ![call.fd] = Closed]

(* net_set_timeouts: nothing to do if the argument is absent, and a zero   *)
(* is passed to the kernel as it is.                                       *)
Deadline(timeout) == IF timeout = Absent THEN NoDeadline ELSE timeout

(* The loop ends: freeaddrinfo, net_set_timeouts.  The descriptor is in    *)
(* blocking mode again; still non-blocking by a slip.                      *)
ConnectedAsIs ==
  /\ kernel' = [kernel EXCEPT ![call.fd].deadline = Deadline(call.timeout)]
  /\ addrinfo' = FALSE
  /\ Goto("attach")

Connected ==
  /\ kernel' = [kernel EXCEPT ![call.fd].deadline = Deadline(call.timeout),
                              ![call.fd].blocking = TRUE]
  /\ addrinfo' = FALSE
  /\ Goto("attach")

(* connect returns at once, or fcntl fails; without a timeout it may take  *)
(* any time.                                                               *)
ConnectNow ==
  /\ At("connect")
  /\ Connected \/ (Failed /\ UNCHANGED addrinfo)
  /\ UNCHANGED <<sock, held, tls, signals>>

ConnectInProgress ==
  /\ At("connect") /\ call.timeout # Absent
  /\ kernel' = [kernel EXCEPT ![call.fd].blocking = FALSE]
  /\ Goto("connecting?")
  /\ UNCHANGED <<sock, held, addrinfo, tls, signals>>

(* poll says writable, times out or fails; SO_ERROR tells the rest.        *)
ConnectPolled ==
  /\ At("connecting?")
  /\ Connected \/ (Failed /\ UNCHANGED addrinfo)
  /\ UNCHANGED <<sock, held, tls, signals>>

(* EINTR: poll starts again with the whole timeout.                        *)
Interrupted ==
  /\ call.pc \in {"connecting?", "ready?"}
  /\ signals < SignalMax
  /\ signals' = signals + 1
  /\ UNCHANGED <<kernel, sock, held, call, addrinfo, tls>>
-----------------------------------------------------------------------------
(* net_attach; if malloc fails the descriptor is closed.                   *)
Attach ==
  /\ At("attach")
  /\ \/ /\ sock' = [sock EXCEPT ![call.h].backed = TRUE, ![call.h].fd = call.fd]
        /\ IF call.op = "tls"
             THEN call' = [call EXCEPT !.pc = "context", !.fd = NoFd] /\ UNCHANGED held
             ELSE Return
        /\ UNCHANGED kernel
     \/ /\ kernel' = [kernel EXCEPT ![call.fd] = Closed]
        /\ Raise
        /\ UNCHANGED sock
  /\ UNCHANGED <<addrinfo, tls, signals>>

(* net_tls_start: SSL_CTX_new; verification; SSL_new and the peer's        *)
(* identity; SSL_connect.                                                  *)
TlsContext ==
  /\ At("context")
  /\ \/ /\ contexts' = contexts + 1
        /\ call' = [call EXCEPT !.pc = "session", !.ctx = TRUE]
        /\ UNCHANGED held
     \/ Raise /\ UNCHANGED contexts
  /\ UNCHANGED <<kernel, sock, addrinfo, sessions, signals>>

TlsSession ==
  /\ At("session")
  /\ \/ /\ sessions' = sessions + 1
        /\ call' = [call EXCEPT !.pc = "handshake", !.ssl = TRUE]
        /\ UNCHANGED <<held, contexts>>
     \/ Raise /\ contexts' = contexts - 1 /\ UNCHANGED sessions
  /\ UNCHANGED <<kernel, sock, addrinfo, signals>>

(* Slip: a failed handshake leaves the session in the handle.              *)
HandshakeKept ==
  /\ sock' = [sock EXCEPT ![call.h].ssl = TRUE]
  /\ sessions' = sessions - 1 /\ contexts' = contexts - 1
  /\ Raise

HandshakeFails ==
  /\ sessions' = sessions - 1 /\ contexts' = contexts - 1
  /\ Raise /\ UNCHANGED sock

Handshake ==
  /\ At("handshake")
  /\ \/ sock' = [sock EXCEPT ![call.h].ssl = TRUE] /\ Return /\ UNCHANGED tls
     \/ HandshakeFails
  /\ UNCHANGED <<kernel, addrinfo, signals>>
-----------------------------------------------------------------------------
(* tcp-listen: socket, bind and listen; if one fails nothing stays open.   *)
ListenSocket ==
  /\ At("bind")
  /\ \/ /\ FreeFds # {}
        /\ kernel' = [kernel EXCEPT ![Lowest] = OpenFd]
        /\ call' = [call EXCEPT !.pc = "attach", !.fd = Lowest]
        /\ UNCHANGED held
     \/ Raise /\ UNCHANGED kernel
  /\ UNCHANGED <<sock, addrinfo, tls, signals>>

(* tcp-accept: poll, then net_handle, then accept, which blocks.           *)
AcceptPoll ==
  /\ At("ready?")
  /\ \/ kernel[ListenFd].queue > 0 /\ Goto("handle") /\ UNCHANGED held
     \/ kernel[ListenFd].queue = 0 /\ call.timeout # Absent /\ Raise  \* returns nil
     \/ Raise                                                        \* poll fails
  /\ UNCHANGED <<kernel, sock, addrinfo, tls, signals>>

Accept ==
  /\ At("accept")
  /\ \/ /\ kernel[ListenFd].queue > 0 /\ FreeFds # {}
        /\ kernel' = [kernel EXCEPT ![ListenFd].queue = @ - 1,
                        ![Lowest] = [OpenFd EXCEPT !.deadline = Deadline(call.timeout)]]
        /\ call' = [call EXCEPT !.pc = "attach", !.fd = Lowest]
        /\ UNCHANGED held
     \/ (kernel[ListenFd].queue > 0 \/ FreeFds = {}) /\ Raise /\ UNCHANGED kernel
  /\ UNCHANGED <<sock, addrinfo, tls, signals>>

(* tcp-close, on a handle in any state.                                    *)
Close(h) ==
  /\ At("idle") /\ h \in held /\ sock[h].backed
  /\ sessions' = IF sock[h].ssl THEN sessions - 1 ELSE sessions
  /\ contexts' = IF sock[h].ssl THEN contexts - 1 ELSE contexts
  /\ kernel' = [f \in Fds |-> IF f = sock[h].fd THEN Closed ELSE kernel[f]]
  /\ sock' = [sock EXCEPT ![h].ssl = FALSE, ![h].fd = NoFd]
  /\ UNCHANGED <<held, call, addrinfo, signals>>
-----------------------------------------------------------------------------
(* The peers: one asks for a connection, and gives up before it has been   *)
(* accepted (accept(2): a connection may be gone after poll reported it).  *)
Listening(f) == \E h \in Handles : sock[h].made = "listen" /\ sock[h].fd = f

PeerConnects(f) ==
  /\ Listening(f) /\ kernel[f].queue = 0
  /\ kernel' = [kernel EXCEPT ![f].queue = 1]
  /\ UNCHANGED <<sock, held, call, addrinfo, tls, signals>>

PeerGivesUp(f) ==
  /\ Listening(f) /\ kernel[f].queue = 1
  /\ kernel' = [kernel EXCEPT ![f].queue = 0]
  /\ UNCHANGED <<sock, held, call, addrinfo, tls, signals>>
-----------------------------------------------------------------------------
Init ==
  /\ kernel = [f \in Fds |-> Closed] /\ sock = [h \in Handles |-> Unused]
  /\ held = {} /\ call = Idle /\ addrinfo = FALSE
  /\ sessions = 0 /\ contexts = 0 /\ signals = 0

Dial == Resolve \/ DialSocket \/ DialFails \/ ConnectNow \/ ConnectInProgress \/ ConnectPolled

Next ==
  \/ Collect \/ NewHandle \/ Dial \/ Interrupted \/ Attach
  \/ TlsContext \/ TlsSession \/ Handshake
  \/ ListenSocket \/ AcceptPoll \/ Accept
  \/ \E h \in Handles : Drop(h) \/ Close(h)
  \/ \E t \in Timeouts : (\E op \in Creators : Begin(op, t)) \/ \E l \in Handles : BeginAccept(l, t)
  \/ \E f \in Fds : PeerConnects(f) \/ PeerGivesUp(f)

(* Straight-line code and a poll that has a timeout; connect without one,  *)
(* and accept, are up to the peer.                                         *)
Timed == call.timeout # Absent

Fairness ==
  /\ WF_vars(Timed /\ Dial) /\ WF_vars(NewHandle) /\ WF_vars(Attach)
  /\ WF_vars(Timed /\ AcceptPoll) /\ WF_vars(Accept)

Spec == Init /\ [][Next]_vars /\ Fairness
-----------------------------------------------------------------------------
TypeOK ==
  /\ kernel \in [Fds -> [open : BOOLEAN, blocking : BOOLEAN, deadline : Nat, queue : 0..1]]
  /\ sock \in [Handles -> [made : Creators \cup {"no"}, timeout : Timeouts \cup {Absent},
                           backed : BOOLEAN, fd : Fds \cup {NoFd}, ssl : BOOLEAN]]
  /\ held \subseteq Handles
  /\ call.h \in Handles \cup {NoHandle} /\ call.arg \in Handles \cup {NoHandle}
  /\ call.left \in 0..AddressMax /\ call.fd \in Fds \cup {NoFd}
  /\ sessions \in Nat /\ contexts \in Nat /\ signals \in 0..SignalMax

(* Every open descriptor has exactly one owner, a handle or the primitive  *)
(* that is still setting it up, and no one owns a descriptor that is not   *)
(* open: none is stranded by an error between the two phases, none is      *)
(* closed twice, and a number that the process has reused is never the one *)
(* an older handle remembers.  (net_attach, net_dial, net_gc, tcp-close)   *)
DescriptorsOwned ==
  LET owners(f) == Cardinality({h \in Handles : sock[h].fd = f}) + (IF call.fd = f THEN 1 ELSE 0)
  IN \A f \in Fds : owners(f) = IF kernel[f].open THEN 1 ELSE 0

(* Every SSL and SSL_CTX object is freed exactly once: those alive are     *)
(* those of the handles and of the handshake under way; and the address    *)
(* list lives as long as the loop over it.  (net_tls_start, net_dial)      *)
SessionsOwned ==
  LET n == Cardinality({h \in Handles : sock[h].ssl})
  IN /\ sessions = n + (IF call.ssl THEN 1 ELSE 0)
     /\ contexts = n + (IF call.ctx THEN 1 ELSE 0)
     /\ addrinfo <=> call.pc \in {"socket", "connect", "connecting?"}

(* No error path, finalizer or tcp-close strands a descriptor, a session   *)
(* or the address list, or closes one that is not its own.                 *)
SocketsOwned == DescriptorsOwned /\ SessionsOwned

(* What a script holds is ready for use: never an interrupted              *)
(* construction; in blocking mode; and from tls-connect never cleartext,   *)
(* although its descriptor was attached before the handshake.              *)
HeldAreReady ==
  \A h \in held :
    /\ sock[h].backed
    /\ sock[h].fd # NoFd => kernel[sock[h].fd].open /\ kernel[sock[h].fd].blocking
    /\ sock[h].made = "tls" /\ sock[h].fd # NoFd => sock[h].ssl

(* With a timeout, tcp-connect returns or raises, however many addresses   *)
(* fail to answer: every poll ends and each address is tried once.         *)
ConnectEnds ==
  (call.op = "connect" /\ call.timeout # Absent) ~> (call.op # "connect")

(* docs/networking.md:53: the timeout becomes the socket's deadline, so a  *)
(* peer that goes silent cannot wedge a script.  Not so for a timeout of   *)
(* 0, which polls: SO_RCVTIMEO takes a zero as no deadline at all.         *)
DeadlineIsCarried ==
  \A h \in held :
    sock[h].made # "listen" /\ sock[h].timeout # Absent /\ sock[h].fd # NoFd
      => kernel[sock[h].fd].deadline # NoDeadline

(* docs/language.md:499: tcp-accept returns a socket, or nil if the        *)
(* timeout expires.  Not if the connection that poll reported is gone when *)
(* accept is called on the blocking listener.                              *)
AcceptReturns ==
  (call.op = "accept" /\ call.timeout # Absent) ~> (call.op # "accept")
=============================================================================
