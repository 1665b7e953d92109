------------------------------ MODULE NetProofs ------------------------------
(***************************************************************************)
(* Proofs about the network: for any number of handles, descriptors and    *)
(* addresses, and whatever fails, every descriptor, session and address    *)
(* list has one owner, and what a script holds is ready; and for any       *)
(* payloads and buffers, the bytes of a connection arrive in order.        *)
(***************************************************************************)
EXTENDS NetSock, NetStream, FiniteSetTheorems, SequenceTheorems, WellFoundedInduction, TLAPS

(* The places of a primitive: those at which it has a handle of its own,   *)
(* those at which it has a descriptor that is in no handle yet, those of   *)
(* the loop over the addresses, and those of the handshake.                *)
Looping   == {"socket", "connect", "connecting?"}
Shaking   == {"context", "session", "handshake"}
WithFd    == {"connect", "connecting?", "attach"}
WithOwn   == Looping \cup Shaking \cup {"resolve", "bind", "accept", "attach"}
Places    == WithOwn \cup {"idle", "handle", "ready?"}

CallType ==
  call \in [pc : Places, op : Creators \cup {"no"}, h : Handles \cup {NoHandle},
            arg : Handles \cup {NoHandle}, timeout : Timeouts \cup {Absent},
            left : 0..AddressMax, fd : Fds \cup {NoFd}, ctx : BOOLEAN, ssl : BOOLEAN]

SockType ==
  sock \in [Handles -> [made : Creators \cup {"no"}, timeout : Timeouts \cup {Absent},
                        backed : BOOLEAN, fd : Fds \cup {NoFd}, ssl : BOOLEAN]]

KernelType ==
  kernel \in [Fds -> [open : BOOLEAN, blocking : BOOLEAN, deadline : Int, queue : Nat]]

Types == CallType /\ SockType /\ KernelType /\ held \subseteq Handles

(* Which locals of the primitive are set at which place. *)
Locals ==
  /\ call.pc = "idle" => call = Idle
  /\ call.pc # "idle" => call.op # "no"
  /\ call.h \in Handles <=> call.pc \in WithOwn
  /\ call.fd # NoFd <=> call.pc \in WithFd
  /\ call.ctx <=> call.pc \in {"session", "handshake"}
  /\ call.ssl <=> call.pc = "handshake"
  /\ addrinfo <=> call.pc \in Looping
  /\ call.pc \in {"connect", "connecting?"} => call.left > 0
  /\ call.pc \in {"socket", "connect", "connecting?", "resolve"} => call.op \in {"connect", "tls"}
  /\ call.pc \in Shaking => call.op = "tls"
  /\ call.pc = "bind" => call.op = "listen"
  /\ call.pc \in {"ready?", "accept"} => call.op = "accept"
  /\ call.op # "accept" => call.arg = NoHandle
  /\ call.op = "accept" => call.arg \in held /\ sock[call.arg].made = "listen" /\ ListenFd # NoFd

(* The handle that a primitive is making: no script has it, and it has no  *)
(* backing before the handshake.                                           *)
Making ==
  call.pc \in WithOwn =>
    /\ call.h \notin held /\ sock[call.h].made = call.op /\ ~sock[call.h].ssl
    /\ call.pc \in Shaking =>
         /\ sock[call.h].backed /\ sock[call.h].fd # NoFd
         /\ kernel[sock[call.h].fd].blocking
    /\ call.pc \notin Shaking => ~sock[call.h].backed
    /\ call.pc = "attach" => kernel[call.fd].blocking

(* DescriptorsOwned, without counting. *)
OneOwner ==
  /\ \A h \in Handles : sock[h].fd # NoFd => kernel[sock[h].fd].open /\ sock[h].fd # call.fd
  /\ call.fd # NoFd => kernel[call.fd].open
  /\ \A g, h \in Handles : sock[g].fd = sock[h].fd /\ sock[g].fd # NoFd => g = h
  /\ \A f \in Fds : kernel[f].open => call.fd = f \/ \E h \in Handles : sock[h].fd = f

(* A handle that was never made, or has no backing, owns nothing. *)
Backing ==
  \A h \in Handles :
    /\ ~sock[h].backed => sock[h].fd = NoFd /\ ~sock[h].ssl
    /\ sock[h].made = "no" => ~sock[h].backed

Encrypted == {h \in Handles : sock[h].ssl}

Counted ==
  /\ sessions = Cardinality(Encrypted) + (IF call.ssl THEN 1 ELSE 0)
  /\ contexts = Cardinality(Encrypted) + (IF call.ctx THEN 1 ELSE 0)

IInv == Types /\ Locals /\ Making /\ OneOwner /\ Backing /\ Counted /\ HeldAreReady

-----------------------------------------------------------------------------
(***************************************************************************)
(* Helpers                                                                 *)
(***************************************************************************)
LEMMA NatMin == \A T \in SUBSET Nat : T # {} => \E x \in T : \A y \in T : ~(y < x)
<1>1. IsWellFoundedOn(OpToRel(<, Nat), Nat)
  BY NatLessThanWellFounded
<1>2. ASSUME NEW T \in SUBSET Nat, T # {}
      PROVE  \E x \in T : \A y \in T : ~ (<<y, x>> \in OpToRel(<, Nat))
  BY <1>1, <1>2, WFMin
<1>3. QED
  BY <1>2 DEF OpToRel

LEMMA LowestIsFree ==
  ASSUME Types, FreeFds # {}
  PROVE  Lowest \in Fds /\ ~kernel[Lowest].open /\ Lowest # NoFd
<1>1. FreeFds \in SUBSET Nat /\ FreeFds \subseteq Fds
  BY NetAssumption DEF FreeFds, Fds
<1>2. \E f \in FreeFds : \A g \in FreeFds : f <= g
  BY <1>1, NatMin
<1>3. Lowest \in FreeFds
  BY <1>2 DEF Lowest
<1>4. QED
  BY <1>1, <1>3 DEF FreeFds, NoFd

LEMMA SameCount ==
  ASSUME Counted, UNCHANGED <<sessions, contexts>>,
         call'.ssl <=> call.ssl, call'.ctx <=> call.ctx,
         \A h \in Handles : sock'[h].ssl <=> sock[h].ssl
  PROVE  Counted'
<1>1. Encrypted' = Encrypted
  BY DEF Encrypted
<1>2. QED
  BY <1>1 DEF Counted

LEMMA NoHandleIsNone == NoHandle \notin Handles /\ Idle.h = NoHandle /\ Idle.arg = NoHandle
                        /\ Idle.pc = "idle" /\ Idle.op = "no" /\ Idle.fd = NoFd
                        /\ Idle.ssl = FALSE /\ Idle.ctx = FALSE
  BY NetAssumption DEF Idle

LEMMA IdleType ==
  Idle \in [pc : Places, op : Creators \cup {"no"}, h : Handles \cup {NoHandle},
            arg : Handles \cup {NoHandle}, timeout : Timeouts \cup {Absent},
            left : 0..AddressMax, fd : Fds \cup {NoFd}, ctx : BOOLEAN, ssl : BOOLEAN]
  BY NetAssumption DEF Idle, Places

FdType == [open : BOOLEAN, blocking : BOOLEAN, deadline : Int, queue : Nat]

LEMMA FdFacts ==
  /\ Closed \in FdType /\ Closed.open = FALSE
  /\ OpenFd \in FdType /\ OpenFd.open = TRUE /\ OpenFd.blocking = TRUE
<1>1. Closed \in FdType
  BY DEF Closed, FdType, NoDeadline
<1>2. Closed.open = FALSE /\ Closed.blocking = TRUE
  BY DEF Closed
<1>3. OpenFd = [Closed EXCEPT !.open = TRUE]
  BY DEF OpenFd
<1>4. OpenFd \in FdType /\ OpenFd.open = TRUE /\ OpenFd.blocking = Closed.blocking
  BY <1>1, <1>3 DEF FdType
<1>5. QED
  BY <1>1, <1>2, <1>4

LEMMA StartIsSound == Init => IInv
<1> SUFFICES ASSUME Init PROVE IInv
  OBVIOUS
<1> USE DEF Init
<1>1. CallType
  BY IdleType DEF CallType
<1>2. SockType /\ KernelType /\ held \subseteq Handles
  BY DEF SockType, KernelType, Unused, Closed, Creators, NoDeadline
<1>3. Locals
  BY NoHandleIsNone DEF Locals, WithOwn, WithFd, Looping, Shaking
<1>4. Making
  BY NoHandleIsNone DEF Making, WithOwn, Looping, Shaking
<1>5. OneOwner
  BY NoHandleIsNone DEF OneOwner, Unused, Closed
<1>6. Backing /\ HeldAreReady
  BY DEF Backing, Unused, HeldAreReady
<1>7. Counted
  <2>1. Encrypted = {}
    BY DEF Encrypted, Unused
  <2>2. QED
    BY <2>1, NoHandleIsNone, FS_EmptySet DEF Counted
<1>8. QED
  BY <1>1, <1>2, <1>3, <1>4, <1>5, <1>6, <1>7 DEF IInv, Types

-----------------------------------------------------------------------------
(***************************************************************************)
(* The steps                                                               *)
(***************************************************************************)
(* An error that leaves nothing behind, or a reference that is lost. *)
LEMMA LeaveKeeps ==
  ASSUME IInv, call' = Idle, held' \subseteq held, ~addrinfo',
         UNCHANGED <<kernel, sock>>, call.fd = NoFd, Counted'
  PROVE  IInv'
<1> USE DEF IInv
<1>1. Types'
  BY IdleType DEF Types, CallType, SockType, KernelType
<1>2. Locals'
  BY NoHandleIsNone DEF Locals, WithOwn, WithFd, Looping, Shaking
<1>3. Making'
  BY NoHandleIsNone DEF Making, WithOwn, Looping, Shaking
<1>4. OneOwner'
  BY NoHandleIsNone DEF OneOwner
<1>5. Backing' /\ HeldAreReady'
  BY DEF Backing, HeldAreReady
<1>6. QED
  BY <1>1, <1>2, <1>3, <1>4, <1>5

LEMMA RaiseKeeps ==
  ASSUME IInv, call' = Idle, held' \subseteq held, ~addrinfo',
         UNCHANGED <<kernel, sock, sessions, contexts>>,
         call.fd = NoFd, ~call.ssl, ~call.ctx
  PROVE  IInv'
<1>1. Encrypted' = Encrypted
  BY DEF Encrypted
<1>2. Counted'
  BY <1>1, NoHandleIsNone DEF IInv, Counted
<1>3. QED
  BY <1>2, LeaveKeeps

LEMMA AtIdle ==
  ASSUME IInv, At("idle")
  PROVE  call = Idle /\ ~addrinfo /\ call.fd = NoFd /\ ~call.ssl /\ ~call.ctx
<1>1. call = Idle /\ ~addrinfo
  BY DEF IInv, Locals, At, Looping
<1>2. QED
  BY <1>1, NoHandleIsNone

LEMMA KeepDrop ==
  ASSUME IInv, NEW h \in Handles, Drop(h)
  PROVE  IInv'
<1>1. At("idle") /\ held' \subseteq held /\ UNCHANGED <<kernel, sock, call, addrinfo, sessions, contexts>>
  BY DEF Drop, tls
<1>2. QED
  BY <1>1, AtIdle, RaiseKeeps

(* The finalizer closes what is nobody's: no two handles have the same     *)
(* descriptor, and the primitive's is not among them.                      *)
LEMMA KeepCollect ==
  ASSUME IInv, Collect
  PROVE  IInv'
<1> DEFINE dead == {h \in Handles : sock[h].made # "no"} \ (held \cup {call.arg})
           enc  == {h \in dead : sock[h].ssl}
<1>1. /\ call.pc \in {"idle", "handle"}
      /\ sock' = [h \in Handles |-> IF h \in dead THEN Unused ELSE sock[h]]
      /\ kernel' = [f \in Fds |-> IF f \in FinalizedFds(dead) THEN Closed ELSE kernel[f]]
      /\ sessions' = sessions - Cardinality(enc)
      /\ contexts' = contexts - Cardinality(enc)
      /\ UNCHANGED <<held, call, addrinfo, signals>>
  BY DEF Collect
<1>2. dead \subseteq Handles /\ held \cap dead = {} /\ call.arg \notin dead
  OBVIOUS
<1>3. enc = Encrypted \cap dead
  BY DEF Encrypted
<1> HIDE DEF dead, enc
<1>4. \A f \in Fds : f \in FinalizedFds(dead) <=> \E h \in dead : sock[h].fd = f
  <2>1. \A h \in dead : sock[h].fd # NoFd => sock[h].backed
    BY <1>2 DEF IInv, Backing
  <2>2. NoFd \notin Fds
    BY NetAssumption DEF NoFd, Fds
  <2>3. QED
    BY <2>1, <2>2 DEF FinalizedFds
<1>5. call.pc \notin WithOwn /\ call.fd = NoFd /\ ~call.ssl /\ ~call.ctx
  BY <1>1 DEF IInv, Locals, WithOwn, WithFd, Looping, Shaking
<1>6. Types'
  BY <1>1 DEF IInv, Types, CallType, SockType, KernelType, Unused, Closed, Creators, NoDeadline
<1>7. Locals'
  BY <1>1, <1>2 DEF IInv, Types, Locals, ListenFd
<1>8. Making'
  BY <1>1, <1>5 DEF Making
<1>9. \A h \in Handles \ dead : sock'[h] = sock[h]
  BY <1>1
<1>10. \A h \in dead : sock'[h].fd = NoFd /\ sock'[h].ssl = FALSE /\ sock'[h].backed = FALSE
  BY <1>1, <1>2 DEF Unused
<1>11. \A h \in Handles \ dead : sock[h].fd \in Fds => kernel'[sock[h].fd] = kernel[sock[h].fd]
  BY <1>1, <1>2, <1>4, NetAssumption DEF IInv, OneOwner, Fds, NoFd
<1>12. OneOwner'
  <2>1. \A h \in Handles : sock'[h].fd # NoFd => kernel'[sock'[h].fd].open /\ sock'[h].fd # call'.fd
    BY <1>1, <1>9, <1>10, <1>11 DEF IInv, OneOwner, Types, SockType
  <2>2. \A g, h \in Handles : sock'[g].fd = sock'[h].fd /\ sock'[g].fd # NoFd => g = h
    BY <1>9, <1>10 DEF IInv, OneOwner
  <2>3. ASSUME NEW f \in Fds, kernel'[f].open PROVE \E h \in Handles : sock'[h].fd = f
    <3>1. f \notin FinalizedFds(dead) /\ kernel[f].open
      BY <1>1, <2>3 DEF Closed
    <3>2. PICK h \in Handles : sock[h].fd = f
      BY <1>5, <3>1, NetAssumption DEF IInv, OneOwner, Fds, NoFd
    <3>3. h \notin dead
      BY <1>4, <3>1, <3>2
    <3>4. QED
      BY <1>9, <3>2, <3>3
  <2>4. QED
    BY <1>1, <1>5, <2>1, <2>2, <2>3 DEF OneOwner
<1>13. Backing'
  BY <1>1, <1>9, <1>10 DEF IInv, Backing
<1>14. HeldAreReady'
  <2> SUFFICES ASSUME NEW h \in held
               PROVE  /\ sock'[h].backed
                      /\ sock'[h].fd # NoFd => kernel'[sock'[h].fd].open /\ kernel'[sock'[h].fd].blocking
                      /\ sock'[h].made = "tls" /\ sock'[h].fd # NoFd => sock'[h].ssl
    BY <1>1 DEF HeldAreReady
  <2>1. h \in Handles \ dead
    BY <1>2 DEF IInv, Types
  <2>2. QED
    BY <1>9, <1>11, <2>1 DEF IInv, HeldAreReady, Types, SockType
<1>15. Counted'
  <2>1. Encrypted' = Encrypted \ enc /\ enc \subseteq Encrypted
    BY <1>2, <1>3, <1>9, <1>10 DEF Encrypted
  <2>2. IsFiniteSet(Encrypted)
    BY NetAssumption, FS_Subset DEF Encrypted
  <2>3. Cardinality(Encrypted') = Cardinality(Encrypted) - Cardinality(enc)
    <3>1. enc = Encrypted \cap enc
      BY <2>1
    <3>2. QED
      BY <2>1, <2>2, <3>1, FS_Difference
  <2>4. Cardinality(Encrypted) \in Nat /\ Cardinality(enc) \in Nat
    BY <2>1, <2>2, FS_Subset, FS_CardinalityType
  <2>5. sessions = Cardinality(Encrypted) /\ contexts = Cardinality(Encrypted)
    BY <1>5, <2>4 DEF IInv, Counted
  <2>6. sessions' = Cardinality(Encrypted') /\ contexts' = Cardinality(Encrypted')
    BY <1>1, <2>3, <2>5
  <2>7. ~call'.ssl /\ ~call'.ctx /\ Cardinality(Encrypted') \in Int
    BY <1>1, <1>5, <2>3, <2>4
  <2>8. QED
    BY <2>6, <2>7 DEF Counted
<1>16. QED
  BY <1>6, <1>7, <1>8, <1>12, <1>13, <1>14, <1>15 DEF IInv

(* A primitive begins, or moves on, without touching any socket.           *)
LEMMA CallOnly ==
  ASSUME IInv, UNCHANGED <<kernel, sock, held, sessions, contexts>>,
         CallType', Locals', Making',
         call'.fd = call.fd, call'.ssl = call.ssl, call'.ctx = call.ctx
  PROVE  IInv'
<1>1. Types'
  BY DEF IInv, Types, SockType, KernelType
<1>2. OneOwner'
  BY DEF IInv, OneOwner
<1>3. Backing' /\ HeldAreReady'
  BY DEF IInv, Backing, HeldAreReady
<1>4. Counted'
  BY SameCount DEF IInv
<1>5. QED
  BY <1>1, <1>2, <1>3, <1>4 DEF IInv

LEMMA KeepBegin ==
  ASSUME IInv, NEW op \in Creators, NEW t \in Timeouts, Begin(op, t)
  PROVE  IInv'
<1>1. /\ call = Idle /\ ~addrinfo /\ op # "accept" /\ op # "no"
      /\ call' = [Idle EXCEPT !.pc = "handle", !.op = op, !.timeout = t]
      /\ UNCHANGED <<kernel, sock, held, addrinfo, sessions, contexts>>
  BY AtIdle DEF Begin, tls, Creators
<1>2. /\ call'.pc = "handle" /\ call'.op = op /\ call'.h = NoHandle /\ call'.arg = NoHandle
      /\ call'.fd = NoFd /\ call'.ssl = FALSE /\ call'.ctx = FALSE
  BY <1>1 DEF Idle
<1>3. CallType'
  BY <1>1, IdleType DEF CallType, Places
<1>4. Locals'
  BY <1>1, <1>2, NoHandleIsNone DEF Locals, WithOwn, WithFd, Looping, Shaking
<1>5. Making'
  BY <1>2 DEF Making, WithOwn, Looping, Shaking
<1>6. QED
  BY <1>1, <1>2, <1>3, <1>4, <1>5, NoHandleIsNone, CallOnly

LEMMA KeepBeginAccept ==
  ASSUME IInv, NEW l \in Handles, NEW t \in Timeouts, BeginAccept(l, t)
  PROVE  IInv'
<1>1. /\ call = Idle /\ ~addrinfo /\ l \in held /\ sock[l].made = "listen" /\ sock[l].fd # NoFd
      /\ call' = [Idle EXCEPT !.pc = "ready?", !.op = "accept", !.arg = l, !.timeout = t]
      /\ UNCHANGED <<kernel, sock, held, addrinfo, sessions, contexts>>
  BY AtIdle DEF BeginAccept, tls
<1>2. /\ call'.pc = "ready?" /\ call'.op = "accept" /\ call'.h = NoHandle /\ call'.arg = l
      /\ call'.fd = NoFd /\ call'.ssl = FALSE /\ call'.ctx = FALSE
  BY <1>1 DEF Idle
<1>3. CallType'
  BY <1>1, IdleType DEF CallType, Places, Creators
<1>4. Locals'
  BY <1>1, <1>2, NoHandleIsNone DEF Locals, WithOwn, WithFd, Looping, Shaking, ListenFd
<1>5. Making'
  BY <1>2 DEF Making, WithOwn, Looping, Shaking
<1>6. QED
  BY <1>1, <1>2, <1>3, <1>4, <1>5, NoHandleIsNone, CallOnly

LEMMA KeepNewHandle ==
  ASSUME IInv, NewHandle
  PROVE  IInv'
<1>1. call.pc = "handle" /\ UNCHANGED <<kernel, held, addrinfo, sessions, contexts>>
  BY DEF NewHandle, At, tls
<1>2. /\ call.fd = NoFd /\ ~call.ssl /\ ~call.ctx /\ ~addrinfo
      /\ call.op \in Creators
      /\ call.op # "accept" => call.arg = NoHandle
      /\ call.op = "accept" => call.arg \in held /\ sock[call.arg].made = "listen" /\ ListenFd # NoFd
  BY <1>1 DEF IInv, Types, CallType, Locals, WithOwn, WithFd, Looping, Shaking
<1>3. CASE Raise /\ UNCHANGED sock
  BY <1>1, <1>2, <1>3, RaiseKeeps DEF Raise
<1>4. CASE ~(Raise /\ UNCHANGED sock)
  <2>1. PICK h \in Handles :
          /\ sock[h].made = "no"
          /\ sock' = [sock EXCEPT ![h] = [Unused EXCEPT !.made = call.op, !.timeout = call.timeout]]
          /\ call' = [call EXCEPT !.h = h,
               !.pc = CASE call.op = "listen" -> "bind"
                        [] call.op = "accept" -> "accept"
                        [] OTHER              -> "resolve"]
    BY <1>4 DEF NewHandle
  <2>2. /\ sock'[h].made = call.op /\ sock'[h].fd = NoFd
        /\ sock'[h].backed = FALSE /\ sock'[h].ssl = FALSE
        /\ \A g \in Handles \ {h} : sock'[g] = sock[g]
    BY <2>1 DEF IInv, Types, SockType, Unused
  <2>3. sock[h].backed = FALSE /\ sock[h].fd = NoFd /\ ~sock[h].ssl /\ h \notin held
    BY <2>1 DEF IInv, Types, SockType, Backing, HeldAreReady
  <2>4. /\ call'.h = h /\ call'.op = call.op /\ call'.arg = call.arg /\ call'.fd = call.fd
        /\ call'.ssl = call.ssl /\ call'.ctx = call.ctx
    BY <2>1 DEF IInv, Types, CallType
  <2>5. /\ call.op = "listen" => call'.pc = "bind"
        /\ call.op = "accept" => call'.pc = "accept"
        /\ call.op \in {"connect", "tls"} => call'.pc = "resolve"
        /\ call'.pc \in {"bind", "accept", "resolve"}
    BY <1>2, <2>1 DEF IInv, Types, CallType, Creators
  <2>6. Types'
    <3>1. CallType'
      <4>1. PICK p \in Places : call' = [call EXCEPT !.h = h, !.pc = p]
        <5>1. call'.pc \in Places
          BY <2>5 DEF Places, WithOwn
        <5>2. call' = [call EXCEPT !.h = h, !.pc = call'.pc]
          BY <2>1 DEF IInv, Types, CallType
        <5>3. QED
          BY <5>1, <5>2
      <4>2. QED
        BY <4>1 DEF IInv, Types, CallType
    <3>2. SockType'
      BY <1>2, <2>1 DEF IInv, Types, SockType, CallType, Unused
    <3>3. QED
      BY <1>1, <3>1, <3>2 DEF IInv, Types, KernelType
  <2>7. Locals'
    <3>1. call.op = "accept" => sock'[call.arg] = sock[call.arg]
      BY <1>2, <2>2, <2>3 DEF IInv, Types
    <3>2. QED
      BY <1>1, <1>2, <2>4, <2>5, <3>1 DEF Locals, WithOwn, WithFd, Looping, Shaking, ListenFd, Creators
  <2>8. Making'
    BY <1>1, <1>2, <2>2, <2>3, <2>4, <2>5 DEF Making, Shaking
  <2>9. OneOwner'
    BY <1>1, <2>2, <2>3, <2>4 DEF IInv, OneOwner
  <2>10. Backing'
    BY <1>2, <2>2, NetAssumption DEF IInv, Backing
  <2>11. HeldAreReady'
    BY <1>1, <2>2, <2>3 DEF IInv, HeldAreReady, Types
  <2>12. Counted'
    BY <1>1, <2>2, <2>3, <2>4, SameCount DEF IInv
  <2>13. QED
    BY <2>6, <2>7, <2>8, <2>9, <2>10, <2>11, <2>12 DEF IInv
<1>5. QED
  BY <1>3, <1>4

LEMMA KeepResolve ==
  ASSUME IInv, Resolve
  PROVE  IInv'
<1>1. call.pc = "resolve" /\ UNCHANGED <<kernel, sock, sessions, contexts>> /\ held' = held
  BY DEF Resolve, At, tls, Raise
<1>2. /\ call.fd = NoFd /\ ~call.ssl /\ ~call.ctx /\ ~addrinfo
      /\ call.h \in Handles /\ call.op \in {"connect", "tls"}
  BY <1>1 DEF IInv, Locals, WithOwn, WithFd, Looping, Shaking
<1>3. CASE Raise /\ UNCHANGED addrinfo
  BY <1>1, <1>2, <1>3, RaiseKeeps DEF Raise
<1>4. CASE ~(Raise /\ UNCHANGED addrinfo)
  <2>1. PICK n \in 1..AddressMax :
          call' = [call EXCEPT !.pc = "socket", !.left = n] /\ addrinfo' = TRUE
    BY <1>4 DEF Resolve
  <2>2. /\ call'.pc = "socket" /\ call'.h = call.h /\ call'.op = call.op /\ call'.arg = call.arg
        /\ call'.fd = NoFd /\ call'.ssl = call.ssl /\ call'.ctx = call.ctx
    BY <1>2, <2>1 DEF IInv, Types, CallType
  <2>3. CallType'
    <3>1. n \in 0..AddressMax /\ "socket" \in Places
      BY NetAssumption DEF Places, WithOwn, Looping
    <3>2. QED
      BY <2>1, <3>1 DEF IInv, Types, CallType
  <2>4. Locals'
    BY <1>1, <1>2, <2>1, <2>2 DEF IInv, Locals, WithOwn, WithFd, Looping, Shaking, ListenFd
  <2>5. Making'
    BY <1>1, <2>2 DEF IInv, Making, WithOwn, Looping, Shaking
  <2>6. QED
    BY <1>1, <1>2, <2>2, <2>3, <2>4, <2>5, CallOnly
<1>5. QED
  BY <1>3, <1>4

LEMMA KeepInterrupted ==
  ASSUME IInv, Interrupted
  PROVE  IInv'
<1>1. UNCHANGED <<kernel, sock, held, call, addrinfo, sessions, contexts>>
  BY DEF Interrupted, tls
<1>2. CallType' /\ Locals' /\ Making'
  BY <1>1 DEF IInv, Types, CallType, Locals, Making, ListenFd
<1>3. QED
  BY <1>1, <1>2, CallOnly

LEMMA KeepDialFails ==
  ASSUME IInv, DialFails
  PROVE  IInv'
<1>1. /\ call.pc = "socket" /\ ~addrinfo' /\ call' = Idle /\ held' = held
      /\ UNCHANGED <<kernel, sock, sessions, contexts>>
  BY DEF DialFails, At, Raise, tls
<1>2. call.fd = NoFd /\ ~call.ssl /\ ~call.ctx
  BY <1>1 DEF IInv, Locals, WithFd
<1>3. QED
  BY <1>1, <1>2, RaiseKeeps

LEMMA KeepAcceptPoll ==
  ASSUME IInv, AcceptPoll
  PROVE  IInv'
<1>1. call.pc = "ready?" /\ UNCHANGED <<kernel, sock, sessions, contexts, addrinfo>> /\ held' = held
  BY DEF AcceptPoll, At, tls, Raise
<1>2. /\ call.fd = NoFd /\ ~call.ssl /\ ~call.ctx /\ ~addrinfo /\ call.h \notin Handles
      /\ call.op = "accept"
  BY <1>1 DEF IInv, Locals, WithOwn, WithFd, Looping, Shaking
<1>3. CASE Raise
  BY <1>1, <1>2, <1>3, RaiseKeeps DEF Raise
<1>4. CASE Goto("handle")
  <2>1. /\ call'.pc = "handle" /\ call'.h = call.h /\ call'.op = call.op /\ call'.arg = call.arg
        /\ call'.fd = NoFd /\ call'.ssl = call.ssl /\ call'.ctx = call.ctx
    BY <1>2, <1>4 DEF IInv, Types, CallType, Goto
  <2>2. CallType'
    BY <1>4 DEF IInv, Types, CallType, Places, Goto
  <2>3. Locals'
    BY <1>1, <1>2, <2>1 DEF IInv, Locals, WithOwn, WithFd, Looping, Shaking, ListenFd
  <2>4. Making'
    BY <2>1 DEF Making, WithOwn, Looping, Shaking
  <2>5. QED
    BY <1>1, <1>2, <2>1, <2>2, <2>3, <2>4, CallOnly
<1>5. QED
  BY <1>3, <1>4 DEF AcceptPoll

(* The descriptor of a failed attempt is closed before the next address.   *)
LEMMA NextIsSound ==
  ASSUME IInv, call.pc \in Looping, NextAddress, held' = held, addrinfo' = addrinfo,
         UNCHANGED <<sock, sessions, contexts>>,
         \/ call.pc = "socket" /\ call.left > 0 /\ UNCHANGED kernel
         \/ call.pc # "socket" /\ kernel' = [kernel EXCEPT ![call.fd] = Closed]
  PROVE  IInv'
<1>1. /\ call.h \in Handles /\ ~call.ssl /\ ~call.ctx /\ addrinfo /\ call.op \in {"connect", "tls"}
      /\ call.pc = "socket" <=> call.fd = NoFd
  BY DEF IInv, Locals, WithOwn, WithFd, Looping, Shaking
<1>2. /\ call'.pc = "socket" /\ call'.h = call.h /\ call'.op = call.op /\ call'.arg = call.arg
      /\ call'.fd = NoFd /\ call'.ssl = call.ssl /\ call'.ctx = call.ctx
  BY DEF IInv, Types, CallType, NextAddress
<1>3. Types'
  <2>1. call.left - 1 \in 0..AddressMax /\ "socket" \in Places
    BY NetAssumption DEF IInv, Types, CallType, Locals, Places, WithOwn, Looping
  <2>2. CallType'
    BY <2>1 DEF IInv, Types, CallType, NextAddress
  <2>3. QED
    BY <2>2, FdFacts DEF IInv, Types, SockType, KernelType, FdType
<1>4. Locals'
  BY <1>1, <1>2 DEF IInv, Locals, WithOwn, WithFd, Looping, Shaking, ListenFd
<1>5. Making'
  BY <1>1, <1>2 DEF IInv, Making, WithOwn, Looping, Shaking
<1>6. \A f \in Fds : f # call.fd => kernel'[f] = kernel[f]
  BY DEF IInv, Types, KernelType
<1>7. call.fd \in Fds => kernel'[call.fd].open = FALSE
  BY <1>1, NetAssumption DEF IInv, Types, KernelType, Closed, Fds, NoFd
<1>8. OneOwner'
  BY <1>2, <1>6, <1>7 DEF IInv, OneOwner, Types, SockType, CallType
<1>9. Backing'
  BY DEF IInv, Backing
<1>10. HeldAreReady'
  BY <1>6 DEF IInv, HeldAreReady, OneOwner, Types, SockType
<1>11. Counted'
  BY <1>2, SameCount DEF IInv
<1>12. QED
  BY <1>3, <1>4, <1>5, <1>8, <1>9, <1>10, <1>11 DEF IInv

(* A new descriptor is the primitive's own. *)
LEMMA NewFd ==
  ASSUME IInv, FreeFds # {}, call.fd = NoFd, call'.fd = Lowest, UNCHANGED sock, held' = held,
         kernel'[Lowest].open, KernelType',
         \A f \in Fds : f # Lowest => /\ kernel'[f].open <=> kernel[f].open
                                      /\ kernel'[f].blocking <=> kernel[f].blocking
  PROVE  OneOwner' /\ Backing' /\ HeldAreReady'
<1>1. Lowest \in Fds /\ ~kernel[Lowest].open /\ Lowest # NoFd
  BY LowestIsFree DEF IInv
<1>2. \A h \in Handles : sock[h].fd # Lowest
  BY <1>1 DEF IInv, OneOwner
<1> HIDE DEF Lowest
<1>3. OneOwner'
  <2>1. \A h \in Handles : sock'[h].fd # NoFd => kernel'[sock'[h].fd].open /\ sock'[h].fd # call'.fd
    BY <1>1, <1>2 DEF IInv, OneOwner, Types, SockType
  <2>2. \A f \in Fds : kernel'[f].open => call'.fd = f \/ \E h \in Handles : sock'[h].fd = f
    <3>1. ASSUME NEW f \in Fds, kernel'[f].open, f # Lowest PROVE \E h \in Handles : sock'[h].fd = f
      BY <1>1, <3>1, NetAssumption DEF IInv, OneOwner, Fds, NoFd
    <3>2. QED
      BY <3>1
  <2>3. QED
    BY <1>1, <2>1, <2>2 DEF IInv, OneOwner
<1>4. Backing'
  BY DEF IInv, Backing
<1>5. HeldAreReady'
  BY <1>2 DEF IInv, HeldAreReady, Types, SockType
<1>6. QED
  BY <1>3, <1>4, <1>5

LEMMA KeepDialSocket ==
  ASSUME IInv, DialSocket
  PROVE  IInv'
<1>1. /\ call.pc = "socket" /\ call.left > 0
      /\ UNCHANGED <<sock, held, addrinfo, sessions, contexts>>
  BY DEF DialSocket, At, tls
<1>2. /\ call.fd = NoFd /\ ~call.ssl /\ ~call.ctx /\ addrinfo
      /\ call.h \in Handles /\ call.op \in {"connect", "tls"}
  BY <1>1 DEF IInv, Locals, WithOwn, WithFd, Looping, Shaking
<1>3. CASE NextAddress /\ UNCHANGED kernel
  BY <1>1, <1>3, NextIsSound DEF Looping
<1>4. CASE /\ FreeFds # {}
           /\ call' = [call EXCEPT !.pc = "connect", !.fd = Lowest]
           /\ kernel' = [kernel EXCEPT ![Lowest] = OpenFd]
  <2>1. Lowest \in Fds /\ Lowest # NoFd
    BY <1>4, LowestIsFree DEF IInv
  <2> DEFINE low == Lowest
  <2>2. call' = [call EXCEPT !.pc = "connect", !.fd = low] /\ kernel' = [kernel EXCEPT ![low] = OpenFd]
        /\ low \in Fds /\ low # NoFd
    BY <1>4, <2>1
  <2> HIDE DEF low
  <2>3. /\ call'.pc = "connect" /\ call'.left = call.left /\ call'.h = call.h /\ call'.op = call.op /\ call'.arg = call.arg
        /\ call'.fd = low /\ call'.ssl = call.ssl /\ call'.ctx = call.ctx
    BY <2>2 DEF IInv, Types, CallType
  <2>4. CallType'
    BY <2>2 DEF IInv, Types, CallType, Places, WithOwn, Looping
  <2>5. KernelType' /\ kernel'[low].open = TRUE /\ \A f \in Fds : f # low => kernel'[f] = kernel[f]
    BY <2>2, FdFacts DEF IInv, Types, KernelType, FdType
  <2>6. Types'
    BY <1>1, <2>4, <2>5 DEF IInv, Types, SockType
  <2>7. Locals'
    BY <1>1, <1>2, <2>2, <2>3 DEF IInv, Locals, WithOwn, WithFd, Looping, Shaking, ListenFd
  <2>8. Making'
    BY <1>1, <1>2, <2>3 DEF IInv, Making, WithOwn, Looping, Shaking
  <2>9. OneOwner' /\ Backing' /\ HeldAreReady'
    BY <1>1, <1>2, <1>4, <2>3, <2>5, NewFd DEF low, KernelType
  <2>10. Counted'
    BY <1>1, <2>3, SameCount DEF IInv
  <2>11. QED
    BY <2>6, <2>7, <2>8, <2>9, <2>10 DEF IInv
<1>5. QED
  BY <1>3, <1>4 DEF DialSocket

(* Only a descriptor's deadline, mode and queue change. *)
LEMMA TunedFd ==
  ASSUME IInv, UNCHANGED <<sock, held>>, call'.fd = call.fd, KernelType',
         \A f \in Fds : /\ kernel'[f].open <=> kernel[f].open
                        /\ f # call.fd => (kernel'[f].blocking <=> kernel[f].blocking)
  PROVE  OneOwner' /\ Backing' /\ HeldAreReady'
<1>1. OneOwner'
  BY DEF IInv, OneOwner, Types, SockType, CallType
<1>2. Backing'
  BY DEF IInv, Backing
<1>3. HeldAreReady'
  BY DEF IInv, HeldAreReady, OneOwner, Types, SockType
<1>4. QED
  BY <1>1, <1>2, <1>3

LEMMA ConnectedIsSound ==
  ASSUME IInv, call.pc \in {"connect", "connecting?"}, Connected, UNCHANGED <<sock, held, sessions, contexts>>
  PROVE  IInv'
<1>1. /\ call.fd \in Fds /\ call.fd # NoFd /\ ~call.ssl /\ ~call.ctx
      /\ call.h \in Handles /\ call.op \in {"connect", "tls"}
  BY DEF IInv, Types, CallType, Locals, WithOwn, WithFd, Looping, Shaking
<1>2. /\ call'.pc = "attach" /\ call'.h = call.h /\ call'.op = call.op /\ call'.arg = call.arg
      /\ call'.fd = call.fd /\ call'.ssl = call.ssl /\ call'.ctx = call.ctx
  BY DEF IInv, Types, CallType, Connected, Goto
<1>3. CallType'
  BY DEF IInv, Types, CallType, Connected, Goto, Places, WithOwn
<1>4. Deadline(call.timeout) \in Int
  <2>1. call.timeout \in Timeouts \cup {Absent}
    BY DEF IInv, Types, CallType
  <2>2. Timeouts \subseteq Int
    BY NetAssumption
  <2>3. NoDeadline \in Int
    BY DEF NoDeadline
  <2>4. QED
    BY <2>1, <2>2, <2>3, Zenon DEF Deadline
<1>5. KernelType'
  BY <1>1, <1>4 DEF IInv, Types, KernelType, Connected
<1>6. /\ kernel'[call.fd].blocking = TRUE
      /\ \A f \in Fds : /\ kernel'[f].open <=> kernel[f].open
                        /\ f # call.fd => (kernel'[f].blocking <=> kernel[f].blocking)
  BY <1>1 DEF IInv, Types, KernelType, Connected
<1>7. Types'
  BY <1>3, <1>5 DEF IInv, Types, SockType
<1>8. addrinfo' = FALSE
  BY DEF Connected
<1>9. Locals'
  BY <1>1, <1>2, <1>8 DEF IInv, Locals, WithOwn, WithFd, Looping, Shaking, ListenFd
<1>10. Making'
  BY <1>1, <1>2, <1>6 DEF IInv, Making, WithOwn, Looping, Shaking
<1>11. OneOwner' /\ Backing' /\ HeldAreReady'
  BY <1>2, <1>5, <1>6, TunedFd
<1>12. Counted'
  BY <1>2, SameCount DEF IInv
<1>13. QED
  BY <1>7, <1>9, <1>10, <1>11, <1>12 DEF IInv

LEMMA KeepConnect ==
  ASSUME IInv, ConnectNow \/ ConnectPolled
  PROVE  IInv'
<1>1. call.pc \in {"connect", "connecting?"} /\ UNCHANGED <<sock, held, sessions, contexts>>
  BY DEF ConnectNow, ConnectPolled, At, tls
<1>2. CASE Connected
  BY <1>1, <1>2, ConnectedIsSound
<1>3. CASE Failed /\ UNCHANGED addrinfo
  BY <1>1, <1>3, NextIsSound DEF Failed, Looping
<1>4. Connected \/ (Failed /\ UNCHANGED addrinfo)
  BY DEF ConnectNow, ConnectPolled
<1>5. QED
  BY <1>2, <1>3, <1>4, Zenon

LEMMA KeepInProgress ==
  ASSUME IInv, ConnectInProgress
  PROVE  IInv'
<1>1. /\ call.pc = "connect" /\ Goto("connecting?") /\ kernel' = [kernel EXCEPT ![call.fd].blocking = FALSE]
      /\ UNCHANGED <<sock, held, addrinfo, sessions, contexts>>
  BY DEF ConnectInProgress, At, tls
<1>2. /\ call.fd \in Fds /\ call.fd # NoFd /\ ~call.ssl /\ ~call.ctx /\ addrinfo
      /\ call.h \in Handles /\ call.op \in {"connect", "tls"}
  BY <1>1 DEF IInv, Types, CallType, Locals, WithOwn, WithFd, Looping, Shaking
<1>3. /\ call'.pc = "connecting?" /\ call'.left = call.left /\ call'.h = call.h /\ call'.op = call.op /\ call'.arg = call.arg
      /\ call'.fd = call.fd /\ call'.ssl = call.ssl /\ call'.ctx = call.ctx
  BY <1>1 DEF IInv, Types, CallType, Goto
<1>4. CallType'
  BY <1>1 DEF IInv, Types, CallType, Goto, Places, WithOwn, Looping
<1>5. KernelType'
  BY <1>1, <1>2 DEF IInv, Types, KernelType
<1>6. \A f \in Fds : /\ kernel'[f].open <=> kernel[f].open
                     /\ f # call.fd => (kernel'[f].blocking <=> kernel[f].blocking)
  BY <1>1, <1>2 DEF IInv, Types, KernelType
<1>7. Types'
  BY <1>1, <1>4, <1>5 DEF IInv, Types, SockType
<1>8. Locals'
  BY <1>1, <1>2, <1>3 DEF IInv, Locals, WithOwn, WithFd, Looping, Shaking, ListenFd
<1>9. Making'
  BY <1>1, <1>2, <1>3 DEF IInv, Making, WithOwn, Looping, Shaking
<1>10. OneOwner' /\ Backing' /\ HeldAreReady'
  BY <1>1, <1>3, <1>5, <1>6, TunedFd
<1>11. Counted'
  BY <1>1, <1>3, SameCount DEF IInv
<1>12. QED
  BY <1>7, <1>8, <1>9, <1>10, <1>11 DEF IInv

LEMMA KeepPeer ==
  ASSUME IInv, NEW f \in Fds, PeerConnects(f) \/ PeerGivesUp(f)
  PROVE  IInv'
<1>1. PICK q \in Nat : kernel' = [kernel EXCEPT ![f].queue = q]
  BY DEF PeerConnects, PeerGivesUp
<1>2. UNCHANGED <<sock, held, call, addrinfo, sessions, contexts>>
  BY DEF PeerConnects, PeerGivesUp, tls
<1>3. KernelType'
  BY <1>1 DEF IInv, Types, KernelType
<1>4. \A g \in Fds : /\ kernel'[g].open <=> kernel[g].open
                     /\ kernel'[g].blocking <=> kernel[g].blocking
  BY <1>1 DEF IInv, Types, KernelType
<1>5. Types'
  BY <1>2, <1>3 DEF IInv, Types, SockType, CallType
<1>6. Locals'
  BY <1>2 DEF IInv, Locals, ListenFd
<1>7. Making'
  <2>1. call.pc = "attach" => call.fd \in Fds
    BY DEF IInv, Types, CallType, Locals, WithFd
  <2>2. call.h \in Handles /\ sock[call.h].fd # NoFd => sock[call.h].fd \in Fds
    BY DEF IInv, Types, SockType
  <2>3. call.pc \in WithOwn => call.h \in Handles
    BY DEF IInv, Locals
  <2>4. QED
    BY <1>2, <1>4, <2>1, <2>2, <2>3 DEF IInv, Making
<1>8. OneOwner' /\ Backing' /\ HeldAreReady'
  BY <1>2, <1>3, <1>4, TunedFd
<1>9. Counted'
  BY <1>2, SameCount DEF IInv
<1>10. QED
  BY <1>5, <1>6, <1>7, <1>8, <1>9 DEF IInv

-----------------------------------------------------------------------------
(* From the descriptor to the handle. *)
LEMMA RowType ==
  ASSUME SockType, NEW h \in Handles, NEW b, sock' = [sock EXCEPT ![h] = b],
         b \in [made : Creators \cup {"no"}, timeout : Timeouts \cup {Absent},
                backed : BOOLEAN, fd : Fds \cup {NoFd}, ssl : BOOLEAN]
  PROVE  SockType'
  BY DEF SockType

LEMMA KeepAttach ==
  ASSUME IInv, Attach
  PROVE  IInv'
<1>1. call.pc = "attach" /\ UNCHANGED <<addrinfo, sessions, contexts>>
  BY DEF Attach, At, tls
<1>2. /\ call.fd \in Fds /\ call.fd # NoFd /\ ~call.ssl /\ ~call.ctx /\ ~addrinfo
      /\ call.h \in Handles /\ call.h \notin held /\ sock[call.h].made = call.op
      /\ ~sock[call.h].ssl /\ ~sock[call.h].backed
      /\ kernel[call.fd].blocking /\ kernel[call.fd].open /\ call.op # "no"
  BY <1>1 DEF IInv, Types, CallType, Locals, Making, OneOwner, WithOwn, WithFd, Looping, Shaking
<1>3. CASE kernel' = [kernel EXCEPT ![call.fd] = Closed] /\ Raise /\ UNCHANGED sock
  <2>1. /\ kernel' = [kernel EXCEPT ![call.fd] = Closed] /\ call' = Idle /\ held' = held /\ sock' = sock
    BY <1>3 DEF Raise
  <2>2. Types'
    BY <2>1, IdleType, FdFacts DEF IInv, Types, CallType, SockType, KernelType, FdType
  <2>3. Locals'
    BY <1>1, <1>2, <2>1, NoHandleIsNone DEF Locals, WithOwn, WithFd, Looping, Shaking
  <2>4. Making'
    BY <2>1, NoHandleIsNone DEF Making, WithOwn, Looping, Shaking
  <2>5. kernel'[call.fd].open = FALSE /\ \A f \in Fds : f # call.fd => kernel'[f] = kernel[f]
    BY <1>2, <2>1, FdFacts DEF IInv, Types, KernelType
  <2>6. OneOwner'
    BY <1>2, <2>1, <2>5, NoHandleIsNone DEF IInv, OneOwner, Types, SockType
  <2>7. Backing'
    BY <2>1 DEF IInv, Backing
  <2>8. HeldAreReady'
    BY <2>1, <2>5 DEF IInv, HeldAreReady, OneOwner, Types, SockType
  <2>9. Counted'
    BY <1>1, <1>2, <2>1, NoHandleIsNone, SameCount DEF IInv
  <2>10. QED
    BY <2>2, <2>3, <2>4, <2>6, <2>7, <2>8, <2>9 DEF IInv
<1>4. CASE /\ sock' = [sock EXCEPT ![call.h].backed = TRUE, ![call.h].fd = call.fd]
           /\ IF call.op = "tls"
                THEN call' = [call EXCEPT !.pc = "context", !.fd = NoFd] /\ UNCHANGED held
                ELSE Return
           /\ UNCHANGED kernel
  <2>1. /\ sock' = [sock EXCEPT ![call.h].backed = TRUE, ![call.h].fd = call.fd] /\ kernel' = kernel
    BY <1>4
  <2>2. /\ sock'[call.h].backed = TRUE /\ sock'[call.h].fd = call.fd
        /\ sock'[call.h].made = call.op /\ sock'[call.h].ssl = sock[call.h].ssl
        /\ \A h \in Handles : h # call.h => sock'[h] = sock[h]
    BY <1>2, <2>1 DEF IInv, Types, SockType
  <2>3. SockType'
    <3> DEFINE row == [sock[call.h] EXCEPT !.backed = TRUE, !.fd = call.fd]
    <3>1. sock' = [sock EXCEPT ![call.h] = row]
      BY <1>2, <2>1 DEF IInv, Types, SockType
    <3>2. row \in [made : Creators \cup {"no"}, timeout : Timeouts \cup {Absent},
                   backed : BOOLEAN, fd : Fds \cup {NoFd}, ssl : BOOLEAN]
      BY <1>2 DEF IInv, Types, SockType
    <3> HIDE DEF row
    <3>3. QED
      BY <1>2, <3>1, <3>2, RowType DEF IInv, Types
  <2>4. \A h \in Handles : sock'[h].made = sock[h].made /\ (sock'[h].ssl <=> sock[h].ssl)
    BY <1>2, <2>2
  <2>5. Backing'
    BY <1>2, <2>2 DEF IInv, Backing
  <2>6. \A h \in Handles : sock[h].fd # call.fd
    BY <1>2 DEF IInv, OneOwner
  <2>7. /\ \A h \in Handles : sock'[h].fd # NoFd => kernel'[sock'[h].fd].open
        /\ \A g, h \in Handles : sock'[g].fd = sock'[h].fd /\ sock'[g].fd # NoFd => g = h
        /\ \A f \in Fds : kernel'[f].open => \E h \in Handles : sock'[h].fd = f
    <3>1. \A h \in Handles : sock'[h].fd # NoFd => kernel'[sock'[h].fd].open
      <4>1. \A h \in Handles : sock[h].fd # NoFd => kernel[sock[h].fd].open
        BY DEF IInv, OneOwner
      <4>2. QED
        BY <1>2, <2>1, <2>2, <4>1
    <3>2. \A g, h \in Handles : sock'[g].fd = sock'[h].fd /\ sock'[g].fd # NoFd => g = h
      BY <1>2, <2>2, <2>6 DEF IInv, OneOwner
    <3>3. ASSUME NEW f \in Fds, kernel'[f].open PROVE \E h \in Handles : sock'[h].fd = f
      <4>1. CASE call.fd = f
        BY <1>2, <2>2, <4>1
      <4>2. CASE call.fd # f
        <5>1. PICK h \in Handles : sock[h].fd = f
          BY <2>1, <3>3, <4>2 DEF IInv, OneOwner
        <5>2. h # call.h
          BY <1>2, <5>1, NetAssumption DEF IInv, Backing, Fds, NoFd
        <5>3. QED
          BY <2>2, <5>1, <5>2
      <4>3. QED
        BY <4>1, <4>2
    <3>4. QED
      BY <3>1, <3>2, <3>3
  <2>8. CASE call.op = "tls"
    <3>1. call' = [call EXCEPT !.pc = "context", !.fd = NoFd] /\ held' = held
      BY <1>4, <2>8
    <3>2. /\ call'.pc = "context" /\ call'.h = call.h /\ call'.op = "tls" /\ call'.arg = call.arg
          /\ call'.fd = NoFd /\ call'.ssl = call.ssl /\ call'.ctx = call.ctx
      BY <2>8, <3>1 DEF IInv, Types, CallType
    <3>3. CallType'
      BY <3>1 DEF IInv, Types, CallType, Places, WithOwn, Shaking
    <3>4. Types'
      BY <2>1, <2>3, <3>1, <3>3 DEF IInv, Types, KernelType
    <3>5. Locals'
      BY <1>1, <1>2, <2>8, <3>2 DEF IInv, Locals, WithOwn, WithFd, Looping, Shaking
    <3>6. Making'
      BY <1>2, <2>1, <2>2, <2>8, <3>1, <3>2 DEF Making, WithOwn, Looping, Shaking
    <3>7. OneOwner'
      BY <2>7, <3>2 DEF OneOwner
    <3>8. HeldAreReady'
      <4>1. \A h \in held : h \in Handles /\ sock'[h] = sock[h]
        BY <1>2, <2>2 DEF IInv, Types
      <4>2. QED
        BY <2>1, <3>1, <4>1 DEF IInv, HeldAreReady
    <3>9. Counted'
      BY <1>1, <2>4, <3>2, SameCount DEF IInv
    <3>10. QED
      BY <2>5, <3>4, <3>5, <3>6, <3>7, <3>8, <3>9 DEF IInv
  <2>9. CASE call.op # "tls"
    <3>1. call' = Idle /\ held' = held \cup {call.h}
      BY <1>4, <2>9 DEF Return
    <3>2. Types'
      BY <1>2, <2>1, <2>3, <3>1, IdleType DEF IInv, Types, CallType, KernelType
    <3>3. Locals'
      BY <1>1, <1>2, <3>1, NoHandleIsNone DEF Locals, WithOwn, WithFd, Looping, Shaking
    <3>4. Making'
      BY <3>1, NoHandleIsNone DEF Making, WithOwn, Looping, Shaking
    <3>5. OneOwner'
      BY <2>7, <3>1, NoHandleIsNone DEF OneOwner
    <3>6. HeldAreReady'
      <4>1. /\ \A h \in held : h \in Handles /\ sock'[h] = sock[h]
            /\ kernel' = kernel /\ kernel[call.fd].blocking
        BY <1>2, <2>1, <2>2 DEF IInv, Types
      <4>2. HeldAreReady /\ sock'[call.h].made = call.op
        BY <2>2 DEF IInv
      <4>3. \A h \in held :
              /\ sock'[h].backed
              /\ sock'[h].fd # NoFd => kernel'[sock'[h].fd].open /\ kernel'[sock'[h].fd].blocking
              /\ sock'[h].made = "tls" /\ sock'[h].fd # NoFd => sock'[h].ssl
        BY <4>1, <4>2 DEF HeldAreReady
      <4>4. /\ sock'[call.h].backed /\ kernel'[sock'[call.h].fd].blocking
            /\ kernel'[sock'[call.h].fd].open
        BY <1>2, <2>2, <4>1
      <4>5. QED
        BY <2>9, <3>1, <4>2, <4>3, <4>4 DEF HeldAreReady
    <3>7. Counted'
      BY <1>1, <1>2, <2>4, <3>1, NoHandleIsNone, SameCount DEF IInv
    <3>8. QED
      BY <2>5, <3>2, <3>3, <3>4, <3>5, <3>6, <3>7 DEF IInv
  <2>10. QED
    BY <2>8, <2>9
<1>5. QED
  BY <1>3, <1>4 DEF Attach

-----------------------------------------------------------------------------
(* The handshake. *)
LEMMA CountFacts ==
  ASSUME IInv
  PROVE  /\ IsFiniteSet(Encrypted) /\ Cardinality(Encrypted) \in Nat
         /\ sessions \in Nat /\ contexts \in Nat
<1>1. IsFiniteSet(Encrypted)
  BY NetAssumption, FS_Subset DEF Encrypted
<1>2. Cardinality(Encrypted) \in Nat
  BY <1>1, FS_CardinalityType
<1>3. QED
  BY <1>1, <1>2 DEF IInv, Counted

(* SSL_CTX_new and SSL_new: one more object, in a local. *)
LEMMA ShakeOn ==
  ASSUME IInv, NEW pc \in Shaking, call.pc \in Shaking,
         call'.pc = pc, call'.h = call.h, call'.op = call.op, call'.arg = call.arg,
         call'.fd = call.fd, CallType', Counted', UNCHANGED <<kernel, sock, held, addrinfo>>,
         call'.ctx <=> pc \in {"session", "handshake"}, call'.ssl <=> pc = "handshake"
  PROVE  IInv'
<1>1. Types'
  BY DEF IInv, Types, SockType, KernelType
<1>2. call.h \in Handles /\ call.fd = NoFd /\ ~addrinfo /\ call.op = "tls"
  BY DEF IInv, Locals, WithOwn, WithFd, Looping, Shaking
<1>3. Locals'
  BY <1>2 DEF IInv, Locals, WithOwn, WithFd, Looping, Shaking
<1>4. Making'
  BY DEF IInv, Making, WithOwn, Looping, Shaking
<1>5. OneOwner' /\ Backing' /\ HeldAreReady'
  BY DEF IInv, OneOwner, Backing, HeldAreReady
<1>6. QED
  BY <1>1, <1>3, <1>4, <1>5 DEF IInv

LEMMA KeepTlsContext ==
  ASSUME IInv, TlsContext
  PROVE  IInv'
<1>1. call.pc = "context" /\ UNCHANGED <<kernel, sock, addrinfo, sessions>> /\ held' = held
  BY DEF TlsContext, At, Raise
<1>2. call.fd = NoFd /\ ~call.ssl /\ ~call.ctx /\ ~addrinfo
  BY <1>1 DEF IInv, Locals, WithFd, Looping
<1>3. CASE Raise /\ UNCHANGED contexts
  BY <1>1, <1>2, <1>3, RaiseKeeps DEF Raise
<1>4. CASE contexts' = contexts + 1 /\ call' = [call EXCEPT !.pc = "session", !.ctx = TRUE]
  <2>1. /\ call'.pc = "session" /\ call'.h = call.h /\ call'.op = call.op /\ call'.arg = call.arg
        /\ call'.fd = call.fd /\ call'.ssl = call.ssl /\ call'.ctx = TRUE
    BY <1>4 DEF IInv, Types, CallType
  <2>2. CallType'
    BY <1>4 DEF IInv, Types, CallType, Places, WithOwn, Shaking
  <2>3. Counted'
    <3>1. Encrypted' = Encrypted
      BY <1>1 DEF Encrypted
    <3>2. QED
      BY <1>1, <1>2, <1>4, <2>1, <3>1, CountFacts DEF IInv, Counted
  <2>4. QED
    BY <1>1, <1>2, <2>1, <2>2, <2>3, ShakeOn DEF Shaking
<1>5. QED
  BY <1>3, <1>4 DEF TlsContext

LEMMA KeepTlsSession ==
  ASSUME IInv, TlsSession
  PROVE  IInv'
<1>1. call.pc = "session" /\ UNCHANGED <<kernel, sock, addrinfo>> /\ held' = held
  BY DEF TlsSession, At, Raise
<1>2. call.fd = NoFd /\ ~call.ssl /\ call.ctx /\ ~addrinfo
  BY <1>1 DEF IInv, Locals, WithFd, Looping
<1>3. Encrypted' = Encrypted
  BY <1>1 DEF Encrypted
<1>4. CASE Raise /\ contexts' = contexts - 1 /\ UNCHANGED sessions
  <2>1. Counted'
    BY <1>2, <1>3, <1>4, NoHandleIsNone, CountFacts DEF Raise, IInv, Counted
  <2>2. QED
    BY <1>1, <1>2, <1>4, <2>1, LeaveKeeps DEF Raise
<1>5. CASE sessions' = sessions + 1 /\ call' = [call EXCEPT !.pc = "handshake", !.ssl = TRUE]
           /\ UNCHANGED contexts
  <2>1. /\ call'.pc = "handshake" /\ call'.h = call.h /\ call'.op = call.op /\ call'.arg = call.arg
        /\ call'.fd = call.fd /\ call'.ssl = TRUE /\ call'.ctx = call.ctx
    BY <1>5 DEF IInv, Types, CallType
  <2>2. CallType'
    BY <1>5 DEF IInv, Types, CallType, Places, WithOwn, Shaking
  <2>3. Counted'
    BY <1>2, <1>3, <1>5, <2>1, CountFacts DEF IInv, Counted
  <2>4. QED
    BY <1>1, <1>2, <2>1, <2>2, <2>3, ShakeOn DEF Shaking
<1>6. QED
  BY <1>4, <1>5 DEF TlsSession

(* The session goes into the handle, or is freed. *)
LEMMA KeepHandshake ==
  ASSUME IInv, Handshake
  PROVE  IInv'
<1>1. call.pc = "handshake" /\ UNCHANGED <<kernel, addrinfo>>
  BY DEF Handshake, At
<1>2. /\ call.fd = NoFd /\ call.ssl /\ call.ctx /\ ~addrinfo
      /\ call.h \in Handles /\ call.h \notin held /\ ~sock[call.h].ssl
      /\ sock[call.h].made = "tls" /\ sock[call.h].backed /\ sock[call.h].fd # NoFd
      /\ kernel[sock[call.h].fd].blocking
  BY <1>1 DEF IInv, Locals, Making, WithOwn, WithFd, Looping, Shaking
<1>3. sessions = Cardinality(Encrypted) + 1 /\ contexts = Cardinality(Encrypted) + 1
  BY <1>2 DEF IInv, Counted
<1>4. CASE HandshakeFails
  <2>1. /\ call' = Idle /\ held' = held /\ sock' = sock
        /\ sessions' = sessions - 1 /\ contexts' = contexts - 1
    BY <1>4 DEF HandshakeFails, Raise
  <2>2. Encrypted' = Encrypted
    BY <2>1 DEF Encrypted
  <2>3. Counted'
    BY <1>3, <2>1, <2>2, NoHandleIsNone, CountFacts DEF Counted
  <2>4. QED
    BY <1>1, <1>2, <2>1, <2>3, LeaveKeeps
<1>5. CASE sock' = [sock EXCEPT ![call.h].ssl = TRUE] /\ Return /\ UNCHANGED tls
  <2>1. /\ sock' = [sock EXCEPT ![call.h].ssl = TRUE] /\ call' = Idle
        /\ held' = held \cup {call.h} /\ UNCHANGED <<sessions, contexts>>
    BY <1>5 DEF Return, tls
  <2>2. /\ \A h \in Handles : h # call.h => sock'[h] = sock[h]
        /\ sock'[call.h].ssl = TRUE
        /\ \A h \in Handles : /\ sock'[h].fd = sock[h].fd /\ sock'[h].made = sock[h].made
                              /\ sock'[h].backed = sock[h].backed
    BY <1>2, <2>1 DEF IInv, Types, SockType
  <2>3. Types'
    <3> DEFINE row == [sock[call.h] EXCEPT !.ssl = TRUE]
    <3>1. sock' = [sock EXCEPT ![call.h] = row]
      BY <1>2, <2>1 DEF IInv, Types, SockType
    <3>2. row \in [made : Creators \cup {"no"}, timeout : Timeouts \cup {Absent},
                   backed : BOOLEAN, fd : Fds \cup {NoFd}, ssl : BOOLEAN]
      <4>1. sock[call.h] \in [made : Creators \cup {"no"}, timeout : Timeouts \cup {Absent},
                             backed : BOOLEAN, fd : Fds \cup {NoFd}, ssl : BOOLEAN]
        BY <1>2 DEF IInv, Types, SockType
      <4>2. QED
        BY <4>1
    <3> HIDE DEF row
    <3>3. SockType'
      BY <1>2, <3>1, <3>2, RowType DEF IInv, Types
    <3>4. QED
      BY <1>1, <1>2, <2>1, <3>3, IdleType DEF IInv, Types, CallType, KernelType
  <2>4. Locals'
    BY <1>1, <1>2, <2>1, NoHandleIsNone DEF Locals, WithOwn, WithFd, Looping, Shaking
  <2>5. Making'
    BY <2>1, NoHandleIsNone DEF Making, WithOwn, Looping, Shaking
  <2>6. OneOwner'
    BY <1>1, <1>2, <2>1, <2>2, NoHandleIsNone DEF IInv, OneOwner
  <2>7. Backing'
    BY <1>2, <2>2 DEF IInv, Backing
  <2>8. HeldAreReady'
    BY <1>1, <1>2, <2>1, <2>2 DEF IInv, HeldAreReady, OneOwner, Types
  <2>9. Counted'
    <3>1. Encrypted' = Encrypted \cup {call.h} /\ call.h \notin Encrypted
      BY <1>2, <2>2 DEF Encrypted
    <3>2. Cardinality(Encrypted') = Cardinality(Encrypted) + 1
      BY <3>1, CountFacts, FS_AddElement
    <3>3. QED
      BY <1>3, <2>1, <3>2, NoHandleIsNone, CountFacts DEF Counted
  <2>10. QED
    BY <2>3, <2>4, <2>5, <2>6, <2>7, <2>8, <2>9 DEF IInv
<1>6. QED
  BY <1>4, <1>5 DEF Handshake

-----------------------------------------------------------------------------
(* tcp-listen, tcp-accept and tcp-close. *)
LEMMA KeepListenSocket ==
  ASSUME IInv, ListenSocket
  PROVE  IInv'
<1>1. call.pc = "bind" /\ UNCHANGED <<sock, addrinfo, sessions, contexts>> /\ held' = held
  BY DEF ListenSocket, At, tls, Raise
<1>2. /\ call.fd = NoFd /\ ~call.ssl /\ ~call.ctx /\ ~addrinfo
      /\ call.h \in Handles /\ call.op = "listen"
  BY <1>1 DEF IInv, Locals, WithOwn, WithFd, Looping, Shaking
<1>3. CASE Raise /\ UNCHANGED kernel
  BY <1>1, <1>2, <1>3, RaiseKeeps DEF Raise
<1>4. CASE /\ FreeFds # {}
           /\ kernel' = [kernel EXCEPT ![Lowest] = OpenFd]
           /\ call' = [call EXCEPT !.pc = "attach", !.fd = Lowest]
  <2>1. Lowest \in Fds /\ Lowest # NoFd
    BY <1>4, LowestIsFree DEF IInv
  <2> DEFINE low == Lowest
  <2>2. call' = [call EXCEPT !.pc = "attach", !.fd = low] /\ kernel' = [kernel EXCEPT ![low] = OpenFd]
        /\ low \in Fds /\ low # NoFd
    BY <1>4, <2>1
  <2> HIDE DEF low
  <2>3. /\ call'.pc = "attach" /\ call'.h = call.h /\ call'.op = call.op /\ call'.arg = call.arg
        /\ call'.fd = low /\ call'.ssl = call.ssl /\ call'.ctx = call.ctx
    BY <2>2 DEF IInv, Types, CallType
  <2>4. CallType'
    BY <2>2 DEF IInv, Types, CallType, Places, WithOwn
  <2>5. /\ KernelType' /\ kernel'[low].open = TRUE /\ kernel'[low].blocking = TRUE
        /\ \A f \in Fds : f # low => kernel'[f] = kernel[f]
    BY <2>2, FdFacts DEF IInv, Types, KernelType, FdType
  <2>6. Types'
    BY <1>1, <2>4, <2>5 DEF IInv, Types, SockType
  <2>7. Locals'
    BY <1>1, <1>2, <2>2, <2>3 DEF IInv, Locals, WithOwn, WithFd, Looping, Shaking, ListenFd
  <2>8. Making'
    BY <1>1, <1>2, <2>3, <2>5 DEF IInv, Making, WithOwn, Looping, Shaking
  <2>9. OneOwner' /\ Backing' /\ HeldAreReady'
    BY <1>1, <1>2, <1>4, <2>3, <2>5, NewFd DEF low, KernelType
  <2>10. Counted'
    BY <1>1, <2>3, SameCount DEF IInv
  <2>11. QED
    BY <2>6, <2>7, <2>8, <2>9, <2>10 DEF IInv
<1>5. QED
  BY <1>3, <1>4 DEF ListenSocket

(* The listener is open, so the number of the new connection is another.   *)
LEMMA KeepAccept ==
  ASSUME IInv, Accept
  PROVE  IInv'
<1>1. call.pc = "accept" /\ UNCHANGED <<sock, addrinfo, sessions, contexts>> /\ held' = held
  BY DEF Accept, At, tls, Raise
<1>2. /\ call.fd = NoFd /\ ~call.ssl /\ ~call.ctx /\ ~addrinfo
      /\ call.h \in Handles /\ call.op = "accept"
  BY <1>1 DEF IInv, Locals, WithOwn, WithFd, Looping, Shaking
<1>3. CASE Raise /\ UNCHANGED kernel
  BY <1>1, <1>2, <1>3, RaiseKeeps DEF Raise
<1>4. CASE /\ kernel[ListenFd].queue > 0 /\ FreeFds # {}
           /\ kernel' = [kernel EXCEPT ![ListenFd].queue = @ - 1,
                           ![Lowest] = [OpenFd EXCEPT !.deadline = Deadline(call.timeout)]]
           /\ call' = [call EXCEPT !.pc = "attach", !.fd = Lowest]
  <2>1. /\ Lowest \in Fds /\ Lowest # NoFd /\ ~kernel[Lowest].open
    BY <1>4, LowestIsFree DEF IInv
  <2>2. ListenFd \in Fds /\ kernel[ListenFd].open
    BY <1>2 DEF IInv, Types, SockType, Locals, OneOwner, ListenFd
  <2> DEFINE low == Lowest
             lis == ListenFd
             new == [OpenFd EXCEPT !.deadline = Deadline(call.timeout)]
             rest == kernel[lis].queue - 1
  <2>3. /\ call' = [call EXCEPT !.pc = "attach", !.fd = low]
        /\ kernel' = [kernel EXCEPT ![lis].queue = rest, ![low] = new]
        /\ low \in Fds /\ low # NoFd /\ lis \in Fds /\ low # lis
    BY <1>4, <2>1, <2>2
  <2>4. rest \in Nat
    BY <1>4, <2>2 DEF IInv, Types, KernelType
  <2>5. new \in FdType /\ new.open = TRUE /\ new.blocking = TRUE
    <3>1. call.timeout \in Timeouts \cup {Absent} /\ Timeouts \subseteq Int /\ NoDeadline \in Int
      BY NetAssumption DEF IInv, Types, CallType, NoDeadline
    <3>2. Deadline(call.timeout) \in Int
      BY <3>1, Zenon DEF Deadline
    <3>3. QED
      BY <3>2, FdFacts DEF FdType
  <2> HIDE DEF low, lis, new, rest
  <2>6. /\ call'.pc = "attach" /\ call'.h = call.h /\ call'.op = call.op /\ call'.arg = call.arg
        /\ call'.fd = low /\ call'.ssl = call.ssl /\ call'.ctx = call.ctx
    BY <2>3 DEF IInv, Types, CallType
  <2>7. CallType'
    BY <2>3 DEF IInv, Types, CallType, Places, WithOwn
  <2>8. KernelType'
    <3>1. [kernel EXCEPT ![lis].queue = rest] \in [Fds -> FdType]
      BY <2>3, <2>4 DEF IInv, Types, KernelType, FdType
    <3>2. QED
      BY <2>3, <2>5, <3>1 DEF KernelType, FdType
  <2>9. /\ kernel'[low].open = TRUE /\ kernel'[low].blocking = TRUE
        /\ \A f \in Fds : f # low => /\ kernel'[f].open <=> kernel[f].open
                                     /\ kernel'[f].blocking <=> kernel[f].blocking
    BY <2>3, <2>5 DEF IInv, Types, KernelType
  <2>10. Types'
    BY <1>1, <2>7, <2>8 DEF IInv, Types, SockType
  <2>11. Locals'
    BY <1>1, <1>2, <2>3, <2>6 DEF IInv, Locals, WithOwn, WithFd, Looping, Shaking, ListenFd
  <2>12. Making'
    BY <1>1, <1>2, <2>6, <2>9 DEF IInv, Making, WithOwn, Looping, Shaking
  <2>13. OneOwner' /\ Backing' /\ HeldAreReady'
    BY <1>1, <1>2, <1>4, <2>6, <2>8, <2>9, NewFd DEF low
  <2>14. Counted'
    BY <1>1, <2>6, SameCount DEF IInv
  <2>15. QED
    BY <2>10, <2>11, <2>12, <2>13, <2>14 DEF IInv
<1>5. QED
  BY <1>3, <1>4 DEF Accept

(* A handle that is closed twice owns nothing the second time. *)
LEMMA KeepClose ==
  ASSUME IInv, NEW h \in Handles, Close(h)
  PROVE  IInv'
<1>1. /\ At("idle") /\ h \in held /\ sock[h].backed
      /\ sessions' = IF sock[h].ssl THEN sessions - 1 ELSE sessions
      /\ contexts' = IF sock[h].ssl THEN contexts - 1 ELSE contexts
      /\ kernel' = [f \in Fds |-> IF f = sock[h].fd THEN Closed ELSE kernel[f]]
      /\ sock' = [sock EXCEPT ![h].ssl = FALSE, ![h].fd = NoFd]
      /\ UNCHANGED <<held, call, addrinfo>>
  BY DEF Close
<1>2. call = Idle /\ ~addrinfo /\ call.fd = NoFd /\ ~call.ssl /\ ~call.ctx
  BY <1>1, AtIdle
<1>3. /\ \A g \in Handles : g # h => sock'[g] = sock[g]
      /\ sock'[h].fd = NoFd /\ sock'[h].ssl = FALSE
      /\ sock'[h].backed = sock[h].backed /\ sock'[h].made = sock[h].made
  BY <1>1 DEF IInv, Types, SockType
<1>4. /\ \A f \in Fds : f # sock[h].fd => kernel'[f] = kernel[f]
      /\ \A f \in Fds : f = sock[h].fd => kernel'[f].open = FALSE
  BY <1>1, FdFacts
<1>5. Types'
  <2>1. SockType'
    <3> DEFINE row == [sock[h] EXCEPT !.ssl = FALSE, !.fd = NoFd]
    <3>1. sock' = [sock EXCEPT ![h] = row]
      BY <1>1 DEF IInv, Types, SockType
    <3>2. row \in [made : Creators \cup {"no"}, timeout : Timeouts \cup {Absent},
                   backed : BOOLEAN, fd : Fds \cup {NoFd}, ssl : BOOLEAN]
      BY DEF IInv, Types, SockType
    <3> HIDE DEF row
    <3>3. QED
      BY <3>1, <3>2, RowType DEF IInv, Types
  <2>2. KernelType'
    BY <1>1, FdFacts DEF IInv, Types, KernelType, FdType
  <2>3. QED
    BY <1>1, <2>1, <2>2 DEF IInv, Types, CallType
<1>6. Locals'
  BY <1>1, <1>2, NoHandleIsNone DEF Locals, WithOwn, WithFd, Looping, Shaking
<1>7. Making'
  BY <1>1, <1>2, NoHandleIsNone DEF Making, WithOwn, Looping, Shaking
<1>8. \A g \in Handles : g # h /\ sock[g].fd # NoFd => sock[g].fd # sock[h].fd
  BY DEF IInv, OneOwner
<1>9. \A g \in Handles : g # h /\ sock[g].fd # NoFd => kernel'[sock[g].fd] = kernel[sock[g].fd]
  BY <1>4, <1>8 DEF IInv, Types, SockType
<1>10. OneOwner'
  <2>1. \A g \in Handles : sock'[g].fd # NoFd => kernel'[sock'[g].fd].open /\ sock'[g].fd # call'.fd
    <3>1. call'.fd = NoFd
      BY <1>1, <1>2
    <3>2. \A g \in Handles : g # h /\ sock[g].fd # NoFd => kernel[sock[g].fd].open
      BY DEF IInv, OneOwner
    <3>3. QED
      BY <1>3, <1>9, <3>1, <3>2
  <2>2. \A f, g \in Handles : sock'[f].fd = sock'[g].fd /\ sock'[f].fd # NoFd => f = g
    BY <1>3 DEF IInv, OneOwner
  <2>3. ASSUME NEW f \in Fds, kernel'[f].open PROVE \E g \in Handles : sock'[g].fd = f
    <3>1. f # sock[h].fd /\ kernel[f].open
      BY <1>4, <2>3
    <3>2. PICK g \in Handles : sock[g].fd = f
      BY <1>2, <3>1, NetAssumption DEF IInv, OneOwner, Fds, NoFd
    <3>3. QED
      BY <1>3, <3>1, <3>2
  <2>4. QED
    BY <1>1, <1>2, <2>1, <2>2, <2>3 DEF OneOwner
<1>11. Backing'
  BY <1>3 DEF IInv, Backing
<1>12. HeldAreReady'
  <2> SUFFICES ASSUME NEW g \in held
               PROVE  /\ sock'[g].backed
                      /\ sock'[g].fd # NoFd => kernel'[sock'[g].fd].open /\ kernel'[sock'[g].fd].blocking
                      /\ sock'[g].made = "tls" /\ sock'[g].fd # NoFd => sock'[g].ssl
    BY <1>1 DEF HeldAreReady
  <2>1. g \in Handles
    BY DEF IInv, Types
  <2>2. CASE g = h
    BY <1>1, <1>3, <2>2
  <2>3. CASE g # h
    BY <1>3, <1>9, <2>1, <2>3 DEF IInv, HeldAreReady
  <2>4. QED
    BY <2>2, <2>3
<1>13. Counted'
  <2>1. Encrypted' = Encrypted \ {h}
    BY <1>3 DEF Encrypted
  <2>2. sessions = Cardinality(Encrypted) /\ contexts = Cardinality(Encrypted)
    BY <1>2, CountFacts DEF IInv, Counted
  <2>3. sock[h].ssl <=> h \in Encrypted
    BY DEF Encrypted
  <2>4. Cardinality(Encrypted') = IF h \in Encrypted THEN Cardinality(Encrypted) - 1 ELSE Cardinality(Encrypted)
    BY <2>1, CountFacts, FS_RemoveElement
  <2>5. sessions' = Cardinality(Encrypted') /\ contexts' = Cardinality(Encrypted')
    BY <1>1, <2>2, <2>3, <2>4, Zenon
  <2>6. Cardinality(Encrypted') \in Int
    BY <2>4, CountFacts
  <2>7. QED
    BY <1>1, <1>2, <2>5, <2>6 DEF Counted
<1>14. QED
  BY <1>5, <1>6, <1>7, <1>10, <1>11, <1>12, <1>13 DEF IInv

-----------------------------------------------------------------------------
LEMMA Inductive == IInv /\ [Next]_vars => IInv'
<1> SUFFICES ASSUME IInv, [Next]_vars PROVE IInv'
  OBVIOUS
<1>1. CASE Collect
  BY <1>1, KeepCollect
<1>2. CASE NewHandle
  BY <1>2, KeepNewHandle
<1>3. CASE Dial
  BY <1>3, KeepResolve, KeepDialSocket, KeepDialFails, KeepConnect, KeepInProgress DEF Dial
<1>4. CASE Interrupted
  BY <1>4, KeepInterrupted
<1>5. CASE Attach
  BY <1>5, KeepAttach
<1>6. CASE TlsContext \/ TlsSession \/ Handshake
  BY <1>6, KeepTlsContext, KeepTlsSession, KeepHandshake
<1>7. CASE ListenSocket \/ AcceptPoll \/ Accept
  BY <1>7, KeepListenSocket, KeepAcceptPoll, KeepAccept
<1>8. CASE \E h \in Handles : Drop(h) \/ Close(h)
  BY <1>8, KeepDrop, KeepClose
<1>9. CASE \E t \in Timeouts : (\E op \in Creators : Begin(op, t)) \/ \E l \in Handles : BeginAccept(l, t)
  BY <1>9, KeepBegin, KeepBeginAccept
<1>10. CASE \E f \in Fds : PeerConnects(f) \/ PeerGivesUp(f)
  BY <1>10, KeepPeer
<1>11. CASE UNCHANGED vars
  <2>1. UNCHANGED <<kernel, sock, held, call, addrinfo, sessions, contexts>>
    BY <1>11 DEF vars
  <2>2. CallType' /\ Locals' /\ Making'
    BY <2>1 DEF IInv, Types, CallType, Locals, Making, ListenFd
  <2>3. QED
    BY <2>1, <2>2, CallOnly
<1>12. QED
  BY <1>1, <1>2, <1>3, <1>4, <1>5, <1>6, <1>7, <1>8, <1>9, <1>10, <1>11 DEF Next

LEMMA Invariant == Spec => []IInv
<1>1. QED
  BY StartIsSound, Inductive, PTL DEF Spec

(* At most one handle has the descriptor, and then the primitive has not. *)
LEMMA OwnersAreCounted ==
  ASSUME IInv, NEW f \in Fds
  PROVE  LET n == Cardinality({h \in Handles : sock[h].fd = f}) + (IF call.fd = f THEN 1 ELSE 0)
         IN n = IF kernel[f].open THEN 1 ELSE 0
<1> DEFINE own == {h \in Handles : sock[h].fd = f}
<1>1. f # NoFd
  BY NetAssumption DEF Fds, NoFd
<1>2. CASE own = {}
  <2>1. Cardinality(own) = 0
    BY <1>2, FS_EmptySet, Zenon
  <2>2. kernel[f].open <=> call.fd = f
    BY <1>1, <1>2 DEF IInv, OneOwner
  <2>3. QED
    BY <2>1, <2>2
<1>3. CASE own # {}
  <2>1. PICK h \in own : TRUE
    BY <1>3
  <2>2. own = {h}
    BY <1>1, <2>1 DEF IInv, OneOwner
  <2>3. Cardinality(own) = 1
    BY <2>2, FS_Singleton, Zenon
  <2>4. kernel[f].open /\ call.fd # f
    BY <1>1, <2>1 DEF IInv, OneOwner
  <2>5. QED
    BY <2>3, <2>4
<1>4. QED
  BY <1>2, <1>3

(* Whatever fails, between any two of its steps, no error path, finalizer  *)
(* or tcp-close strands a descriptor, a TLS session or the address list,   *)
(* or closes what is another's. (net_attach, net_dial, net_tls_start,      *)
(* net_gc)                                                                 *)
THEOREM SocketsHaveOneOwner == Spec => []SocketsOwned
<1>1. IInv => SocketsOwned
  <2> SUFFICES ASSUME IInv PROVE SocketsOwned
    OBVIOUS
  <2>1. DescriptorsOwned
    BY OwnersAreCounted DEF DescriptorsOwned
  <2>2. SessionsOwned
    BY DEF SessionsOwned, IInv, Counted, Encrypted, Locals, Looping
  <2>3. QED
    BY <2>1, <2>2 DEF SocketsOwned
<1>2. QED
  BY <1>1, Invariant, PTL

(* A socket that a script holds was finished: open and in blocking mode    *)
(* until it is closed, and encrypted if tls-connect made it.               *)
THEOREM SocketsAreReady == Spec => []HeldAreReady
<1>1. IInv => HeldAreReady
  BY DEF IInv
<1>2. QED
  BY <1>1, Invariant, PTL
-----------------------------------------------------------------------------
(* The bytes of one connection (NetStream).                                *)

(* What fe_string makes of a buffer is the part of it before the first NUL. *)
LEMMA StringStopsAtNul ==
  ASSUME NEW s \in Seq(Nat)
  PROVE  \E n \in 0..Len(s) :
           /\ AsString(s) = SubSeq(s, 1, n)
           /\ \A i \in 1..n : s[i] # Nul
<1> DEFINE I == {i \in 1..Len(s) : s[i] = Nul}
<1>1. UpToNul(s) = IF I # {} THEN Min(I) ELSE 0
  BY DEF UpToNul, SelectInSeq
<1>2. CASE I = {}
  BY <1>1, <1>2 DEF AsString
<1>3. CASE I # {}
  <2>1. \E x \in I : \A y \in I : x <= y
    <3>1. I \in SUBSET Nat
      OBVIOUS
    <3>2. PICK x \in I : \A y \in I : ~(y < x)
      BY <1>3, <3>1, NatMin
    <3>3. QED
      BY <3>1, <3>2
  <2>2. Min(I) \in I /\ \A y \in I : Min(I) <= y
    BY <2>1 DEF Min
  <2>3. Min(I) - 1 \in 0..Len(s) /\ UpToNul(s) = Min(I) /\ Min(I) # 0
    BY <1>1, <1>3, <2>2
  <2>4. AsString(s) = SubSeq(s, 1, Min(I) - 1)
    BY <2>3 DEF AsString
  <2>5. \A i \in 1..(Min(I) - 1) : s[i] # Nul
    BY <2>2
  <2>6. QED
    BY <2>3, <2>4, <2>5
<1>4. QED
  BY <1>2, <1>3
-----------------------------------------------------------------------------
IoType == [op : {"no", "send", "recv"}, len : Nat, sent : Nat]

(* What goes out.  Of the payload that is being sent the stream holds what *)
(* the loop has counted, and nothing after it.                             *)
Sending ==
  Doing("send") =>
    LET k == Len(sends) IN
    /\ k > 0 /\ io.len = sends[k].len /\ ~sends[k].ok
    /\ \A i \in 1..Len(out) : out[i][1] = k => out[i][2] <= io.sent
    /\ io.sent > 0 => Len(out) > 0 /\ out[Len(out)] = <<k, io.sent>>

InOrder == \A i, j \in 1..Len(out) : i < j => Before(out[i], out[j])

Outgoing ==
  /\ out \in Seq(Nat \X Nat) /\ sends \in Seq([len : Nat, ok : BOOLEAN])
  /\ io \in IoType /\ io.sent <= io.len
  /\ unread \in 0..Room /\ unread <= Len(out)
  /\ pending \in 0..1 /\ (Doing("no") => pending = 0)
  /\ Sending /\ Payloads /\ InOrder

(* What comes in: the peer's bytes have ascending names.  nil was returned *)
(* when nothing was left and the peer could write no more.                 *)
Incoming ==
  /\ inp \in Seq(Nat) /\ got \in Seq(Nat) /\ written \in 0..InMax
  /\ Len(inp) + Len(got) <= written
  /\ \A i, j \in 1..Len(inp) : i < j => inp[i] < inp[j]
  /\ \A i \in 1..Len(inp) : inp[i] <= written
  /\ \A i, j \in 1..Len(got) : i < j => got[i] < got[j]
  /\ \A i \in 1..Len(got), j \in 1..Len(inp) : got[i] < inp[j]
  /\ \A i \in 1..Len(got) : got[i] # Nul /\ got[i] <= written
  /\ peer \in {"up", "shut", "cut", "reset"} /\ ended \in BOOLEAN
  /\ ended => inp = <<>> /\ peer \in {"shut", "cut"}

StreamInv == Outgoing /\ Incoming /\ stuck \in BOOLEAN /\ encrypted \in BOOLEAN /\ breaks \in 0..BreakMax

outVars == <<out, sends, io, unread, pending>>
inVars  == <<inp, got, written, peer, ended>>

LEMMA SameOut == Outgoing /\ UNCHANGED outVars => Outgoing'
  BY DEF Outgoing, outVars, Sending, Doing, Payloads, InOrder

LEMMA SameIn == Incoming /\ UNCHANGED inVars => Incoming'
  BY DEF Incoming, inVars

(* A primitive that ends, or a tcp-recv that begins, leaves the stream     *)
(* alone.                                                                  *)
LEMMA IoOnly ==
  ASSUME Outgoing, io' \in IoType, io'.sent <= io'.len, io'.op # "send",
         pending' \in 0..1, io'.op = "no" => pending' = 0, UNCHANGED <<out, sends, unread>>
  PROVE  Outgoing'
  BY DEF Outgoing, Sending, Doing, Payloads, InOrder

LEMMA RestType == Rest \in IoType /\ Rest.sent <= Rest.len /\ Rest.op = "no"
  BY DEF Rest, IoType

LEMMA StreamNats ==
  /\ SendMax \in Nat /\ LenMax \in Nat /\ Room \in Nat
  /\ InMax \in Nat /\ Nul \in Nat /\ BreakMax \in Nat
  BY StreamAssumption

LEMMA StreamStarts == StreamInit => StreamInv
<1> SUFFICES ASSUME StreamInit PROVE StreamInv
  OBVIOUS
<1> USE DEF StreamInit
<1>1. Outgoing
  BY RestType, StreamNats DEF Outgoing, Sending, Doing, Payloads, InOrder, Rest
<1>2. Incoming
  <2>1. /\ <<>> \in Seq(Nat) /\ Len(<<>>) = 0 /\ Len(<<>>) + Len(<<>>) <= 0
        /\ 1..Len(<<>>) = {} /\ 0 \in 0..InMax
    BY StreamNats
  <2>2. inp = <<>> /\ got = <<>> /\ written = 0 /\ peer = "up" /\ ended = FALSE
    OBVIOUS
  <2>3. QED
    BY ONLY <2>1, <2>2, Zenon DEF Incoming
<1>3. breaks \in 0..BreakMax
  BY StreamNats
<1>4. QED
  BY <1>1, <1>2, <1>3, Zenon DEF StreamInv

LEMMA KeepBeginSend ==
  ASSUME Outgoing, NEW len \in 0..LenMax, NEW blob \in BOOLEAN, BeginSend(len, blob)
  PROVE  Outgoing'
<1> USE StreamNats
<1> DEFINE row == [len |-> len, ok |-> FALSE]
<1>1. row \in [len : Nat, ok : BOOLEAN] /\ sends' = Append(sends, row)
  BY DEF BeginSend
<1>2. sends \in Seq([len : Nat, ok : BOOLEAN]) /\ Doing("no")
  BY DEF Outgoing, BeginSend
<1>3. /\ sends' \in Seq([len : Nat, ok : BOOLEAN]) /\ Len(sends') = Len(sends) + 1
      /\ \A k \in 1..Len(sends) : sends'[k] = sends[k]
      /\ sends'[Len(sends')] = row
  BY <1>1, <1>2
<1>4. io' = [op |-> "send", len |-> len, sent |-> 0] /\ io' \in IoType /\ UNCHANGED <<out, unread>>
  BY DEF BeginSend, IoType
<1>5. pending' \in 0..1
  BY <1>2 DEF BeginSend, Outgoing
<1>6. \A i \in 1..Len(out) : out[i][1] \in 1..Len(sends) /\ out[i][2] \in 1..sends[out[i][1]].len
  BY DEF Outgoing, Payloads
<1>7. Len(sends) \in Nat /\ Len(sends') \in 1..Len(sends') /\ row.ok = FALSE /\ row.len = len
  BY <1>2, <1>3
<1>8. Sending'
  <2>1. \A i \in 1..Len(out') : out'[i][1] # Len(sends')
    BY <1>3, <1>4, <1>6, <1>7
  <2>2. QED
    BY <1>3, <1>4, <1>7, <2>1 DEF Sending, Doing
<1>9. Payloads'
  <2>1. \A i \in 1..Len(out) : /\ out[i][1] \in 1..Len(sends')
                              /\ sends'[out[i][1]] = sends[out[i][1]]
    BY <1>3, <1>6, <1>7
  <2>2. \A k \in 1..Len(sends') :
          sends'[k].ok /\ sends'[k].len > 0 => \E i \in 1..Len(out) : out[i] = <<k, sends'[k].len>>
    <3>1. SUFFICES ASSUME NEW k \in 1..Len(sends'), sends'[k].ok, sends'[k].len > 0
                   PROVE  \E i \in 1..Len(out) : out[i] = <<k, sends'[k].len>>
      OBVIOUS
    <3>2. k \in 1..Len(sends)
      BY <1>3, <1>7, <3>1
    <3>3. QED
      BY <1>3, <3>1, <3>2 DEF Outgoing, Payloads
  <2>3. QED
    BY <1>4, <1>6, <2>1, <2>2 DEF Payloads, Outgoing
<1>10. InOrder'
  BY <1>4 DEF Outgoing, InOrder
<1>11. Doing("send")' /\ ~Doing("no")' /\ io'.sent <= io'.len
  BY <1>4 DEF Doing
<1>12. QED
  BY <1>3, <1>4, <1>5, <1>8, <1>9, <1>10, <1>11 DEF Outgoing

(* What a write puts into the stream follows what is there.                *)
LEMMA Written ==
  ASSUME Outgoing, NEW n \in Nat, Transmit(n)
  PROVE  /\ out' \in Seq(Nat \X Nat) /\ Len(out') = Len(out) + n
         /\ \A i \in 1..Len(out) : out'[i] = out[i]
         /\ \A i \in (Len(out) + 1)..(Len(out) + n) :
              out'[i] = <<Len(sends), io.sent + (i - Len(out))>>
<1>1. out \in Seq(Nat \X Nat) /\ Len(sends) \in Nat /\ io.sent \in Nat
  BY DEF Outgoing, IoType
<1>2. Bytes(n) \in Seq(Nat \X Nat) /\ Len(Bytes(n)) = n
  BY <1>1 DEF Bytes
<1>3. \A i \in 1..n : Bytes(n)[i] = <<Len(sends), io.sent + i>>
  BY DEF Bytes
<1>4. /\ out' \in Seq(Nat \X Nat) /\ Len(out') = Len(out) + n
      /\ \A i \in 1..(Len(out) + n) : out'[i] = IF i <= Len(out) THEN out[i] ELSE Bytes(n)[i - Len(out)]
  <2>1. out' = out \o Bytes(n)
    BY DEF Transmit
  <2>2. QED
    BY <1>1, <1>2, <2>1, ConcatProperties
<1>5. Len(out) \in Nat
  BY <1>1
<1>6. ASSUME NEW i \in (Len(out) + 1)..(Len(out) + n)
      PROVE  out'[i] = <<Len(sends), io.sent + (i - Len(out))>>
  <2>1. i \in 1..(Len(out) + n) /\ ~(i <= Len(out)) /\ i - Len(out) \in 1..n
    BY <1>5
  <2>2. out'[i] = Bytes(n)[i - Len(out)]
    BY <1>4, <2>1
  <2>3. QED
    BY <1>3, <2>1, <2>2
<1>7. \A i \in 1..Len(out) : i \in 1..(Len(out) + n) /\ i <= Len(out)
  BY <1>5
<1>8. \A i \in 1..Len(out) : out'[i] = out[i]
  BY <1>4, <1>7
<1>9. QED
  BY <1>4, <1>6, <1>8

LEMMA KeepWrite ==
  ASSUME Outgoing, Write
  PROVE  Outgoing'
<1> DEFINE k == Len(sends)
           m == Len(out)
<1>1. /\ io.op = "send" /\ sends \in Seq([len : Nat, ok : BOOLEAN]) /\ m \in Nat
      /\ io \in IoType /\ io.sent \in Nat /\ io.len \in Nat /\ unread \in 0..Room /\ Room \in Nat
  BY StreamNats DEF Outgoing, Write, Doing, IoType
<1>2. PICK n \in 1..(io.len - io.sent) :
         unread + n <= Room /\ Transmit(n) /\ io' = [io EXCEPT !.sent = @ + n]
  BY DEF Write
<1>3. /\ k > 0 /\ io.len = sends[k].len /\ ~sends[k].ok
      /\ \A i \in 1..m : out[i][1] = k => out[i][2] <= io.sent
      /\ io.sent > 0 => m > 0 /\ out[m] = <<k, io.sent>>
  BY <1>1 DEF Outgoing, Sending, Doing
<1>4. n \in Nat /\ n > 0 /\ k \in Nat
  BY <1>1, <1>2
<1>5. /\ out' \in Seq(Nat \X Nat) /\ Len(out') = m + n
      /\ \A i \in 1..m : out'[i] = out[i]
      /\ \A i \in (m + 1)..(m + n) : out'[i] = <<k, io.sent + (i - m)>>
  BY <1>2, <1>4, Written
<1>6. /\ io'.op = "send" /\ io'.len = io.len /\ io'.sent = io.sent + n /\ io' \in IoType
      /\ io'.sent <= io'.len /\ unread' = unread + n /\ sends' = sends /\ pending' = pending
  <2>1. unread' = unread + n /\ io' = [io EXCEPT !.sent = @ + n]
    BY <1>2 DEF Transmit
  <2>2. sends' = sends /\ pending' = pending
    BY DEF Write
  <2>3. io.sent + n \in Nat /\ io.sent + n <= io.len
    BY <1>1, <1>2, <1>4
  <2>4. io' = [op |-> "send", len |-> io.len, sent |-> io.sent + n]
    BY <1>1, <2>1 DEF IoType
  <2>5. QED
    BY <1>1, <2>1, <2>2, <2>3, <2>4 DEF IoType
<1>7. \A i \in 1..m :
        /\ out[i][1] \in 1..k /\ out[i][2] \in 1..sends[out[i][1]].len
        /\ out[i][2] > 1 => i > 1 /\ out[i - 1] = <<out[i][1], out[i][2] - 1>>
        /\ out[i][1] \in Nat /\ out[i][2] \in Nat
  <2>1. \A i \in 1..m : out[i][1] \in Nat /\ out[i][2] \in Nat
    <3>1. \A i \in 1..m : out[i] \in Nat \X Nat
      BY DEF Outgoing
    <3>2. QED
      BY <3>1
  <2>2. QED
    BY <2>1 DEF Outgoing, Payloads
<1> HIDE DEF k, m
<1>22. Len(out') = m + n
  BY <1>5
<1>23. ASSUME NEW i \in 1..m PROVE out'[i] = out[i]
  BY ONLY <1>5, <1>1
<1>24. ASSUME NEW i \in (m + 1)..(m + n) PROVE out'[i] = <<k, io.sent + (i - m)>>
  BY ONLY <1>5, <1>1, <1>4
<1> USE <1>1, <1>4
<1>20. \A i \in 1..(m + n) : i \in 1..m \/ i \in (m + 1)..(m + n)
  BY <1>1, <1>4
<1>21. ASSUME NEW i \in (m + 1)..(m + n)
       PROVE  /\ out'[i][1] = k /\ out'[i][2] = io.sent + (i - m)
              /\ out'[i][2] \in 1..io.len /\ out'[i][2] > io.sent
              /\ out'[i][2] <= io.sent + n
  <2>1. out'[i] = <<k, io.sent + (i - m)>>
    BY <1>24
  <2>2. i \in Int /\ i - m > 0 /\ i - m <= n /\ n <= io.len - io.sent
    BY <1>1, <1>4
  <2>4. io.sent + (i - m) \in 1..io.len
    BY <2>2
  <2>3. QED
    BY <1>1, <1>4, <2>1, <2>2, <2>4
<1>8. Sending'
  <2>1. k' = k
    BY <1>6 DEF k
  <2>2. \A i \in 1..Len(out') : out'[i][1] = k => out'[i][2] <= io'.sent
    <3>1. SUFFICES ASSUME NEW i \in 1..(m + n), out'[i][1] = k PROVE out'[i][2] <= io.sent + n
      BY <1>22, <1>6
    <3>2. CASE i \in 1..m
      <4>1. out'[i] = out[i] /\ out[i][2] <= io.sent /\ out[i][2] \in Nat
        BY <1>3, <1>23, <1>7, <3>1, <3>2
      <4>2. QED
        BY <1>1, <1>4, <4>1
    <3>3. CASE i \in (m + 1)..(m + n)
      BY <1>21, <3>3
    <3>4. QED
      BY <1>20, <3>2, <3>3
  <2>3. Len(out') > 0 /\ out'[Len(out')] = <<k, io'.sent>>
    <3>1. m + n \in (m + 1)..(m + n) /\ (m + n) - m = n /\ m + n > 0
      BY <1>1, <1>4
    <3>2. QED
      BY <1>22, <1>24, <1>6, <3>1
  <2>4. QED
    BY <1>3, <1>6, <2>1, <2>2, <2>3 DEF Sending, Doing, k
<1>9. Payloads'
  <2>1. ASSUME NEW i \in 1..(m + n)
        PROVE  /\ out'[i][1] \in 1..k /\ out'[i][2] \in 1..sends[out'[i][1]].len
               /\ out'[i][2] > 1 => i > 1 /\ out'[i - 1] = <<out'[i][1], out'[i][2] - 1>>
    <3>1. CASE i \in 1..m
      <4>1. i > 1 => i - 1 \in 1..m
        BY <3>1
      <4>3. out'[i] = out[i] /\ (i > 1 => out'[i - 1] = out[i - 1])
        BY <1>23, <3>1, <4>1
      <4>2. QED
        BY <1>7, <3>1, <4>3
    <3>2. CASE i \in (m + 1)..(m + n)
      <4>1. /\ out'[i][1] = k /\ out'[i][2] = io.sent + (i - m) /\ out'[i][2] \in 1..io.len
        BY <1>21, <3>2
      <4>2. k \in 1..k
        BY <1>3, <1>4
      <4>3. ASSUME out'[i][2] > 1
            PROVE  i > 1 /\ out'[i - 1] = <<k, out'[i][2] - 1>>
        <5>1. CASE i = m + 1
          <6>1. out'[i][2] = io.sent + 1 /\ io.sent > 0 /\ i - 1 = m
            BY <1>1, <4>1, <4>3, <5>1
          <6>2. m > 0 /\ out[m] = <<k, io.sent>>
            BY <1>3, <6>1
          <6>3. out'[m] = out[m] /\ i > 1 /\ out'[i][2] - 1 = io.sent
            BY <1>1, <1>23, <5>1, <6>1, <6>2, SMTT(20)
          <6>4. QED
            BY <6>1, <6>2, <6>3
        <5>2. CASE i # m + 1
          <6>1. i - 1 \in (m + 1)..(m + n) /\ i > 1
            BY <1>1, <1>4, <3>2, <5>2
          <6>2. out'[i - 1] = <<k, io.sent + ((i - 1) - m)>>
            BY <1>24, <6>1
          <6>3. io.sent + ((i - 1) - m) = out'[i][2] - 1
            BY <1>1, <3>2, <4>1
          <6>4. QED
            BY <6>1, <6>2, <6>3
        <5>3. QED
          BY <5>1, <5>2
      <4>4. QED
        BY <1>3, <4>1, <4>2, <4>3
    <3>3. QED
      BY <1>20, <3>1, <3>2
  <2>2. ASSUME NEW j \in 1..k, sends[j].ok, sends[j].len > 0
        PROVE  \E i \in 1..(m + n) : out'[i] = <<j, sends[j].len>>
    <3>1. PICK i \in 1..m : out[i] = <<j, sends[j].len>>
      BY <2>2 DEF Outgoing, Payloads, k, m
    <3>2. i \in 1..(m + n)
      BY <1>1, <1>4
    <3>3. QED
      BY <1>23, <3>1, <3>2
  <2>3. QED
    BY <1>22, <1>6, <2>1, <2>2 DEF Payloads, k
<1>10. InOrder'
  <2>1. SUFFICES ASSUME NEW i \in 1..(m + n), NEW j \in 1..(m + n), i < j
                 PROVE  Before(out'[i], out'[j])
    BY <1>22 DEF InOrder, Before
  <2>2. CASE j \in 1..m
    <3>1. i \in 1..m
      BY <1>1, <2>1, <2>2
    <3>2. QED
      BY <1>23, <2>1, <2>2, <3>1 DEF Outgoing, InOrder, m
  <2>3. CASE j \in (m + 1)..(m + n) /\ i \in 1..m
    <3>1. out'[j][1] = k /\ out'[j][2] > io.sent /\ out'[j][2] \in Int
      BY <1>21, <2>3
    <3>2. out'[i] = out[i]
      BY <1>23, <2>3
    <3>3. out[i][1] \in 1..k /\ out[i][2] \in Int
      BY <1>7, <2>3
    <3>4. CASE out[i][1] = k
      <4>1. out[i][2] <= io.sent
        BY <1>3, <2>3, <3>4
      <4>2. out[i][2] < out'[j][2]
        BY <3>1, <3>3, <4>1
      <4>3. QED
        BY <3>1, <3>2, <3>4, <4>2 DEF Before
    <3>5. CASE out[i][1] # k
      <4>1. out[i][1] < k
        BY <3>3, <3>5
      <4>2. QED
        BY <3>1, <3>2, <4>1 DEF Before
    <3>6. QED
      BY <3>4, <3>5
  <2>4. CASE j \in (m + 1)..(m + n) /\ i \in (m + 1)..(m + n)
    <3>1. /\ out'[j][1] = k /\ out'[j][2] = io.sent + (j - m)
          /\ out'[i][1] = k /\ out'[i][2] = io.sent + (i - m)
      BY <1>21, <2>4
    <3>2. out'[i][2] < out'[j][2]
      BY <1>1, <1>4, <2>1, <2>4, <3>1
    <3>3. QED
      BY <3>1, <3>2 DEF Before
  <2>5. QED
    BY <1>20, <2>2, <2>3, <2>4
<1>11. unread' \in 0..Room /\ unread' <= Len(out')
  <2>1. unread <= m
    BY DEF Outgoing, m
  <2>2. QED
    BY <1>2, <1>6, <1>22, <2>1
<1>12. pending' \in 0..1 /\ ~Doing("no")' /\ sends' \in Seq([len : Nat, ok : BOOLEAN])
  BY <1>6 DEF Outgoing, Doing
<1>13. QED
  BY <1>5, <1>6, <1>8, <1>9, <1>10, <1>11, <1>12 DEF Outgoing

LEMMA KeepSendReturns ==
  ASSUME Outgoing, SendReturns
  PROVE  Outgoing'
<1> DEFINE k == Len(sends)
<1>1. /\ sends \in Seq([len : Nat, ok : BOOLEAN]) /\ io \in IoType
      /\ io.op = "send" /\ io.sent = io.len /\ UNCHANGED <<out, unread>>
  BY DEF Outgoing, SendReturns, Doing, SentAll
<1>2. k \in 1..k /\ io.len = sends[k].len
  BY <1>1 DEF Outgoing, Sending, Doing
<1>3. /\ sends' \in Seq([len : Nat, ok : BOOLEAN]) /\ Len(sends') = k
      /\ \A j \in 1..k : sends'[j].len = sends[j].len /\ (j # k => sends'[j].ok = sends[j].ok)
  <2>1. sends' = [sends EXCEPT ![k] = [sends[k] EXCEPT !.ok = TRUE]]
    BY DEF SendReturns
  <2>2. \A j \in 1..k : sends[j] \in [len : Nat, ok : BOOLEAN]
    BY ONLY <1>1, ElementOfSeq
  <2>3. sends[k] \in [len : Nat, ok : BOOLEAN]
    BY <1>2, <2>2
  <2>4. DEFINE row == [sends[k] EXCEPT !.ok = TRUE]
  <2>5. row \in [len : Nat, ok : BOOLEAN] /\ row.len = sends[k].len
    BY <2>3
  <2> HIDE DEF row
  <2>6. sends' = [sends EXCEPT ![k] = row]
    BY <2>1 DEF row
  <2>7. QED
    BY <1>1, <1>2, <2>5, <2>6
<1>4. io.sent > 0 => Len(out) \in 1..Len(out) /\ out[Len(out)] = <<k, io.sent>>
  <2>1. Len(out) \in Nat
    BY DEF Outgoing
  <2>2. QED
    BY <1>1, <2>1 DEF Outgoing, Sending, Doing
<1> HIDE DEF k
<1>5. Payloads'
  <2>1. \A i \in 1..Len(out) :
          /\ out[i][1] \in 1..k /\ sends'[out[i][1]].len = sends[out[i][1]].len
          /\ out[i][2] \in 1..sends[out[i][1]].len
          /\ out[i][2] > 1 => i > 1 /\ out[i - 1] = <<out[i][1], out[i][2] - 1>>
    BY <1>3 DEF Outgoing, Payloads, k
  <2>2. ASSUME NEW j \in 1..k, sends'[j].ok, sends'[j].len > 0
        PROVE  \E i \in 1..Len(out) : out[i] = <<j, sends'[j].len>>
    <3>1. CASE j = k
      BY <1>1, <1>2, <1>3, <1>4, <2>2, <3>1
    <3>2. CASE j # k
      BY <1>3, <2>2, <3>2 DEF Outgoing, Payloads, k
    <3>3. QED
      BY <3>1, <3>2
  <2>3. QED
    BY <1>1, <1>3, <2>1, <2>2 DEF Payloads
<1>6. QED
  <2>1. io' = Rest /\ pending' = 0
    BY DEF SendReturns
  <2>2. Sending' /\ InOrder'
    BY <1>1, <2>1, RestType DEF Sending, Doing, InOrder, Outgoing
  <2>3. io' \in IoType /\ io'.sent <= io'.len /\ pending' \in 0..1
    BY <2>1, RestType
  <2>4. QED
    BY <1>1, <1>3, <1>5, <2>1, <2>2, <2>3 DEF Outgoing

(* What a read hands to the script is taken from the head of what is to be *)
(* read, up to the first NUL; the rest keeps its order.                    *)
LEMMA Delivered ==
  ASSUME Incoming, NEW n \in 1..Len(inp), Take(n),
         got' = got \o AsString(SubSeq(inp, 1, n)) \/ got' = got
  PROVE  \E m \in 0..n :
           /\ inp' \in Seq(Nat) /\ got' \in Seq(Nat)
           /\ Len(inp') = Len(inp) - n /\ Len(got') = Len(got) + m
           /\ \A j \in 1..(Len(inp) - n) : inp'[j] = inp[j + n]
           /\ \A i \in 1..Len(got) : got'[i] = got[i]
           /\ \A i \in (Len(got) + 1)..(Len(got) + m) :
                got'[i] = inp[i - Len(got)] /\ inp[i - Len(got)] # Nul
<1>1. inp \in Seq(Nat) /\ got \in Seq(Nat) /\ Len(inp) \in Nat /\ Len(got) \in Nat /\ n \in Nat /\ n > 0
  BY DEF Incoming
<1> DEFINE s == SubSeq(inp, 1, n)
<1>2. s \in Seq(Nat) /\ Len(s) = n /\ \A i \in 1..n : s[i] = inp[i]
  BY <1>1
<1>3. /\ inp' \in Seq(Nat) /\ Len(inp') = Len(inp) - n
      /\ \A j \in 1..(Len(inp) - n) : inp'[j] = inp[j + n]
  BY <1>1 DEF Take
<1>4. PICK m \in 0..n : AsString(s) = SubSeq(s, 1, m) /\ \A i \in 1..m : s[i] # Nul
  BY <1>2, StringStopsAtNul
<1>5. AsString(s) \in Seq(Nat) /\ Len(AsString(s)) = m /\ \A i \in 1..m : AsString(s)[i] = s[i]
  <2>1. m \in Int /\ \A i \in 1..m : s[i] \in Nat
    BY <1>1, <1>2, <1>4
  <2> HIDE DEF s
  <2>2. QED
    BY <1>4, <2>1, SubSeqProperties
<1>6. CASE got' = got
  <2>1. 0 \in 0..n /\ Len(got) = Len(got) + 0
    BY <1>1
  <2>2. (Len(got) + 1)..(Len(got) + 0) = {}
    BY <1>1
  <2>3. QED
    BY <1>1, <1>3, <1>6, <2>1, <2>2
<1>7. CASE got' = got \o AsString(s)
  <2> DEFINE r == AsString(s)
  <2>1. r \in Seq(Nat) /\ Len(r) = m /\ \A i \in 1..m : r[i] = inp[i] /\ inp[i] # Nul
    BY <1>1, <1>2, <1>4, <1>5
  <2>2. got' = got \o r
    BY <1>7
  <2> HIDE DEF r
  <2>3. /\ got' \in Seq(Nat) /\ Len(got') = Len(got) + m
        /\ \A i \in 1..(Len(got) + m) : got'[i] = IF i <= Len(got) THEN got[i] ELSE r[i - Len(got)]
    BY <1>1, <2>1, <2>2, ConcatProperties
  <2>4. \A i \in (Len(got) + 1)..(Len(got) + m) :
           got'[i] = inp[i - Len(got)] /\ inp[i - Len(got)] # Nul
    <3>1. SUFFICES ASSUME NEW i \in (Len(got) + 1)..(Len(got) + m)
                   PROVE  got'[i] = inp[i - Len(got)] /\ inp[i - Len(got)] # Nul
      OBVIOUS
    <3>2. i \in 1..(Len(got) + m) /\ ~(i <= Len(got)) /\ i - Len(got) \in 1..m
      BY <1>1, <1>4
    <3>3. QED
      BY <2>1, <2>3, <3>2
  <2>5. \A i \in 1..Len(got) : i \in 1..(Len(got) + m) /\ i <= Len(got)
    BY <1>1, <1>4
  <2>6. \A i \in 1..Len(got) : got'[i] = got[i]
    BY <2>3, <2>5
  <2>7. QED
    BY <1>3, <1>4, <2>3, <2>4, <2>6
<1>8. QED
  BY <1>6, <1>7

LEMMA KeepDeliver ==
  ASSUME Incoming, Deliver
  PROVE  Incoming'
<1>1. PICK n \in 1..Len(inp) :
         Take(n) /\ (got' = got \o AsString(SubSeq(inp, 1, n)) \/ got' = got)
  BY DEF Deliver
<1> DEFINE g == Len(got)
<1>2. PICK m \in 0..n :
        /\ inp' \in Seq(Nat) /\ got' \in Seq(Nat)
        /\ Len(inp') = Len(inp) - n /\ Len(got') = g + m
        /\ \A j \in 1..(Len(inp) - n) : inp'[j] = inp[j + n]
        /\ \A i \in 1..g : got'[i] = got[i]
        /\ \A i \in (g + 1)..(g + m) : got'[i] = inp[i - g] /\ inp[i - g] # Nul
  BY <1>1, Delivered
<1>3. g \in Nat /\ n \in Nat /\ m \in Nat /\ n > 0 /\ n <= Len(inp) /\ m <= n /\ Len(inp) \in Nat
      /\ inp \in Seq(Nat) /\ got \in Seq(Nat)
  BY <1>1, <1>2 DEF Incoming
<1>4. /\ g + Len(inp) <= written /\ written \in 0..InMax
      /\ \A i, j \in 1..Len(inp) : i < j => inp[i] < inp[j]
      /\ \A i \in 1..Len(inp) : inp[i] <= written
      /\ \A i, j \in 1..g : i < j => got[i] < got[j]
      /\ \A i \in 1..g, j \in 1..Len(inp) : got[i] < inp[j]
      /\ \A i \in 1..g : got[i] # Nul /\ got[i] <= written
  BY DEF Incoming
<1>5. UNCHANGED <<written, peer, ended>> /\ inp # <<>>
  BY DEF Deliver
<1> HIDE DEF g
<1>6. ASSUME NEW i \in 1..(g + m)
      PROVE  \/ i \in 1..g /\ got'[i] = got[i]
             \/ /\ ~(i \in 1..g) /\ i - g \in 1..m /\ i - g \in 1..Len(inp)
                /\ got'[i] = inp[i - g] /\ inp[i - g] # Nul
  <2>1. CASE i \in 1..g
    BY <1>2, <2>1
  <2>2. CASE ~(i \in 1..g)
    <3>1. i \in (g + 1)..(g + m) /\ i - g \in 1..m /\ i - g \in 1..Len(inp)
      BY <1>3, <2>2
    <3>2. QED
      BY <1>2, <2>2, <3>1
  <2>3. QED
    BY <2>1, <2>2
<1>7. ASSUME NEW j \in 1..(Len(inp) - n)
      PROVE  j + n \in 1..Len(inp) /\ inp'[j] = inp[j + n]
  <2>1. j + n \in 1..Len(inp)
    BY <1>3
  <2>2. inp'[j] = inp[j + n]
    BY <1>2
  <2>3. QED
    BY <2>1, <2>2
<1>8. \A i, j \in 1..Len(inp') : i < j => inp'[i] < inp'[j]
  <2>1. SUFFICES ASSUME NEW i \in 1..(Len(inp) - n), NEW j \in 1..(Len(inp) - n), i < j
                 PROVE  inp'[i] < inp'[j]
    BY <1>2
  <2>2. i + n < j + n
    BY <1>3, <2>1
  <2>3. QED
    BY <1>4, <1>7, <2>2
<1>9. \A i \in 1..Len(inp') : inp'[i] <= written
  BY <1>2, <1>4, <1>7
<1>10. \A i, j \in 1..Len(got') : i < j => got'[i] < got'[j]
  <2>1. SUFFICES ASSUME NEW i \in 1..(g + m), NEW j \in 1..(g + m), i < j
                 PROVE  got'[i] < got'[j]
    BY <1>2
  <2>2. CASE j \in 1..g
    <3>1. i \in 1..g /\ got'[i] = got[i] /\ got'[j] = got[j]
      BY <1>3, <1>6, <2>1, <2>2
    <3>2. QED
      BY <1>4, <2>1, <2>2, <3>1
  <2>3. CASE i \in 1..g /\ ~(j \in 1..g)
    <3>1. got'[i] = got[i] /\ j - g \in 1..Len(inp) /\ got'[j] = inp[j - g]
      BY <1>6, <2>3
    <3>2. QED
      BY <1>4, <2>3, <3>1
  <2>4. CASE ~(i \in 1..g) /\ ~(j \in 1..g)
    <3>1. /\ i - g \in 1..Len(inp) /\ got'[i] = inp[i - g]
          /\ j - g \in 1..Len(inp) /\ got'[j] = inp[j - g]
      BY <1>6, <2>4
    <3>2. i - g < j - g
      BY <1>3, <2>1
    <3>3. QED
      BY <1>4, <3>1, <3>2
  <2>5. CASE ~(i \in 1..g) /\ j \in 1..g
    BY <1>3, <2>1, <2>5
  <2>6. QED
    BY <2>2, <2>3, <2>4, <2>5
<1>11. \A i \in 1..Len(got'), j \in 1..Len(inp') : got'[i] < inp'[j]
  <2>1. SUFFICES ASSUME NEW i \in 1..(g + m), NEW j \in 1..(Len(inp) - n)
                 PROVE  got'[i] < inp'[j]
    BY <1>2
  <2>2. j + n \in 1..Len(inp) /\ inp'[j] = inp[j + n]
    BY <1>7
  <2>3. CASE i \in 1..g /\ got'[i] = got[i]
    BY <1>4, <2>2, <2>3
  <2>4. CASE i - g \in 1..m /\ i - g \in 1..Len(inp) /\ got'[i] = inp[i - g]
    <3>1. i - g < j + n
      BY <1>3, <2>4
    <3>2. QED
      BY <1>4, <2>2, <2>4, <3>1
  <2>5. QED
    BY <1>6, <2>3, <2>4
<1>12. \A i \in 1..Len(got') : got'[i] # Nul /\ got'[i] <= written
  <2>1. SUFFICES ASSUME NEW i \in 1..(g + m) PROVE got'[i] # Nul /\ got'[i] <= written
    BY <1>2
  <2>2. QED
    BY <1>4, <1>6
<1>13. Len(inp') + Len(got') <= written
  BY <1>2, <1>3, <1>4
<1>14. ~ended
  BY <1>5 DEF Incoming
<1>15. QED
  BY <1>2, <1>4, <1>5, <1>8, <1>9, <1>10, <1>11, <1>12, <1>13, <1>14 DEF Incoming

LEMMA KeepPeerWrites ==
  ASSUME Incoming, PeerWrites
  PROVE  Incoming'
<1> USE StreamNats
<1> DEFINE m == Len(inp)
           w == written + 1
<1>1. /\ inp \in Seq(Nat) /\ got \in Seq(Nat) /\ m \in Nat /\ written \in Nat /\ Len(got) \in Nat
      /\ peer = "up" /\ ~ended /\ written' = w /\ inp' = Append(inp, w) /\ w \in 0..InMax
      /\ UNCHANGED <<got, peer, ended>>
  BY DEF Incoming, PeerWrites
<1>2. /\ inp' \in Seq(Nat) /\ Len(inp') = m + 1 /\ inp'[m + 1] = w
      /\ \A i \in 1..m : inp'[i] = inp[i]
  BY <1>1
<1>3. /\ \A i, j \in 1..m : i < j => inp[i] < inp[j]
      /\ \A i \in 1..m : inp[i] <= written /\ inp[i] \in Nat
      /\ \A i, j \in 1..Len(got) : i < j => got[i] < got[j]
      /\ \A i \in 1..Len(got), j \in 1..m : got[i] < inp[j]
      /\ \A i \in 1..Len(got) : got[i] # Nul /\ got[i] <= written /\ got[i] \in Nat
      /\ m + Len(got) <= written
  <2>1. /\ \A i \in 1..m : inp[i] \in Nat
        /\ \A i \in 1..Len(got) : got[i] \in Nat
    BY <1>1
  <2>2. /\ \A i, j \in 1..m : i < j => inp[i] < inp[j]
        /\ \A i, j \in 1..Len(got) : i < j => got[i] < got[j]
        /\ \A i \in 1..Len(got), j \in 1..m : got[i] < inp[j]
    BY Zenon DEF Incoming
  <2>3. /\ \A i \in 1..m : inp[i] <= written
        /\ \A i \in 1..Len(got) : got[i] # Nul /\ got[i] <= written
        /\ Len(inp) + Len(got) <= written
    BY Zenon DEF Incoming
  <2>4. QED
    BY <2>1, <2>2, <2>3
<1> HIDE DEF m
<1>4. \A i \in 1..(m + 1) : i \in 1..m \/ i = m + 1
  BY <1>1
<1>5. \A i, j \in 1..(m + 1) : i < j => inp'[i] < inp'[j]
  <2>1. SUFFICES ASSUME NEW i \in 1..(m + 1), NEW j \in 1..(m + 1), i < j PROVE inp'[i] < inp'[j]
    OBVIOUS
  <2>2. i \in 1..m
    BY <1>1, <2>1
  <2>3. CASE j \in 1..m
    BY <1>2, <1>3, <2>1, <2>2, <2>3
  <2>4. CASE j = m + 1
    <3>1. inp'[i] <= written /\ inp'[i] \in Nat
      BY <1>2, <1>3, <2>2
    <3>2. QED
      BY <1>1, <1>2, <2>4, <3>1
  <2>5. QED
    BY <1>4, <2>3, <2>4
<1>6. \A i \in 1..(m + 1) : inp'[i] <= w
  BY <1>1, <1>2, <1>3, <1>4
<1>7. \A i \in 1..Len(got), j \in 1..(m + 1) : got[i] < inp'[j]
  BY <1>1, <1>2, <1>3, <1>4
<1>8. \A i \in 1..Len(got) : got[i] # Nul /\ got[i] <= w
  BY <1>1, <1>3
<1>9. Len(inp') + Len(got) <= w
  BY <1>1, <1>2, <1>3
<1>10. QED
  BY <1>1, <1>2, <1>3, <1>5, <1>6, <1>7, <1>8, <1>9 DEF Incoming

LEMMA KeepPeerEnds ==
  ASSUME Incoming, RecvNil \/ PeerLeaves
  PROVE  Incoming'
<1>1. UNCHANGED <<inp, got, written>>
  BY DEF RecvNil, PeerLeaves
<1>2. /\ peer' \in {"up", "shut", "cut", "reset"} /\ ended' \in BOOLEAN
      /\ ended' => inp' = <<>> /\ peer' \in {"shut", "cut"}
  <2>1. CASE RecvNil
    BY <2>1 DEF RecvNil, AtEnd, Incoming
  <2>2. CASE PeerLeaves
    BY <2>2 DEF PeerLeaves, Incoming
  <2>3. QED
    BY <2>1, <2>2
<1>3. QED
  BY <1>1, <1>2 DEF Incoming

LEMMA StreamInductive == StreamInv /\ [StreamNext]_streamVars => StreamInv'
<1> SUFFICES ASSUME StreamInv, [StreamNext]_streamVars PROVE StreamInv'
  OBVIOUS
<1> USE DEF StreamInv
<1>1. ASSUME NEW len \in 0..LenMax, NEW blob \in BOOLEAN, BeginSend(len, blob) PROVE StreamInv'
  <2>1. Incoming'
    BY <1>1, SameIn DEF BeginSend, inVars
  <2>2. QED
    BY <1>1, <2>1, KeepBeginSend DEF BeginSend, kind
<1>2. ASSUME NEW max \in 1..2, BeginRecv(max) PROVE StreamInv'
  <2>1. Incoming'
    BY <1>2, SameIn DEF BeginRecv, inVars
  <2>2. io' \in IoType /\ io'.sent <= io'.len /\ io'.op = "recv"
    BY <1>2 DEF BeginRecv, IoType
  <2>3. pending' \in 0..1
    BY <1>2 DEF BeginRecv, Outgoing
  <2>4. Outgoing'
    BY <1>2, <2>2, <2>3, IoOnly DEF BeginRecv
  <2>5. QED
    BY <1>2, <2>1, <2>4 DEF BeginRecv, kind
<1>3. CASE Write
  <2>1. Incoming'
    BY <1>3, SameIn DEF Write, inVars
  <2>2. QED
    BY <1>3, <2>1, KeepWrite DEF Write, kind
<1>4. CASE SendReturns
  <2>1. Incoming'
    BY <1>4, SameIn DEF SendReturns, inVars
  <2>2. QED
    BY <1>4, <2>1, KeepSendReturns DEF SendReturns, kind
<1>5. ASSUME io' = Rest, pending' = 0, UNCHANGED <<out, sends, unread>> PROVE Outgoing'
  BY <1>5, IoOnly, RestType
<1>6. CASE WriteFails \/ SendRaises \/ RecvFails
  <2>1. Incoming'
    BY <1>6, SameIn DEF WriteFails, SendRaises, RecvFails, inVars
  <2>2. Outgoing'
    BY <1>5, <1>6 DEF WriteFails, SendRaises, RecvFails, Abandon
  <2>3. QED
    BY <1>6, <2>1, <2>2 DEF WriteFails, SendRaises, RecvFails, kind
<1>7. CASE Deliver
  <2>1. Outgoing'
    BY <1>5, <1>7 DEF Deliver
  <2>2. QED
    BY <1>7, <2>1, KeepDeliver DEF Deliver, kind
<1>8. CASE RecvNil
  <2>1. Outgoing'
    BY <1>5, <1>8 DEF RecvNil
  <2>2. QED
    BY <1>8, <2>1, KeepPeerEnds DEF RecvNil, kind
<1>9. CASE PeerWrites
  <2>1. Outgoing'
    BY <1>9, SameOut DEF PeerWrites, outVars
  <2>2. QED
    BY <1>9, <2>1, KeepPeerWrites DEF PeerWrites, kind
<1>10. CASE PeerLeaves
  <2>1. Outgoing'
    BY <1>10, SameOut DEF PeerLeaves, outVars
  <2>2. QED
    BY <1>10, <2>1, KeepPeerEnds DEF PeerLeaves, kind
<1>11. CASE PeerReads
  <2>1. Incoming'
    BY <1>11, SameIn DEF PeerReads, inVars
  <2>2. unread' \in 0..Room /\ unread' <= Len(out)
    <3>1. unread \in 0..Room /\ unread <= Len(out) /\ Len(out) \in Nat
      BY DEF Outgoing
    <3>2. QED
      BY <1>11, <3>1, StreamNats DEF PeerReads
  <2>3. UNCHANGED <<out, sends, io, pending>>
    BY <1>11 DEF PeerReads
  <2>4. Outgoing'
    BY <2>2, <2>3 DEF Outgoing, Sending, Doing, Payloads, InOrder
  <2>5. QED
    BY <1>11, <2>1, <2>4 DEF PeerReads, kind
<1>12. CASE Retried
  <2>1. Outgoing' /\ Incoming'
    BY <1>12, SameOut, SameIn DEF Retried, outVars, inVars
  <2>2. breaks' \in 0..BreakMax
    BY <1>12, StreamNats DEF Retried
  <2>3. QED
    BY <1>12, <2>1, <2>2 DEF Retried, kind
<1>13. CASE UNCHANGED streamVars
  <2>1. Outgoing' /\ Incoming'
    BY <1>13, SameOut, SameIn DEF streamVars, outVars, inVars
  <2>2. QED
    BY <1>13, <2>1 DEF streamVars, kind
<1>14. QED
  BY <1>1, <1>2, <1>3, <1>4, <1>6, <1>7, <1>8, <1>9, <1>10, <1>11, <1>12, <1>13 DEF StreamNext, Transfer

LEMMA StreamInvariant == StreamSpec => []StreamInv
  BY StreamStarts, StreamInductive, PTL DEF StreamSpec

(* The values of the connection's variables, and no buffer is left behind. *)
THEOREM StreamTypeCorrect == StreamSpec => []StreamTypeOK
<1>1. StreamInv => StreamTypeOK
  BY DEF StreamInv, Outgoing, Incoming, StreamTypeOK, IoType
<1>2. QED
  BY <1>1, StreamInvariant, PTL

(* However writes are cut up, retried or fail, and whatever the peer does,  *)
(* both directions keep their order and lose nothing inside (h_tcp_send,   *)
(* h_tcp_recv).                                                            *)
THEOREM StreamKeepsOrder == StreamSpec => []BytesInOrder
<1>1. StreamInv => BytesInOrder
  BY DEF StreamInv, Outgoing, Incoming, InOrder, BytesInOrder
<1>2. QED
  BY <1>1, StreamInvariant, PTL

(* After nil, h_tcp_recv never delivers a byte.                            *)
THEOREM NilEndsTheStream == StreamSpec => NilIsTheEnd
<1>1. StreamInv /\ [StreamNext]_streamVars => [ended => got' = got]_streamVars
  <2> SUFFICES ASSUME StreamInv, StreamNext, ended PROVE got' = got
    OBVIOUS
  <2>1. inp = <<>>
    BY DEF StreamInv, Incoming
  <2>2. QED
    BY <2>1 DEF StreamNext, Transfer, BeginSend, BeginRecv, Write, WriteFails, SendReturns, SendRaises,
                Deliver, RecvNil, RecvFails, Retried, PeerReads, PeerWrites, PeerLeaves
<1>2. QED
  BY <1>1, StreamInvariant, PTL DEF StreamSpec, NilIsTheEnd
=============================================================================
