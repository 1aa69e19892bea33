----------------------------- MODULE Minecraft -----------------------------
(***************************************************************************)
(* internal/mcproxy: the handler of one accepted connection after another, *)
(* from the checks through the handshake and the dial to the splice of the *)
(* two streams and the deferred clean-up, with many handlers at once.      *)
(*                                                                         *)
(* A byte carries a group of the VarInt code and a continuation mark: it   *)
(* is a number below 2 * Group, marked from Group on (128 in the code).    *)
(* What a client sends is a finite stream; a byte counts as sent when the  *)
(* proxy reads it.  What the server sends back is not tracked.  The ban    *)
(* table is BanTable; what the rate limiter answers is a choice, made in   *)
(* PerIPLimiter.                                                           *)
(***************************************************************************)
EXTENDS Integers, Sequences, SequencesExt

CONSTANTS
    IPs, Conns,
    Streams,       \* what a client may send: sequences of bytes
    Payloads,      \* packet bodies the parser is checked on
    Group,         \* values of a VarInt group
    MaxVarInt,     \* maxVarIntBytes
    MaxPacket,     \* maxPacketBytes
    MaxConns,      \* max_conns_per_ip; 0 is unlimited
    BanOnAbuse,    \* ban_on_abuse
    Allowed        \* the allowlist of the ban table

ASSUME ProtocolAssumption ==
    /\ Group \in Nat \ {0, 1} /\ MaxVarInt \in Nat \ {0} /\ MaxPacket \in Nat
    /\ Streams \cup Payloads \subseteq Seq(0..(2 * Group - 1))
ASSUME LimitAssumption ==
    MaxConns \in Nat /\ BanOnAbuse \in BOOLEAN /\ Allowed \subseteq IPs

VARIABLES
    listening,   \* ListenAndServe accepts
    banned,      \* IPs with a ban in force, shared with the HTTP guard
    active,      \* connlimit.Limiter.active; 0 where the map has no entry
    conn         \* conn[c]: the connection and its handler

proxyVars == <<listening, banned, active, conn>>

Bans == INSTANCE BanTable WITH blocked <- banned, past <- IPs

----------------------------------------------------------------------------
(* The protocol. *)

NoInt == [val |-> 0, next |-> 0]

\* readVarInt and cursor.varInt: the value of the VarInt at place i of p and
\* the place after it; low groups come first.
VarInt(p, i) ==
    LET read[n \in 0..MaxVarInt] ==
          IF n = MaxVarInt \/ i + n > Len(p) THEN NoInt
          ELSE IF p[i + n] < Group THEN [val |-> p[i + n], next |-> i + n + 1]
          ELSE IF read[n + 1] = NoInt THEN NoInt
          ELSE [read[n + 1] EXCEPT !.val = (p[i + n] - Group) + Group * @]
    IN  read[0]

\* The fields of the body: packet id 0, protocol, address, port, next state 1
\* or 2.  Whatever follows the last field is let through.
Parses(p) ==
    LET id      == VarInt(p, 1)
        version == VarInt(p, id.next)
        length  == VarInt(p, version.next)
        port    == length.next + length.val
        state   == VarInt(p, port + 2)
    IN  /\ id # NoInt /\ id.val = 0
        /\ version # NoInt
        /\ length # NoInt /\ port - 1 <= Len(p)
        /\ port + 1 <= Len(p)
        /\ state # NoInt /\ state.val \in {1, 2}

\* readHandshake, when it has read raw: a length, then that many bytes.
Frame(raw) ==
    LET length == VarInt(raw, 1)
    IN  IF length = NoInt THEN IF Len(raw) = MaxVarInt THEN "bad" ELSE "more"
        ELSE IF length.val \notin 1..MaxPacket THEN "bad"
        ELSE IF Len(raw) < length.next - 1 + length.val THEN "more"
        ELSE IF Parses(SubSeq(raw, length.next, Len(raw))) THEN "ok" ELSE "bad"

----------------------------------------------------------------------------
(* The handler. *)

NoConn == [at |-> "new", out |-> "off", back |-> "off"]

ProxyInit ==
    /\ listening = TRUE
    /\ banned = {}
    /\ active = [ip \in IPs |-> 0]
    /\ conn = [c \in Conns |-> NoConn]

Read(c) == SubSeq(conn[c].stream, 1, conn[c].n)
Goto(c, place) == conn' = [conn EXCEPT ![c].at = place]
rest == <<listening, banned, active>>

\* Accept, and the handler's goroutine.
Accept(c) ==
    /\ listening
    /\ conn[c] = NoConn
    /\ \E ip \in IPs, s \in Streams :
          conn' = [conn EXCEPT ![c] =
             [at |-> "ban", ip |-> ip, stream |-> s, n |-> 0, up |-> <<>>, fin |-> FALSE,
              server |-> "none", out |-> "off", back |-> "off", done |-> 0]]
    /\ UNCHANGED rest

\* 1. Ban check.
CheckBan(c) ==
    /\ conn[c].at = "ban"
    /\ Goto(c, IF conn[c].ip \in banned \ Allowed THEN "closing" ELSE "rate")
    /\ UNCHANGED rest

\* 2. New-connection rate: over it, a ban comes next.
CheckRate(c) ==
    /\ conn[c].at = "rate"
    /\ Goto(c, "slot") \/ Goto(c, "flooding")
    /\ UNCHANGED rest

Ban(c) ==
    IF BanOnAbuse /\ conn[c].ip \notin Allowed THEN Bans!Block(conn[c].ip)
                                               ELSE UNCHANGED banned

BanFlooder(c) ==
    /\ conn[c].at = "flooding"
    /\ Ban(c)
    /\ Goto(c, "closing")
    /\ UNCHANGED <<listening, active>>

\* 3. Concurrent-connection cap.
Acquire(c) ==
    /\ conn[c].at = "slot"
    /\ \/ /\ MaxConns > 0 /\ active[conn[c].ip] >= MaxConns
          /\ Goto(c, "closing")
          /\ UNCHANGED active
       \/ /\ MaxConns = 0 \/ active[conn[c].ip] < MaxConns
          /\ Goto(c, "read")
          /\ active' = [active EXCEPT ![conn[c].ip] = @ + 1]
    /\ UNCHANGED <<listening, banned>>

\* What io.ReadFull waits for next: a byte of the length, or the body.
Wanted(raw) == IF VarInt(raw, 1) = NoInt THEN 1 ELSE VarInt(raw, 1).val

\* 4. The handshake: what is wanted comes in, ...
ReadHandshake(c) ==
    /\ conn[c].at = "read" /\ ~conn[c].fin
    /\ LET n == conn[c].n + Wanted(Read(c))
           f == Frame(SubSeq(conn[c].stream, 1, n))
       IN  /\ n <= Len(conn[c].stream)
           /\ conn' = [conn EXCEPT ![c].n = n,
                                   ![c].at = CASE f = "more" -> "read"
                                               [] f = "ok" -> "dial"
                                               [] f = "bad" -> "abusing"]
    /\ UNCHANGED rest

\* ... or the client has closed, or the deadline passes.
HandshakeFails(c) ==
    /\ conn[c].at = "read"
    /\ Goto(c, "abusing")
    /\ UNCHANGED rest

\* MUTANT: the release is deferred after the handshake.
BanAbuserKeeping(c) ==
    /\ conn[c].at = "abusing"
    /\ Ban(c)
    /\ Goto(c, "closing")
    /\ UNCHANGED <<listening, active>>

BanAbuser(c) ==
    /\ conn[c].at = "abusing"
    /\ Ban(c)
    /\ Goto(c, "release")
    /\ UNCHANGED <<listening, active>>

\* 5. Dial the server.
Dial(c) ==
    /\ conn[c].at = "dial"
    /\ \/ conn' = [conn EXCEPT ![c].at = "replay", ![c].server = "open"]
       \/ Goto(c, "release")
    /\ UNCHANGED rest

\* MUTANT: only the body is replayed.
ReplayedBody(c) == SubSeq(Read(c), VarInt(Read(c), 1).next, conn[c].n)

Replayed(c) == Read(c)

\* Replay the handshake; a write that fails may have got part of it across.
Replay(c) ==
    /\ conn[c].at = "replay"
    /\ \/ conn' = [conn EXCEPT ![c].at = "splice", ![c].up = Replayed(c),
                               ![c].out = "run", ![c].back = "run"]
       \/ /\ conn[c].server = "closed"
          /\ \E k \in 0..(Len(Replayed(c)) - 1) :
                conn' = [conn EXCEPT ![c].at = "closeup",
                                     ![c].up = SubSeq(Replayed(c), 1, k)]
    /\ UNCHANGED rest

\* 6. pipe(up, client): a byte goes to the server, ...
CopyOut(c) ==
    /\ conn[c].out = "run" /\ conn[c].at \in {"splice", "closeup"}
    /\ ~conn[c].fin /\ conn[c].server = "open"
    /\ conn[c].n < Len(conn[c].stream)
    /\ conn' = [conn EXCEPT ![c].n = @ + 1, ![c].up = Append(@, conn[c].stream[conn[c].n + 1])]
    /\ UNCHANGED rest

\* The handler has closed the server's connection, then the client's.
UpClosed(c) == conn[c].at \in {"release", "closing", "gone"}
ClientClosed(c) == conn[c].at = "gone"

\* ... or the copy ends: the client's side is closed, or a byte it sends cannot
\* be written.
EndOut(c) ==
    /\ conn[c].out = "run"
    /\ \/ /\ conn[c].fin \/ ClientClosed(c)
          /\ conn' = [conn EXCEPT ![c].out = "send"]
       \/ /\ conn[c].server = "closed" \/ UpClosed(c)
          /\ conn[c].n < Len(conn[c].stream)
          /\ conn' = [conn EXCEPT ![c].out = "send", ![c].n = @ + 1]
    /\ UNCHANGED rest

\* pipe(client, up), which ends with the server's side.
EndBack(c) ==
    /\ conn[c].back = "run"
    /\ conn[c].server = "closed" \/ UpClosed(c)
    /\ conn' = [conn EXCEPT ![c].back = "send"]
    /\ UNCHANGED rest

\* MUTANT: an unbuffered channel.
DoneCapNone == 0

DoneCap == 2

\* The pipes report on the channel; a full one takes what the handler is
\* waiting for.
CanSend(c) == conn[c].done < DoneCap \/ (conn[c].at = "splice" /\ conn[c].done = 0)

SendOut(c) ==
    /\ conn[c].out = "send" /\ CanSend(c)
    /\ conn' = [conn EXCEPT ![c].out = "ended", ![c].done = @ + 1]
    /\ UNCHANGED rest

SendBack(c) ==
    /\ conn[c].back = "send" /\ CanSend(c)
    /\ conn' = [conn EXCEPT ![c].back = "ended", ![c].done = @ + 1]
    /\ UNCHANGED rest

\* The first report ends the session, ...
AwaitDone(c) ==
    /\ conn[c].at = "splice" /\ conn[c].done > 0
    /\ conn' = [conn EXCEPT ![c].at = "closeup", ![c].done = @ - 1]
    /\ UNCHANGED rest

\* ... and the deferred calls run, last first: up.Close, release, client.Close.
CloseUp(c) ==
    /\ conn[c].at = "closeup"
    /\ Goto(c, "release")
    /\ UNCHANGED rest

Release(c) ==
    /\ conn[c].at = "release"
    /\ active' = [active EXCEPT ![conn[c].ip] = IF @ <= 1 THEN 0 ELSE @ - 1]
    /\ Goto(c, "closing")
    /\ UNCHANGED <<listening, banned>>

CloseClient(c) ==
    /\ conn[c].at = "closing"
    /\ Goto(c, "gone")
    /\ UNCHANGED rest

----------------------------------------------------------------------------
\* The client closes its side; the game server closes the connection.
ClientEnds(c) ==
    /\ conn[c].at \notin {"new", "gone"} /\ ~conn[c].fin
    /\ conn' = [conn EXCEPT ![c].fin = TRUE]
    /\ UNCHANGED rest

ServerEnds(c) ==
    /\ conn[c].at # "new" /\ conn[c].server = "open"
    /\ conn' = [conn EXCEPT ![c].server = "closed"]
    /\ UNCHANGED rest

\* The guard, an operator or the fleet bans somebody; bans end.
BansChange ==
    /\ (\E ip \in IPs \ Allowed : Bans!Block(ip)) \/ Bans!Release
    /\ UNCHANGED <<listening, active, conn>>

\* The context is cancelled: the listener closes, the handlers go on.
Shutdown ==
    /\ listening
    /\ listening' = FALSE
    /\ UNCHANGED <<banned, active, conn>>

Handle(c) ==
    \/ CheckBan(c) \/ CheckRate(c) \/ BanFlooder(c) \/ Acquire(c)
    \/ HandshakeFails(c) \/ BanAbuser(c) \/ Dial(c) \/ Replay(c) \/ AwaitDone(c)
    \/ CloseUp(c) \/ Release(c) \/ CloseClient(c)
Pipes(c) == EndOut(c) \/ SendOut(c) \/ EndBack(c) \/ SendBack(c)

ProxyNext ==
    \/ \E c \in Conns : \/ Accept(c) \/ Handle(c) \/ Pipes(c)
                        \/ ReadHandshake(c) \/ CopyOut(c)
                        \/ ClientEnds(c) \/ ServerEnds(c)
    \/ BansChange \/ Shutdown

ProxySpec == ProxyInit /\ [][ProxyNext]_proxyVars

\* Handlers and pipes keep running, and a peer that is written to reads; the
\* deadline of the handshake passes.  No client has to send, no side to close.
ProxyFairSpec == ProxySpec /\ \A c \in Conns : WF_proxyVars(Handle(c) \/ Pipes(c))

----------------------------------------------------------------------------
(* Properties. *)

\* The protocol, said by what is sent: s is a VarInt, and its value is v.
Weight[n \in 0..MaxVarInt] == IF n = 0 THEN 1 ELSE Group * Weight[n - 1]
IsCode(s) ==
    /\ Len(s) \in 1..MaxVarInt
    /\ s[Len(s)] < Group /\ \A i \in 1..(Len(s) - 1) : s[i] >= Group
ValueOf(s) == FoldFunction(+, 0, [i \in DOMAIN s |-> (s[i] % Group) * Weight[i - 1]])
Encodes(s, v) == IsCode(s) /\ v = ValueOf(s)

\* p is id 0, a version, an address behind its length, two bytes of port and a
\* state that is 1 or 2, in this order, and anything.
IsHandshake(p) ==
    \E a \in 1..Len(p) : Encodes(SubSeq(p, 1, a), 0) /\
    \E b \in (a + 1)..Len(p) : IsCode(SubSeq(p, a + 1, b)) /\
    \E d \in (b + 1)..Len(p) : \E length \in 0..(Len(p) - d) :
        /\ Encodes(SubSeq(p, b + 1, d), length)
        /\ \E e \in (d + length + 3)..Len(p) :
              \E v \in {1, 2} : Encodes(SubSeq(p, d + length + 3, e), v)

\* The bodies the parser gets wrong, and the streams that begin with a
\* handshake in its frame.
Misread == {p \in Payloads : Parses(p) # IsHandshake(p)}
Handshakes ==
    {s \in Streams : \E h \in 1..MaxVarInt, l \in 1..MaxPacket :
        /\ h + l <= Len(s)
        /\ Encodes(SubSeq(s, 1, h), l)
        /\ IsHandshake(SubSeq(s, h + 1, h + l))}

\* The parser takes exactly what the protocol calls a handshake, whatever the
\* bytes are and wherever the body is cut off.  The game server sees what the
\* client sent, from its first byte and without a gap, and sees nothing unless
\* the client began with a handshake; and what the proxy has read of a session
\* in progress it has passed on: the parser took nothing beyond the packet.
UpstreamSeesClient ==
    /\ Misread = {}
    /\ \A c \in Conns : conn[c] # NoConn =>
        /\ IsPrefix(conn[c].up, Read(c))
        /\ conn[c].up # <<>> => conn[c].stream \in Handshakes
        /\ conn[c].at = "splice" /\ conn[c].server = "open" => conn[c].up = Read(c)

Holders(ip) ==
    {c \in Conns : /\ conn[c].at \in {"read", "abusing", "dial", "replay", "splice",
                                      "closeup", "release"}
                   /\ conn[c].ip = ip}

\* Every way out of the handler gives the slot back once: the count of an IP
\* is the number of handlers that hold one, and stays within the cap.
SlotsHeld ==
    \A ip \in IPs : /\ active[ip] = Cardinality(Holders(ip))
                    /\ MaxConns > 0 => active[ip] <= MaxConns

\* Nobody is stuck: a client that stalls in the handshake is dropped, and once
\* either side of a session is closed the handler and both pipes end.
NobodyStuck ==
    \A c \in Conns :
        /\ conn[c].at = "read" ~> conn[c].at # "read"
        /\ conn[c].at = "splice" /\ (conn[c].fin \/ conn[c].server = "closed")
             ~> conn[c].at = "gone" /\ conn[c].out = "ended" /\ conn[c].back = "ended"

============================================================================
