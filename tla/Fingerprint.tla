---------------------------- MODULE Fingerprint ----------------------------
(***************************************************************************)
(* internal/fingerprint: what JA3 and JA4 make of a ClientHello, and how   *)
(* the fingerprint of a connection gets from the TLS handshake to the      *)
(* requests on it - through a map keyed by the remote address, filled when *)
(* the connection is accepted and emptied by the handshake or the hook of  *)
(* the closed connection.                                                  *)
(*                                                                         *)
(* net/http closes the socket before it runs that hook, and a peer that    *)
(* resets frees its address at once: a new connection of the same address  *)
(* may then be accepted while the old one is still unfinished.  Hashes are *)
(* taken as what they hash.                                                *)
(***************************************************************************)
EXTENDS Integers, SequencesExt

CONSTANTS
    TLSConns,
    Addrs,     \* remote addresses: records [host, port]
    Hellos,    \* ClientHellos
    NoHolder,  \* no holder in the map
    NoPrint    \* a holder that is not ready

VARIABLES
    pending,   \* Collector.pending: address -> the connection of the holder
    holder,    \* holder[c]: what the holder on c's context says
    tls,       \* tls[c]: the connection and how far its goroutine is
    linked,    \* connections whose address is taken
    seen,      \* seen[c]: what FromContext told c's last request
    mixed      \* history: connections that were unfinished together with
               \* another one of their address

collectorVars == <<pending, holder, tls, linked, seen, mixed>>

----------------------------------------------------------------------------
(* The fingerprints. *)

\* v & 0x0f0f = 0x0a0a.
IsGREASE(v) == v % 16 = 10 /\ (v \div 256) % 16 = 10
FilterGREASE(s) == SelectSeq(s, LAMBDA v : ~IsGREASE(v))
MaxVersion(s) ==
    CHOOSE v \in {0} \cup {s[i] : i \in DOMAIN s} :
        /\ ~IsGREASE(v)
        /\ \A i \in DOMAIN s : IsGREASE(s[i]) \/ s[i] <= v

JA3(h) == <<MaxVersion(h.versions), FilterGREASE(h.ciphers), FilterGREASE(h.exts),
            FilterGREASE(h.curves), h.points>>

\* MUTANT: in the order of the wire.
SortedHexNot(s) == s

\* Four hex digits each: the order of the strings is that of the numbers.
SortedHex(s) == SortSeq(s, LAMBDA a, b : a < b)

Count2(n) == IF n > 99 THEN 99 ELSE n
TLSVersions == 769..772
JA4Version(v) == IF v \in TLSVersions THEN v ELSE 0
\* The first protocol's first and last character.
JA4ALPN(protos) == IF protos = <<>> THEN <<"0", "0">>
                   ELSE <<Head(protos).first, Head(protos).last>>

SNI == 0
ALPN == 16

JA4(h) ==
    LET ciphers == FilterGREASE(h.ciphers)
        exts    == FilterGREASE(h.exts)
    IN  <<JA4Version(MaxVersion(h.versions)), h.name, Count2(Len(ciphers)),
          Count2(Len(exts)), JA4ALPN(h.protos),
          SortedHex(ciphers),
          SortedHex(SelectSeq(exts, LAMBDA e : e \notin {SNI, ALPN})),
          FilterGREASE(h.sigs)>>

Marks(h) == [ja3 |-> JA3(h), ja4 |-> JA4(h)]

ASSUME PrintAssumption ==
    NoHolder \notin TLSConns /\ \A h \in Hellos : Marks(h) # NoPrint

----------------------------------------------------------------------------
(* The collector. *)

NotYet == [at |-> "new"]

CollectorInit ==
    /\ pending = [a \in Addrs |-> NoHolder]
    /\ holder = [c \in TLSConns |-> NoPrint]
    /\ tls = [c \in TLSConns |-> NotYet]
    /\ linked = {}
    /\ seen = [c \in TLSConns |-> NoPrint]
    /\ mixed = {}

Unfinished(a) == {d \in TLSConns : tls[d].at \notin {"new", "gone"} /\ tls[d].addr = a}

\* The server accepts a connection and asks ConnContext for its context.
ConnContext(c) ==
    /\ tls[c] = NotYet
    /\ \E a \in Addrs \ {tls[d].addr : d \in linked}, h \in Hellos :
          /\ tls' = [tls EXCEPT ![c] = [at |-> "hello", addr |-> a, hello |-> h,
                                          took |-> NoHolder]]
          /\ pending' = [pending EXCEPT ![a] = c]
          /\ mixed' = IF Unfinished(a) = {} THEN mixed
                      ELSE mixed \cup {c} \cup Unfinished(a)
    /\ linked' = linked \cup {c}
    /\ UNCHANGED <<holder, seen>>

\* Observe: take the holder out of the map, ...
Take(c) ==
    /\ tls[c].at = "hello"
    /\ LET k == tls[c].addr
       IN  /\ tls' = [tls EXCEPT ![c].took = pending[k],
                                   ![c].at = IF pending[k] = NoHolder THEN "serving" ELSE "fill"]
           /\ pending' = [pending EXCEPT ![k] = NoHolder]
    /\ UNCHANGED <<holder, linked, seen, mixed>>

\* ... and fill it in.
Fill(c) ==
    /\ tls[c].at = "fill"
    /\ holder' = [holder EXCEPT ![tls[c].took] = Marks(tls[c].hello)]
    /\ tls' = [tls EXCEPT ![c].at = "serving"]
    /\ UNCHANGED <<pending, linked, seen, mixed>>

\* FromContext, in a request on the connection.
Request(c) ==
    /\ tls[c].at = "serving"
    /\ seen' = [seen EXCEPT ![c] = holder[c]]
    /\ tls' = [tls EXCEPT ![c].at = "served"]
    /\ UNCHANGED <<pending, holder, linked, mixed>>

\* The peer resets: its address is free, the goroutine has yet to notice.
Reset(c) ==
    /\ c \in linked
    /\ linked' = linked \ {c}
    /\ UNCHANGED <<pending, holder, tls, seen, mixed>>

\* The connection ends, before its ClientHello or after: the socket is closed ...
CloseSocket(c) ==
    /\ tls[c].at \in {"hello", "serving", "served"}
    /\ tls' = [tls EXCEPT ![c].at = "closed"]
    /\ linked' = linked \ {c}
    /\ UNCHANGED <<pending, holder, seen, mixed>>

\* MUTANT: a connection that never got its fingerprint is left alone.
ClosedHookReady(c) ==
    /\ tls[c].at = "closed"
    /\ IF holder[c] = NoPrint THEN UNCHANGED pending
       ELSE pending' = [pending EXCEPT ![tls[c].addr] = NoHolder]
    /\ tls' = [tls EXCEPT ![c].at = "gone"]
    /\ UNCHANGED <<holder, linked, seen, mixed>>

\* ... and then ConnState hears of StateClosed.
ClosedHook(c) ==
    /\ tls[c].at = "closed"
    /\ pending' = [pending EXCEPT ![tls[c].addr] = NoHolder]
    /\ tls' = [tls EXCEPT ![c].at = "gone"]
    /\ UNCHANGED <<holder, linked, seen, mixed>>

CollectorNext ==
    \E c \in TLSConns : \/ ConnContext(c) \/ Take(c) \/ Fill(c) \/ Request(c)
                        \/ Reset(c) \/ CloseSocket(c) \/ ClosedHook(c)

CollectorSpec == CollectorInit /\ [][CollectorNext]_collectorVars

----------------------------------------------------------------------------
(* Properties. *)

\* What a TLS stack says of itself: no GREASE, and no order where clients
\* shuffle, which is everywhere but in the signature algorithms.
Stack(h) ==
    [version |-> MaxVersion(h.versions), name |-> h.name,
     alpn    |-> JA4ALPN(h.protos),
     ciphers |-> ToBag(FilterGREASE(h.ciphers)),
     exts    |-> ToBag(FilterGREASE(h.exts)),
     sigs    |-> FilterGREASE(h.sigs)]

Answered == {c \in TLSConns : tls[c].at # "new" /\ seen[c] # NoPrint}

\* A request that is told a fingerprint is told that of its own connection - or,
\* if that was unfinished together with another one of its address, that of
\* one of this address which was so too.
OwnPrint ==
    \A c \in Answered : \E d \in TLSConns :
        /\ tls[d].at # "new" /\ tls[d].addr = tls[c].addr
        /\ d = c \/ {c, d} \subseteq mixed
        /\ seen[c] = Marks(tls[d].hello)

\* Requests are told the fingerprint of their own connection, so those of two
\* connections that met no other have one JA4 exactly if they come from the
\* same stack, however each hello was greased and shuffled.
StackNamed ==
    /\ OwnPrint
    /\ \A c, d \in Answered \ mixed :
          seen[c].ja4 = seen[d].ja4 <=> Stack(tls[c].hello) = Stack(tls[d].hello)

\* A connection that is served knows its fingerprint, unless another one of its
\* address was unfinished together with it; and the map does not grow: a holder
\* in it is that of an unfinished connection of this address.
PendingOwned ==
    /\ \A c \in TLSConns \ mixed : tls[c].at = "serving" => holder[c] # NoPrint
    /\ \A a \in Addrs : pending[a] # NoHolder => pending[a] \in Unfinished(a)

(* What the documentation says and the code does not keep. *)

\* Collector "captures fingerprints during the TLS handshake and makes them
\* available on the request context": of that connection, and always.
AlwaysKnown ==
    \A c \in TLSConns : tls[c].at = "serving" => holder[c] = Marks(tls[c].hello)

============================================================================
