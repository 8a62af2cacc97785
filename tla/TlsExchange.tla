----------------------------- MODULE TlsExchange -----------------------------
\* One HTTPS exchange of skarbiec with a service off this host: the connection
\* held to the schedule's deadline (net/deadline), the TLS 1.3 client handshake,
\* records and key schedule (crates/crypto tls), the request and the reply read
\* to the end it states (net/https, net/loopback).  The server and the network
\* are external: the server may deviate in every message, and the stream may be
\* cut, damaged, have a record repeated or two exchanged, or an alert put in that
\* nobody sealed.  Cryptography is symbolic: a record opens under the key and the
\* number it was sealed with, and a key is the transcript it was derived over.
EXTENDS Naturals, Sequences, SequencesExt, FiniteSets

CONSTANTS Addresses,     \* how many addresses the host resolves to
          BodyItems,     \* bound: data items of a reply's body
          RequestRecords,\* records the request fills (chunks of MAX_PLAINTEXT)
          MaxSequence,   \* u64::MAX: the last record number of a key
          Due,           \* when the run's schedule fires again
          MaxFaults      \* bound: what happens to the stream

ASSUME TlsAssumption == /\ Addresses \in Nat \ {0} /\ BodyItems \in Nat /\ RequestRecords \in Nat \ {0}
                        /\ MaxSequence \in Nat /\ Due \in Nat /\ MaxFaults \in Nat

VARIABLES over,     \* "tls", or "loopback" for an http:// address of this host
          held,     \* a Stado schedule started this run
          clock,
          peer,     \* the client: see Client
          server,   \* the server: see Server
          toServer, toClient,  \* the two directions of the stream
          sealed,   \* every (key, number) the client sealed a record with, in order
          faults

tvars == <<over, held, clock, peer, server, toServer, toClient, sealed, faults>>

OFFERED == {"AES_128_GCM_SHA256", "AES_256_GCM_SHA384", "CHACHA20_POLY1305_SHA256"}
ALPN == {"http/1.1"}
Plain == <<"plain">>
\* A record: outer content type, key, number and what it carries.
Record(type, key, n, content) == [type |-> type, key |-> key, n |-> n, content |-> content]
EndOfStream == Record("eof", Plain, 0, <<>>)

\* client_hello: what the hello offers; the network may change it.
client_hello == [kind |-> "ClientHello", suites |-> OFFERED, alpn |-> ALPN]

\* A ServerHello that accepts, and what servers get wrong in one.
GoodHello(s) == [kind |-> "ServerHello", random |-> "fresh", echo |-> TRUE, suite |-> s, compression |-> FALSE,
                 version |-> "TLS13", group |-> "X25519", share |-> "good", other |-> FALSE]
ServerHellos ==
  LET g == GoodHello("AES_128_GCM_SHA256")
  IN {g, [g EXCEPT !.suite = "CHACHA20_POLY1305_SHA256"], [g EXCEPT !.suite = "unoffered"],
      [g EXCEPT !.random = "retry"], [g EXCEPT !.random = "downgrade"], [g EXCEPT !.echo = FALSE],
      [g EXCEPT !.compression = TRUE], [g EXCEPT !.version = "TLS12"], [g EXCEPT !.group = "P256"],
      [g EXCEPT !.share = "short"], [g EXCEPT !.share = "none"], [g EXCEPT !.share = "low_order"],
      [g EXCEPT !.other = TRUE]}
\* server_hello and the checks of connect on the secret.
server_hello(m) ==
  /\ m.kind = "ServerHello" /\ m.random = "fresh" /\ m.echo /\ m.suite \in OFFERED
  /\ ~m.compression /\ m.version = "TLS13" /\ m.group = "X25519" /\ m.share = "good" /\ ~m.other

\* A signature or MAC is checked against the transcript before it joins it, so its
\* kind tells it apart there.
Content(m) == IF m.kind \in {"CertificateVerify", "Finished"} THEN m.kind ELSE m
Contents(transcript) == [i \in DOMAIN transcript |-> Content(transcript[i])]
\* Mutant: the transcript hash leaves the hello out.
digest_after_hello(transcript) == Tail(Contents(transcript))
\* Hash::digest of the transcript: no two transcripts give one hash.
digest(transcript) == Contents(transcript)
\* HKDF: a secret tells its label and the transcript it was derived over.
derive_secret(label, hash) == <<label, hash>>
\* The key and IV of the traffic secrets of Schedule.
handshake_traffic(side, transcript) == derive_secret(<<side, "hs_traffic">>, digest(transcript))
application_traffic(side, transcript) == derive_secret(<<side, "ap_traffic">>, digest(transcript))
\* Schedule::finished and signed_content: what the two ends MAC and sign.
finished(side, transcript) == [kind |-> "Finished", of |-> derive_secret(<<side, "finished">>, digest(transcript))]
signed_content(transcript) == digest(transcript)

\* closed: "no", or how the end of the stream came: under the keys ("sealed") or in
\* the clear ("clear"), which the code does not keep apart.
Client == [pc |-> "exchange", address |-> 1, key |-> Plain, opened |-> 0, pending |-> <<>>,
           established |-> FALSE, closed |-> "no", transcript |-> <<client_hello>>, suite |-> "none",
           got |-> <<>>, out |-> Plain, sent |-> 0, records |-> 0]
\* up: what each address does; hello, deviates: what it answers the hello with;
\* trusted, signs: whether the chain it shows is one verify_server_chain accepts and
\* whether it holds the leaf's key; framing: how its reply states its end; said:
\* what is still to be sent.
Server == [up |-> [a \in 1..Addresses |-> "up"], hello |-> GoodHello("AES_128_GCM_SHA256"), deviates |-> "none",
           trusted |-> TRUE, signs |-> TRUE, framing |-> "length",
           pc |-> "hello", transcript |-> <<>>, key |-> Plain, n |-> 0, said |-> <<>>, heard |-> 0, read |-> 0]
Deviations == {"none", "alpn", "request", "context", "unfit", "finished", "skip", "spans", "spans_finished", "ccs_late"}
\* The servers met: one that conforms, with any framing, or one thing out of place.
Servers ==
  {[Server EXCEPT !.framing = f] : f \in {"length", "chunked", "close"}}
    \cup {[Server EXCEPT !.up[1] = u] : u \in {"refuses", "silent"}}
    \cup {[Server EXCEPT !.up = [a \in 1..Addresses |-> "refuses"]]}
    \cup {[Server EXCEPT !.trusted = FALSE], [Server EXCEPT !.signs = FALSE]}
    \cup {[Server EXCEPT !.hello = sh] : sh \in ServerHellos}
    \cup {[Server EXCEPT !.deviates = d] : d \in Deviations}
Conforms == server.hello = GoodHello("AES_128_GCM_SHA256") /\ server.deviates = "none" /\ server.trusted /\ server.signs

TInit ==
  /\ over \in {"tls", "loopback"} /\ held \in BOOLEAN /\ clock = 0
  /\ peer = Client
  /\ server \in Servers
  /\ over = "loopback" => server.framing # "length" \/ server.up # Server.up \/ server = Server
  /\ toServer = <<>> /\ toClient = <<>> /\ sealed = <<>>
  /\ faults = IF held THEN MaxFaults ELSE 0  \* a held run meets a server that stops

-----------------------------------------------------------------------------
\* net/deadline: every socket operation of a held run has the time left.
left == ~held \/ clock < Due
Ended(pc) == pc \in {"answered", "refused"}
Refused(p) == [p EXCEPT !.pc = "refused"]

\* The address, the request's head, this host's trust anchors, its clock and the
\* schedule's next firing: one that cannot be had refuses the exchange before a
\* connection is made.
split == BOOLEAN
request_head == BOOLEAN
load_anchors == IF over = "tls" THEN BOOLEAN ELSE {TRUE}
of_this_run == IF held THEN BOOLEAN ELSE {TRUE}
exchange ==
  /\ peer.pc = "exchange"
  /\ \E u \in split, h \in request_head, a \in load_anchors, d \in of_this_run :
       peer' = IF u /\ h /\ a /\ d THEN [peer EXCEPT !.pc = "connect"] ELSE Refused(peer)
  /\ UNCHANGED <<over, held, clock, server, toServer, toClient, sealed, faults>>

\* connect, connect_one: the addresses in turn; one that neither accepts nor
\* refuses holds the run until its deadline.
tcp_connect ==
  /\ peer.pc = "connect" /\ left
  /\ \/ /\ server.up[peer.address] = "up"
        /\ peer' = [peer EXCEPT !.pc = IF over = "tls" THEN "hello" ELSE "send"]
     \/ /\ server.up[peer.address] = "refuses"
        /\ peer' = IF peer.address < Addresses THEN [peer EXCEPT !.address = @ + 1] ELSE Refused(peer)
  /\ UNCHANGED <<over, held, clock, server, toServer, toClient, sealed, faults>>

\* Mutant: the deadline holds the connect and not the reads after it.
Deadline_connect == held /\ clock >= Due /\ peer.pc = "connect"
\* The time is up: the operation under way or the next one is refused.
Deadline_passed == held /\ clock >= Due /\ ~Ended(peer.pc) /\ peer.pc # "exchange"
passed ==
  /\ Deadline_passed
  /\ peer' = Refused(peer)
  /\ UNCHANGED <<over, held, clock, server, toServer, toClient, sealed, faults>>

\* connect: the hello goes out, in the clear.
hello ==
  /\ peer.pc = "hello" /\ left
  /\ toServer' = Append(toServer, Record("handshake", Plain, 0, client_hello))
  /\ peer' = [peer EXCEPT !.pc = "ServerHello"]
  /\ UNCHANGED <<over, held, clock, server, toClient, sealed, faults>>

-----------------------------------------------------------------------------
\* Protection::seal: one record under the outgoing key; the number is taken before
\* it is advanced, and the last one is never sent.
CanSeal == peer.sent < MaxSequence
Sealed(type, content) == Record(type, peer.out, peer.sent, content)

\* Protection::open: the record's key and number are the ones expected.
opens(r) == r.key = peer.key /\ r.n = peer.opened
open(p, r) == [p EXCEPT !.opened = IF peer.key = Plain THEN @ ELSE @ + 1]

\* Mutant: an alert is read before it is opened.
unopened_closes(r) == r.type = "alert" /\ r.content = "close_notify"
\* Incoming::record: a close_notify ends the stream, any other alert or a stream
\* that just ends is an error; a change_cipher_spec is dropped in the handshake.
\* An alert is taken in the clear too, after the keys changed as before.
record_closes(r) == r.type = "alert" /\ r.content = "close_notify" /\ (r.key = Plain \/ opens(r))
record_fails(r) ==
  CASE r.type = "eof" -> TRUE
    [] r.type = "alert" -> ~record_closes(r)
    [] r.type = "change_cipher_spec" -> peer.established
    [] OTHER -> ~opens(r)
Fails(r) == record_fails(r) /\ ~record_closes(r)

\* Two pieces of one message make it whole (a message may be cut across records).
Whole(pending) == pending # <<>> /\ (pending[1].piece = pending[1].pieces
                                     \/ (Len(pending) > 1 /\ pending[1].pieces = 2))
Rest(pending) == SubSeq(pending, pending[1].pieces + 1, Len(pending))
Message == peer.pending[1].message

\* Incoming::record and message: the next record of the handshake.
Handshaking == {"ServerHello", "EncryptedExtensions", "Certificate", "CertificateVerify", "Finished"}
receive_handshake ==
  /\ peer.pc \in Handshaking /\ left /\ ~Whole(peer.pending) /\ toClient # <<>>
  /\ LET r == Head(toClient)
     IN peer' = CASE r.type = "change_cipher_spec" -> peer
                  [] r.type # "change_cipher_spec" /\ (Fails(r) \/ record_closes(r) \/ r.type # "handshake" \/ r.content = <<>>) -> Refused(peer)
                  [] OTHER -> [open(peer, r) EXCEPT !.pending = @ \o r.content]
  /\ toClient' = Tail(toClient)
  /\ UNCHANGED <<over, held, clock, server, toServer, sealed, faults>>

\* connect: the checks on the message its place in the flight calls for, and the
\* transcript through it; the keys change after ServerHello and after Finished,
\* which no message may span (Incoming::protect).
Expected(m) ==
  CASE peer.pc = "ServerHello" -> server_hello(m)
    [] peer.pc = "EncryptedExtensions" -> m.kind = "EncryptedExtensions" /\ m.alpn \in ALPN \cup {"none"}
    [] peer.pc = "Certificate" -> m.kind = "Certificate" /\ ~m.context /\ m.trusted
    [] peer.pc = "CertificateVerify" -> m.kind = "CertificateVerify" /\ m.fits /\ m.signed = <<"leaf", signed_content(peer.transcript)>>
    [] peer.pc = "Finished" -> m = finished("server", peer.transcript)
NextPlace == [ServerHello |-> "EncryptedExtensions", EncryptedExtensions |-> "Certificate",
              Certificate |-> "CertificateVerify", CertificateVerify |-> "Finished", Finished |-> "send"]
Transcribed(m) == [peer EXCEPT !.pending = Rest(@), !.transcript = Append(@, m), !.pc = NextPlace[peer.pc]]
flight_message ==
  /\ peer.pc \in Handshaking /\ Whole(peer.pending)
  /\ LET m == Message  p == Transcribed(m)
         spans == p.pending # <<>>
     IN CASE ~Expected(m) -> peer' = Refused(peer) /\ UNCHANGED <<toServer, sealed>>
          [] Expected(m) /\ peer.pc = "ServerHello" ->
               /\ peer' = IF spans THEN Refused(peer)
                          ELSE [p EXCEPT !.suite = m.suite, !.key = handshake_traffic("server", p.transcript), !.opened = 0,
                                         !.out = handshake_traffic("client", p.transcript)]
               /\ UNCHANGED <<toServer, sealed>>
          [] Expected(m) /\ peer.pc = "Finished" ->
               \* the client's Finished leaves before the incoming keys change
               /\ left
               /\ sealed' = Append(sealed, <<peer.out, peer.sent>>)
               /\ toServer' = Append(toServer, Sealed("handshake", finished("client", p.transcript)))
               /\ peer' = IF spans THEN Refused(peer)
                          ELSE [p EXCEPT !.key = application_traffic("server", p.transcript), !.opened = 0,
                                         !.established = TRUE, !.sent = 0,
                                         !.out = application_traffic("client", p.transcript)]
          [] OTHER -> peer' = p /\ UNCHANGED <<toServer, sealed>>
  /\ UNCHANGED <<over, held, clock, server, toClient, faults>>

advance(p) == [p EXCEPT !.sent = @ + 1]
Asked == [peer EXCEPT !.records = @ + 1, !.pc = IF peer.records + 1 = RequestRecords THEN "reply" ELSE @]
\* Connection::send: the request in records of at most MAX_PLAINTEXT.
send ==
  /\ peer.pc = "send" /\ left /\ over = "tls"
  /\ sealed' = Append(sealed, <<peer.out, peer.sent>>)
  /\ IF CanSeal THEN toServer' = Append(toServer, Sealed("data", "request")) /\ peer' = advance(Asked)
     ELSE peer' = Refused(peer) /\ UNCHANGED toServer
  /\ UNCHANGED <<over, held, clock, server, toClient, faults>>
\* loopback::exchange: the same request, in the clear on this host.
loopback_send ==
  /\ peer.pc = "send" /\ left /\ over = "loopback"
  /\ toServer' = Append(toServer, Record("data", Plain, 0, "request")) /\ peer' = Asked
  /\ UNCHANGED <<over, held, clock, server, toClient, sealed, faults>>

-----------------------------------------------------------------------------
\* read_reply: the head states how the body ends.  Items: "head", the body's items,
\* and for a chunked body the last chunk and the blank line after its trailers.
Bodies(got) == Cardinality({i \in DOMAIN got : got[i] = "body"})
Whole_reply(got, closed) ==
  /\ got # <<>>
  /\ CASE server.framing = "length" -> Bodies(got) = BodyItems
       [] server.framing = "chunked" -> "blank" \in Range(got) \/ ("last" \in Range(got) /\ closed)
       [] server.framing = "close" -> closed

\* After the handshake: a NewSessionTicket is dropped, whole or in pieces; any
\* other handshake message is refused.
Tickets(pending) == \A i \in DOMAIN pending : pending[i].message.kind = "NewSessionTicket"
Undropped(pending) == IF Len(pending) % 2 = 0 THEN <<>> ELSE <<Last(pending)>>

\* Connection::receive and the reader above it.
receive ==
  /\ peer.pc = "reply" /\ left /\ peer.closed = "no" /\ ~Whole_reply(peer.got, FALSE) /\ toClient # <<>>
  /\ LET r == Head(toClient)
     IN peer' = CASE over = "loopback" /\ r.type = "eof" -> [peer EXCEPT !.closed = "clear"]
                  [] over = "loopback" /\ r.type # "eof" -> [peer EXCEPT !.got = @ \o r.content]
                  [] over = "tls" /\ record_closes(r) -> [peer EXCEPT !.closed = IF r.key = Plain THEN "clear" ELSE "sealed"]
                  [] over = "tls" /\ Fails(r) -> Refused(peer)
                  [] over = "tls" /\ ~Fails(r) /\ r.type = "data" -> [open(peer, r) EXCEPT !.got = @ \o r.content]
                  [] over = "tls" /\ ~Fails(r) /\ r.type = "handshake" ->
                       IF Tickets(r.content) THEN [open(peer, r) EXCEPT !.pending = Undropped(@ \o r.content)] ELSE Refused(peer)
                  [] OTHER -> Refused(peer)
  /\ toClient' = Tail(toClient)
  /\ UNCHANGED <<over, held, clock, server, toServer, sealed, faults>>
\* The reply is whole, or the connection closed before the end it states; a
\* close_notify goes out and its failure changes nothing read.
read_reply ==
  /\ peer.pc = "reply" /\ (peer.closed # "no" \/ Whole_reply(peer.got, FALSE))
  /\ IF Whole_reply(peer.got, peer.closed # "no")
     THEN /\ peer' = [peer EXCEPT !.pc = "answered"]
          /\ IF over = "tls" /\ CanSeal THEN toServer' = Append(toServer, Sealed("alert", "close_notify")) ELSE UNCHANGED toServer
          /\ sealed' = IF over = "tls" THEN Append(sealed, <<peer.out, peer.sent>>) ELSE sealed
     ELSE peer' = Refused(peer) /\ UNCHANGED <<toServer, sealed>>
  /\ UNCHANGED <<over, held, clock, server, toClient, faults>>

-----------------------------------------------------------------------------
\* The server.  A message is said in one piece, a Certificate and a ticket in two;
\* records take any number of the pieces that share a key.
Pieces(type, key, m, k) == [i \in 1..k |-> [type |-> type, key |-> key, content |-> [message |-> m, piece |-> i, pieces |-> k]]]
Said(type, key, m) == Pieces(type, key, m, 1)
Ticket == [kind |-> "NewSessionTicket"]

\* Its answer to the hello it read: an alert, or a ServerHello and its flight.
server_answers ==
  /\ server.pc = "hello" /\ toServer # <<>> /\ over = "tls"
  /\ LET m == Head(toServer).content
     IN \/ /\ server' = [server EXCEPT !.pc = "gone"]
           /\ toClient' = toClient \o <<Record("alert", Plain, 0, "protocol_version"), EndOfStream>>
        \/ \E alpn \in {"none", "http/1.1"} :
             /\ LET sh == IF Conforms /\ server.hello.suite \notin m.suites
                          THEN GoodHello(CHOOSE x \in m.suites : TRUE) ELSE server.hello
                    d == server.deviates
                    t == <<m, sh>>  k == handshake_traffic("server", t)
                    ee == [kind |-> "EncryptedExtensions", alpn |-> IF d = "alpn" THEN "h2" ELSE alpn]
                    cert == [kind |-> IF d = "request" THEN "CertificateRequest" ELSE "Certificate",
                             context |-> d = "context", trusted |-> server.trusted]
                    t1 == <<m, sh, ee, cert>>
                    cv == [kind |-> "CertificateVerify", fits |-> d # "unfit",
                           signed |-> <<IF server.signs THEN "leaf" ELSE "another", signed_content(t1)>>]
                    t2 == Append(t1, cv)
                    fin == IF d = "finished" THEN finished("server", t1) ELSE finished("server", t2)
                    t3 == Append(t2, fin)
                IN /\ server' = [server EXCEPT !.pc = "Finished", !.transcript = t3,
                         !.said = Said("handshake", Plain, sh)
                                  \o Said("handshake", IF d = "spans" THEN Plain ELSE k, ee)
                                  \o Pieces("handshake", k, cert, 2)
                                  \o (IF d = "skip" THEN <<>> ELSE Said("handshake", k, cv))
                                  \o Said("handshake", k, fin)
                                  \o (IF d = "spans_finished" THEN Said("handshake", k, Ticket) ELSE <<>>)
                                  \o (IF d = "ccs_late" THEN Said("change_cipher_spec", Plain, 1) ELSE <<>>)]
                   /\ toClient' = toClient
  /\ toServer' = Tail(toServer)
  /\ UNCHANGED <<over, held, clock, peer, sealed, faults>>

\* A record of the pieces that come next; a change_cipher_spec may precede it.
server_says(n) ==
  /\ n \in 1..Len(server.said)
  /\ \A i \in 1..n : server.said[i].key = server.said[1].key /\ server.said[i].type = server.said[1].type
  /\ LET e == server.said[1]  number == IF e.key = server.key THEN server.n ELSE 0
         content == IF e.type = "alert" THEN e.content.message ELSE [i \in 1..n |-> IF e.type = "data" THEN server.said[i].content.message ELSE server.said[i].content]
         r == Record(e.type, e.key, number, content)
     IN /\ server' = [server EXCEPT !.said = SubSeq(@, n + 1, Len(@)), !.key = e.key, !.n = IF e.key = Plain THEN 0 ELSE number + 1]
        /\ \E ccs \in {<<>>, <<Record("change_cipher_spec", Plain, 0, 1)>>} :
             /\ ccs # <<>> => e.type = "handshake" /\ e.content.message.kind = "EncryptedExtensions"
             /\ toClient' = toClient \o ccs \o <<r>>
  /\ UNCHANGED <<over, held, clock, peer, toServer, sealed, faults>>

\* What it reads once its flight is out: the client's Finished, the request; then
\* tickets, the reply and its close_notify.
ReadKey == IF over = "loopback" THEN Plain
           ELSE IF server.pc = "Finished" THEN handshake_traffic("client", SubSeq(server.transcript, 1, 2))
           ELSE application_traffic("client", server.transcript)
ReplyItems ==
  <<"head">> \o [i \in 1..BodyItems |-> "body"] \o (IF server.framing = "chunked" THEN <<"last", "blank">> ELSE <<>>)
Reply(key, tickets, update) ==
  (IF tickets THEN Pieces("handshake", key, Ticket, 2) ELSE <<>>)
    \o (IF update THEN Said("handshake", key, [kind |-> "KeyUpdate"]) ELSE <<>>)
    \o [i \in DOMAIN ReplyItems |-> Said("data", key, ReplyItems[i])[1]]
    \o (IF over = "tls" THEN Said("alert", key, "close_notify") ELSE <<>>) \o Said("eof", Plain, 0)
server_hears ==
  /\ server.pc \in {"Finished", "request"} /\ server.said = <<>> /\ toServer # <<>>
  /\ LET r == Head(toServer)  key == application_traffic("server", server.transcript)
         fits == r.key = ReadKey /\ r.n = server.read
     IN IF ~fits \/ (server.pc = "Finished" /\ r.content # finished("client", server.transcript))
        THEN /\ server' = [server EXCEPT !.pc = "gone"]
             /\ toClient' = toClient \o <<Record("alert", server.key, server.n, "decrypt_error"), EndOfStream>>
        ELSE /\ \E tickets \in BOOLEAN, update \in BOOLEAN :
                  /\ (tickets \/ update) => over = "tls" /\ ~(tickets /\ update)
                  /\ server' = CASE server.pc = "Finished" -> [server EXCEPT !.pc = "request"]
                                 [] server.pc = "request" /\ server.heard + 1 < RequestRecords ->
                                      [server EXCEPT !.heard = @ + 1, !.read = IF over = "tls" THEN @ + 1 ELSE @]
                                 [] OTHER -> [server EXCEPT !.heard = @ + 1, !.pc = "replied",
                                               !.said = Reply(IF over = "tls" THEN key ELSE Plain, tickets, update)]
             /\ UNCHANGED toClient
  /\ toServer' = Tail(toServer)
  /\ UNCHANGED <<over, held, clock, peer, sealed, faults>>
\* A server on this host needs no handshake.
loopback_hears ==
  /\ over = "loopback" /\ server.pc = "hello" /\ peer.pc \notin {"exchange", "connect"}
  /\ server' = [server EXCEPT !.pc = "request"]
  /\ UNCHANGED <<over, held, clock, peer, toServer, toClient, sealed, faults>>

\* The server dies or the connection is cut: nothing more is said.
server_cut ==
  /\ server.pc # "gone" /\ peer.pc \notin {"exchange", "connect"} /\ Conforms /\ faults < MaxFaults /\ faults' = faults + 1
  /\ server' = [server EXCEPT !.pc = "gone", !.said = <<>>]
  /\ toClient' = Append(toClient, EndOfStream)
  /\ UNCHANGED <<over, held, clock, peer, toServer, sealed>>
\* What may happen to a record on the way.  A hello in the clear may offer less or
\* choose another suite unnoticed; a sealed record no longer opens.  A close_notify
\* in the clear takes no key to make.
Broken(r) == [r EXCEPT !.key = <<"damaged">>]
DamagedOut(r) == IF r.key = Plain THEN [r EXCEPT !.content.suites = {"CHACHA20_POLY1305_SHA256"}] ELSE Broken(r)
DamagedIn(r) == IF r.key = Plain THEN [r EXCEPT !.content[1].message.suite = "AES_256_GCM_SHA384"] ELSE Broken(r)
DamageableIn(r) == r.key # Plain \/ (r.type = "handshake" /\ r.content[1].message.kind = "ServerHello")
network ==
  /\ over = "tls" /\ Conforms /\ faults < MaxFaults /\ faults' = faults + 1
  /\ \/ toServer # <<>> /\ toServer' = <<DamagedOut(Head(toServer))>> \o Tail(toServer) /\ UNCHANGED toClient
     \/ toClient' = <<Record("alert", Plain, 0, "close_notify")>> \o toClient /\ UNCHANGED toServer
     \/ /\ toClient # <<>> /\ UNCHANGED toServer
        /\ \/ DamageableIn(Head(toClient)) /\ toClient' = <<DamagedIn(Head(toClient))>> \o Tail(toClient)
           \/ Head(toClient).type # "eof" /\ toClient' = <<Head(toClient)>> \o toClient
           \/ Len(toClient) > 1 /\ toClient[2].type # "eof" /\ toClient' = <<toClient[2], toClient[1]>> \o SubSeq(toClient, 3, Len(toClient))
  /\ UNCHANGED <<over, held, clock, peer, server, sealed>>
Clock == held /\ clock < Due /\ clock' = clock + 1 /\ UNCHANGED <<over, held, peer, server, toServer, toClient, sealed, faults>>

ClientNext == exchange \/ tcp_connect \/ hello \/ receive_handshake \/ flight_message \/ send \/ loopback_send \/ receive \/ read_reply
TNext == ClientNext \/ passed \/ Clock \/ server_answers \/ (\E n \in 1..8 : server_says(n)) \/ server_hears
           \/ loopback_hears \/ server_cut \/ network
\* The client goes on while it can and time passes; nothing makes the server answer.
TSpec == TInit /\ [][TNext]_tvars /\ WF_tvars(ClientNext) /\ WF_tvars(passed) /\ WF_tvars(Clock)

-----------------------------------------------------------------------------
\* A reply taken as whole is the server's whole reply, in order, however the stream
\* is cut, damaged, repeated or exchanged and however records cut it: read_reply's
\* stated ends and a sealed close_notify tell a cut reply from a short one.  Only a
\* reply that states no length and ends in the clear may be taken as whole when it
\* was cut: over loopback, and over TLS too when somebody on the way puts in a
\* close_notify of his own, which Incoming::record takes after the keys changed.
ReplyWhole ==
  peer.pc = "answered" /\ (server.framing = "close" => peer.closed = "sealed")
    => Bodies(peer.got) = BodyItems /\ peer.got[1] = "head" /\ "head" \notin Range(Tail(peer.got))

\* The two ends agree: once the request leaves, the server it goes to read this
\* hello and chose among what it offered, showed a chain that leads to an anchor
\* and holds its key (connect), even when a hello was changed on the way.
EndsAgree ==
  over = "tls" /\ peer.established
    => /\ server.trusted /\ server.signs
       /\ peer.transcript = server.transcript /\ peer.transcript[1] = client_hello
       /\ peer.suite \in OFFERED /\ peer.transcript[2].suite = peer.suite

\* No key seals two records with one number (Protection::seal): the nonce is the
\* number folded into the key's IV.
SealedOnce == \A i, j \in DOMAIN sealed : i # j => sealed[i] # sealed[j]

\* What the two ends hold of each other is the same, and what keeps their records
\* apart is never used twice: the channel a request is trusted to.
ChannelAgrees == EndsAgree /\ SealedOnce

\* An exchange of a scheduled run ends, whatever the server does: a silent address,
\* a server that stops in its flight or in its reply (net/deadline).
HeldEnds == held ~> Ended(peer.pc)
=============================================================================
