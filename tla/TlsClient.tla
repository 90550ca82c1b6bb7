------------------------------ MODULE TlsClient ------------------------------
(***************************************************************************)
(* applications/tls_example: the client, the transport it polls, and the   *)
(* three TLS back ends behind one interface, one per build.  A step is a   *)
(* call of the transport, or a stretch of code between two.                *)
(*                                                                         *)
(* External: the TLS libraries, which here assemble records of RecordSize  *)
(* bytes and keep the start of one that is not complete; the network,      *)
(* which may deliver the server's bytes in any pieces and may break; and   *)
(* the server, which answers the greeting with one record (number 0) and   *)
(* the request with Records of them.  Byte k of the server's is number k.  *)
(***************************************************************************)
EXTENDS Integers, SequencesExt

CONSTANTS
  Records, RecordSize,
  RecvSize,        \* sizeof(recv_buffer_) of picotls
  BufferSize,      \* sizeof(recv_buffer) of the client
  MaxCerts         \* built-in certificates, at most

ASSUME TlsAssumption ==
  /\ {Records, RecordSize, RecvSize, BufferSize} \subseteq Nat \ {0}
  /\ MaxCerts \in Nat

VARIABLES
  backend,     \* the back end the client was built with
  certs,       \* the number of built-in certificates
  CRL_CHECK,   \* whether the client was built with CRLs
  pc,          \* where the client is
  tried,       \* certificates given to LoadCACert so far
  stored,      \* certificates in the trust store
  sent,        \* what was written to the transport
  arrived,     \* bytes of the server that have arrived
  got,         \* bytes read from the transport
  broken,      \* the connection is gone
  short,       \* history: the transport took only a part of a write
  retry,       \* BoringSSL: the retry flag of the BIO
  partial,     \* the library's incomplete record
  status,      \* picotls: where the handshake goes on when encode_buffer_ is sent
  recv,        \* picotls: recv_buffer_
  encode,      \* picotls: encode_buffer_
  clear,       \* decoded bytes the client has not been given
  out          \* what the client was given

cert == <<certs, CRL_CHECK, tried, stored>>
net == <<arrived, got, broken>>
vars == <<backend, cert, pc, sent, net, short, retry, partial, status, recv, encode,
          clear, out>>

Backends == {"boringssl", "mbedtls", "picotls"}
Hello == <<"hello1", "hello2">>
Finished == <<"finished1", "finished2">>
Request == <<"request1", "request2">>

Init ==
  /\ backend \in Backends
  /\ certs \in 0..MaxCerts /\ CRL_CHECK \in BOOLEAN
  /\ pc = "connect"
  /\ tried = 0 /\ stored = 0
  /\ sent = <<>> /\ arrived = 0 /\ got = 0
  /\ broken = FALSE /\ short = FALSE /\ retry = FALSE /\ status = "shake"
  /\ partial = <<>> /\ recv = <<>> /\ encode = <<>> /\ clear = <<>> /\ out = <<>>

-----------------------------------------------------------------------------
(* Loading certificates.  Data is a PEM text, a DER certificate, or        *)
(* neither.  Both helpers return negative values for a failure; the first  *)
(* returns the number of items, none for data without a PEM header.        *)
LoadCACertCrlsPEMFormat(data) ==
  CASE data = "PEM" -> 1 [] data = "DER" -> 0 [] data = "damaged PEM" -> -1
LoadCACertCrlDERFormat(data) == IF data = "DER" THEN 0 ELSE -1

Formats == {"kPEM", "kDER", "kTryAll"}

(* An attempt in one format: whether the code takes it for a success, what *)
(* it returned, whether anything is in the store now.                      *)
Attempt(ok, ret, stores) == [ok |-> ok, ret |-> ret, stored |-> stores]

(* Everywhere PEM first unless the format is kDER, then DER unless it is   *)
(* kPEM.                                                                   *)
TryFormats(format, pem, der) ==
  CASE format = "kPEM"    -> [ret |-> IF pem.ok THEN 0 ELSE pem.ret, stored |-> pem.stored]
    [] format = "kDER"    -> [ret |-> IF der.ok THEN 0 ELSE der.ret, stored |-> der.stored]
    [] format = "kTryAll" -> [ret |-> IF pem.ok \/ der.ok THEN 0 ELSE -1,
                              stored |-> pem.stored \/ (~pem.ok /\ der.stored)]

DerAttempt(data) ==
  LET ret == LoadCACertCrlDERFormat(data) IN Attempt(ret = 0, ret, ret = 0)

(* A plausible slip: no items at all count as a success. *)
MutantBoringsslLoadCACert(data, format) ==
  LET num == LoadCACertCrlsPEMFormat(data)
  IN  TryFormats(format, Attempt(num >= 0, num, num > 0), DerAttempt(data))

BoringsslLoadCACert(data, format) ==
  LET num == LoadCACertCrlsPEMFormat(data)
  IN  TryFormats(format, Attempt(num > 0, num, num > 0), DerAttempt(data))

(* mbedtls_x509_crt_parse takes either format, _parse_der only the second. *)
MbedtlsLoadCACert(data, format) ==
  LET crt == IF data \in {"PEM", "DER"} THEN 0 ELSE -1
  IN  TryFormats(format, Attempt(crt = 0, crt, crt = 0), DerAttempt(data))

(* picotls takes the number of items for a status. *)
PicotlsLoadCACert(data, format) ==
  LET num == LoadCACertCrlsPEMFormat(data)
  IN  TryFormats(format, Attempt(num = 0, num, num > 0), DerAttempt(data))

LoadCACert(data) ==
  CASE backend = "boringssl" -> BoringsslLoadCACert(data, "kTryAll")
    [] backend = "mbedtls"   -> MbedtlsLoadCACert(data, "kTryAll")
    [] backend = "picotls"   -> PicotlsLoadCACert(data, "kTryAll")

-----------------------------------------------------------------------------
(* The client up to the handshake. *)
io == <<sent, net, short, retry, partial, status, recv, encode, clear, out>>

Connect ==
  /\ pc = "connect"
  /\ \/ pc' = "cert" /\ UNCHANGED broken
     \/ pc' = "abort" /\ broken' = TRUE
  /\ UNCHANGED <<backend, cert, sent, arrived, got, short, retry, partial, status, recv,
                 encode, clear, out>>

LoadNextCert ==
  /\ pc = "cert" /\ tried < certs
  /\ LET load == LoadCACert("DER")
     IN  /\ stored' = IF load.stored THEN stored + 1 ELSE stored
         /\ pc' = IF load.ret < 0 THEN "abort" ELSE "cert"
  /\ tried' = tried + 1
  /\ UNCHANGED <<backend, certs, CRL_CHECK, io>>

(* LoadCrl, of a PEM text: BoringSSL's is LoadCACert, mbedtls may find an  *)
(* extension in it that it cannot read, and picotls either has no store    *)
(* yet, or takes the number of items for a failure.                        *)
LoadCrl ==
  /\ pc = "cert" /\ tried = certs
  /\ \/ /\ pc' = "handshake"
        /\ CRL_CHECK => backend # "picotls" /\ LoadCACert("PEM").ret >= 0
     \/ /\ pc' = "abort" /\ CRL_CHECK
        /\ backend # "boringssl"
  /\ UNCHANGED <<backend, cert, io>>

-----------------------------------------------------------------------------
Least(m, n) == IF m < n THEN m ELSE n

(* A plausible slip: the size asked for is returned.                       *)
MutantTransportRead(n) == [i \in 1..n |-> got + i - 1]

(* TeensyEthernetTransport.  Read returns what has arrived, at most n      *)
(* bytes, and 0 if there is nothing, also when nothing can come any more;  *)
(* here as a sequence.  Only Write fails when the connection is gone.      *)
TransportRead(n) ==
  [i \in 1..Least(n, arrived - got) |-> got + i - 1]

(* The bytes of the server's that have to be sent: it ignores what it does *)
(* not understand.                                                         *)
ServerSends ==
  CASE IsPrefix(Hello \o Finished \o Request, sent) -> (Records + 1) * RecordSize
    [] IsPrefix(Hello, sent) /\ ~IsPrefix(Hello \o Finished \o Request, sent) -> RecordSize
    [] OTHER -> 0

Arrive ==
  /\ ~broken /\ arrived < ServerSends
  /\ arrived' = arrived + 1
  /\ UNCHANGED <<backend, cert, pc, sent, got, broken, short, retry, partial, status,
                 recv, encode, clear, out>>

Break ==
  /\ ~broken /\ pc \notin {"connect", "abort"}
  /\ broken' = TRUE
  /\ UNCHANGED <<backend, cert, pc, sent, arrived, got, short, retry, partial, status,
                 recv, encode, clear, out>>

(* What the verification of the server's certificate may say: it fails     *)
(* without a certificate to verify with, and may fail with one.            *)
Verdicts == IF stored > 0 THEN BOOLEAN ELSE {FALSE}

(* A record that was assembled from the wrong bytes does not decode. *)
Decodes(bytes) ==
  /\ bytes[1] % RecordSize = 0
  /\ \A i \in DOMAIN bytes : bytes[i] = bytes[1] + i - 1

-----------------------------------------------------------------------------
(* BoringSSL and mbedTLS write by themselves, all of it or not at all.     *)
OwnIo == backend # "picotls"

(* A plausible slip: a failed write is repeated whatever the error.        *)
MutantLibraryWrite(data, from, to) ==
  /\ OwnIo /\ pc = from /\ ~broken
  /\ sent' = sent \o data /\ pc' = to
  /\ UNCHANGED <<backend, cert, net, short, retry, partial, status, recv, encode, clear, out>>

(* SSL_write and mbedtls_ssl_write, or the flights of a handshake. A stale *)
(* retry flag makes SSL_connect look as if it only wanted to be repeated.  *)
LibraryWrite(data, from, to) ==
  /\ OwnIo /\ pc = from
  /\ IF ~broken THEN sent' = sent \o data /\ pc' = to
     ELSE /\ UNCHANGED sent
          /\ pc' = IF retry /\ from # "write" THEN from ELSE "abort"
  /\ UNCHANGED <<backend, cert, net, short, retry, partial, status, recv, encode, clear, out>>

(* BioRead and MbedtlsRead, for the rest of a record.  Nothing read is an  *)
(* error to the library, which the loops of Handshake and Read take for a  *)
(* request to be called again; BioRead sets the BIO's retry flag for that, *)
(* and nothing ever takes it down.                                         *)
LibraryRead(from, to) ==
  /\ OwnIo /\ pc = from
  /\ LET bytes == TransportRead(RecordSize - Len(partial))
         whole == partial \o bytes
     IN  \/ /\ bytes = <<>>
            /\ retry' = (backend = "boringssl")
            /\ UNCHANGED <<pc, got, partial, clear>>
         \/ /\ bytes # <<>>
            /\ got' = got + Len(bytes)
            /\ IF Len(whole) < RecordSize
               THEN partial' = whole /\ UNCHANGED <<pc, clear>>
               ELSE /\ partial' = <<>> /\ pc' = to
                    /\ clear' = IF from = "read" THEN whole ELSE clear
            /\ UNCHANGED retry
  /\ UNCHANGED <<backend, cert, sent, arrived, broken, short, status, recv, encode, out>>

(* mbedTLS's Setup may fail before anything is sent. *)
MbedtlsSetupFails ==
  /\ backend = "mbedtls" /\ pc = "handshake"
  /\ pc' = "abort"
  /\ UNCHANGED <<backend, cert, io>>

(* The result of the verification is looked at when the handshake is over. *)
LibraryHandshake ==
  \/ MbedtlsSetupFails
  \/ LibraryWrite(Hello, "handshake", "shake")
  \/ LibraryRead("shake", "finish")
  \/ \E verified \in Verdicts :
       LibraryWrite(Finished, "finish", IF verified THEN "write" ELSE "abort")

(* Decoded bytes first; an empty read is not seen by the client. *)
LibraryDeliver ==
  /\ OwnIo /\ pc = "read" /\ clear # <<>>
  /\ LET n == Least(BufferSize, Len(clear))
     IN  /\ out' = out \o SubSeq(clear, 1, n)
         /\ clear' = SubSeq(clear, n + 1, Len(clear))
  /\ UNCHANGED <<backend, cert, pc, sent, net, short, retry, partial, status, recv, encode>>

LibraryReadApp == clear = <<>> /\ LibraryRead("read", "read")

-----------------------------------------------------------------------------
(* picotls only prepares data; the back end does the transport's calls.    *)

(* ptls_handshake and ptls_receive use the input up to the end of the      *)
(* first record, which they decode, and leave the rest in recv_buffer_; or *)
(* all of it.                                                              *)
Process(bytes) ==
  LET all == partial \o recv \o bytes
  IN  IF Len(all) < RecordSize
      THEN [record |-> <<>>, partial |-> all, left |-> <<>>]
      ELSE [record |-> SubSeq(all, 1, RecordSize), partial |-> <<>>,
            left |-> SubSeq(all, RecordSize + 1, Len(all))]

PicotlsPrepare ==
  /\ backend = "picotls" /\ pc = "handshake"
  /\ encode' = encode \o Hello
  /\ recv' = <<>>
  /\ pc' = "shake"
  /\ UNCHANGED <<backend, cert, sent, net, short, retry, partial, status, clear, out>>

(* The certificate is checked only if there is a store to check it with.   *)
Accepted == IF certs = 0 THEN {TRUE} ELSE Verdicts

(* An iteration: what has arrived goes to ptls_handshake.                  *)
PicotlsHandshake ==
  /\ backend = "picotls" /\ pc = "shake"
  /\ \E accepted \in Accepted :
       LET bytes == TransportRead(RecvSize - Len(recv))
           p == Process(bytes)
           done == p.record # <<>> /\ Decodes(p.record) /\ accepted
       IN  /\ got' = got + Len(bytes)
           /\ partial' = p.partial /\ recv' = p.left
           /\ status' = IF p.record = <<>> THEN "shake"
                        ELSE IF done THEN "write" ELSE "abort"
           /\ encode' = IF done THEN encode \o Finished ELSE encode
  /\ pc' = IF encode' # <<>> THEN "flush" ELSE status'
  /\ UNCHANGED <<backend, cert, sent, arrived, broken, short, retry, clear, out>>

(* A plausible slip: what was sent stays in the buffer. *)
MutantPicotlsFlush ==
  /\ backend = "picotls" /\ pc = "flush" /\ ~broken
  /\ sent' = sent \o encode
  /\ pc' = status
  /\ UNCHANGED <<backend, cert, net, short, retry, partial, status, recv, encode,
                 clear, out>>

(* What it prepared is sent whatever the status; a short write is taken    *)
(* for a whole one, and the rest is lost.                                  *)
PicotlsFlush ==
  /\ backend = "picotls" /\ pc = "flush"
  /\ \/ broken /\ pc' = "abort" /\ UNCHANGED <<sent, short, encode>>
     \/ /\ ~broken
        /\ \E taken \in {encode, SubSeq(encode, 1, Len(encode) \div 2)} :
             sent' = sent \o taken /\ short' = (short \/ taken # encode)
        /\ encode' = <<>>
        /\ pc' = status
  /\ UNCHANGED <<backend, cert, net, retry, partial, status, recv, clear, out>>

(* Here a short write is a failure, and the buffer is not cleared. *)
PicotlsWrite ==
  /\ backend = "picotls" /\ pc = "write"
  /\ encode' = encode \o Request
  /\ \/ broken /\ pc' = "abort" /\ UNCHANGED <<sent, short>>
     \/ ~broken /\ pc' = "read" /\ sent' = sent \o encode' /\ UNCHANGED short
     \/ /\ ~broken /\ pc' = "abort"
        /\ sent' = sent \o SubSeq(encode', 1, Len(encode') \div 2)
        /\ short' = TRUE
  /\ UNCHANGED <<backend, cert, net, retry, partial, status, recv, clear, out>>

PicotlsReadWith(Parse(_)) ==
  /\ backend = "picotls" /\ pc = "read"
  /\ LET bytes == TransportRead(RecvSize - Len(recv))
         p == Parse(bytes)
         read_buffer == clear \o p.record
         to_copy == Least(BufferSize, Len(read_buffer))
     IN  /\ got' = got + Len(bytes)
         /\ IF p.record # <<>> /\ ~Decodes(p.record)
            THEN pc' = "abort" /\ UNCHANGED <<partial, recv, clear, out>>
            ELSE /\ partial' = p.partial /\ recv' = p.left
                 /\ out' = out \o SubSeq(read_buffer, 1, to_copy)
                 /\ clear' = SubSeq(read_buffer, to_copy + 1, Len(read_buffer))
                 /\ UNCHANGED pc
  /\ UNCHANGED <<backend, cert, sent, arrived, broken, short, retry, status, encode>>

(* Plausible slips: what the library left in recv_buffer_ is dropped, or   *)
(* looked at only when the transport has something new.                    *)
MutantPicotlsReadDrops ==
  PicotlsReadWith(LAMBDA bytes : [Process(bytes) EXCEPT !.left = <<>>])
MutantPicotlsReadWaits ==
  PicotlsReadWith(LAMBDA bytes :
    IF bytes = <<>> THEN [record |-> <<>>, partial |-> partial, left |-> recv]
    ELSE Process(bytes))

(* Read polls the transport, lets the library work on what is in the       *)
(* buffer, new or left, and gives out as much as the caller has room for.  *)
PicotlsRead == PicotlsReadWith(Process)

-----------------------------------------------------------------------------
Client ==
  \/ Connect \/ LoadNextCert \/ LoadCrl
  \/ LibraryHandshake
  \/ LibraryWrite(Request, "write", "read")
  \/ LibraryDeliver \/ LibraryReadApp
  \/ PicotlsPrepare \/ PicotlsHandshake \/ PicotlsFlush \/ PicotlsWrite \/ PicotlsRead

Next == Client \/ Arrive \/ Break

(* The client runs on, and what was sent arrives. *)
Spec == Init /\ [][Next]_vars /\ WF_vars(Client) /\ WF_vars(Arrive)

-----------------------------------------------------------------------------
Response == [i \in 1..(Records * RecordSize) |-> RecordSize + i - 1]

(* The variables keep their types and the buffers their sizes. *)
TypeOK ==
  /\ pc \in {"connect", "cert", "handshake", "shake", "flush", "finish", "write", "read",
             "abort"}
  /\ stored <= tried /\ tried <= certs
  /\ got <= arrived /\ arrived <= (Records + 1) * RecordSize
  /\ Len(recv) <= RecvSize /\ Len(partial) < RecordSize
  /\ Len(clear) <= Records * RecordSize

(* Every certificate that LoadCACert took is in the trust store, so the     *)
(* handshake has what it verifies with; picotls' LoadCACert succeeds and    *)
(* stores nothing, see the README.                                          *)
CertificatesStored ==
  pc # "abort" /\ backend # "picotls" => stored = tried

(* The server is sent the greeting, the end of the handshake and the        *)
(* request, in this order and once, unless the transport took only a part.  *)
SpeaksInTurn == short \/ IsPrefix(sent, Hello \o Finished \o Request)

(* What Read gives out, in pieces of any size, is the beginning of what the *)
(* server sent: nothing is lost, repeated or swapped between the transport, *)
(* the two receive buffers and the caller's.                                *)
ReadsInOrder == IsPrefix(out, Response)

(* What client and server tell each other, up to now.                       *)
DialogueInv == TypeOK /\ CertificatesStored /\ SpeaksInTurn /\ ReadsInOrder

(* The loops without an end that a broken connection leaves the client in:  *)
(* every record that has arrived is given out and nothing is left to say,   *)
(* and Read of the transport returns 0 for ever; or BoringSSL's handshake   *)
(* has a flight left that it cannot send, and its stale retry flag asks for *)
(* it to be called again.                                                   *)
PollsInVain ==
  \/ /\ pc \in {"shake", "read"} /\ (pc = "shake" => encode = <<>>)
     /\ got = arrived /\ clear = <<>> /\ Len(partial \o recv) < RecordSize
  \/ pc = "finish" /\ retry

(* When the connection is gone, everything that had arrived is still given  *)
(* out; then a failing write stops the client, or it polls in vain.         *)
BreakSettles == broken ~> [](pc = "abort" \/ PollsInVain)

(* backend_interface.h says of Handshake that it returns a negative value   *)
(* on failure, for which the client stops: also one that cannot send its    *)
(* last flight.                                                             *)
HandshakeFails == broken /\ pc = "finish" ~> pc = "abort"

(* As long as nothing fails the whole response is given out: no byte waits  *)
(* in a buffer for another to arrive.                                       *)
ResponseArrives == <>(out = Response \/ pc = "abort" \/ broken \/ short)
=============================================================================
