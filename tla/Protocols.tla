------------------------------ MODULE Protocols ------------------------------
(***************************************************************************)
(* The protocol handshakes of internal/probe, as the conversations with a  *)
(* server that end in its recognition.  A conversation is what both sides  *)
(* have agreed on, TLS or not, and the turns that the probe takes.  Of the *)
(* bytes only lengths count: a server that says something else than what a *)
(* turn expects makes the probe fail there.                                *)
(***************************************************************************)
EXTENDS DnsName

CONSTANTS
  IdentLines,  \* 50: the lines in which an SSH server may identify itself
  ReplyLines   \* 100: the further lines of an FTP response

ASSUME LinesAssumption == IdentLines \in Nat \ {0} /\ ReplyLines \in Nat

(* Turns.  A turn goes through the clear connection, through the TLS       *)
(* connection, or reads from a message that was read before ("memory").    *)

Write(via) == [op |-> "write", via |-> via]

(* tlsClient and HandshakeContext, on the connection itself *)
Secure == [op |-> "tls", via |-> "clear"]

(* reader.Buffered() == 0 *)
NothingBuffered == [op |-> "alone", via |-> "memory"]

(* At most so many calls of readLine. *)
Lines(via, most) == [op |-> "lines", via |-> via, most |-> most]

(* http.ReadResponse, or the body of the response up to a limit *)
Response(via) == [op |-> "response", via |-> via]

(* io.ReadFull of size bytes *)
Fixed(via, size) == [op |-> "fixed", via |-> via, size |-> size]

(* A header with a length field that holds values up to top; the length    *)
(* must be from low to high.                                               *)
Field(via, top, low, high) ==
  [op |-> "field", via |-> via, top |-> top, low |-> low, high |-> high]

(* A buffer of the declared length, without the less bytes that were read  *)
(* or counted before.  It must be of need bytes at least; of a buffer with *)
(* look[1] bytes the first look[2] are looked at.                          *)
Rest(via, less, need, looks) ==
  [op |-> "rest", via |-> via, less |-> less, need |-> need, looks |-> looks]

(* validateDNSResourceRecords *)
Records == [op |-> "records", via |-> "memory"]

(* What length fields can hold; more than what TLC counts is not told      *)
(* apart, no limit is near.                                                *)
Bits16 == 65535
Bits17 == 131071
Bits24 == 16777215
Bits32 == 2147483647
KB64   == 65536
MB     == 1048576

Clear(turns)   == {[tls |-> FALSE, turns |-> turns]}
Secured(turns) == {[tls |-> TRUE, turns |-> <<Secure>> \o turns]}

-----------------------------------------------------------------------------
(* Protocols of lines. *)

Ssh == Clear(<<Lines("clear", IdentLines)>>)

FtpResponse(via) == Lines(via, 1 + ReplyLines)
Ftp              == Clear(<<FtpResponse("clear")>>)
FtpsImplicit     == Secured(<<FtpResponse("tls")>>)
FtpsExplicit     ==
  {[tls |-> TRUE, turns |-> <<FtpResponse("clear"), Write("clear"),
                              FtpResponse("clear"), Secure>>]}

Nats      == Clear(<<Lines("clear", 1)>>)
Memcached == Clear(<<Write("clear"), Lines("clear", 1)>>)
Redis     == Clear(<<Write("clear"), Lines("clear", 1)>>)

(* Protocols over HTTP. *)

ProbeHTTP(via)  == <<Write(via), Response(via)>>
Http            == Clear(ProbeHTTP("clear"))
Https           == Secured(ProbeHTTP("tls"))
ProbeWinRM(via) == <<Write(via), Response(via), Response(via)>>
Winrm           == Clear(ProbeWinRM("clear"))
WinrmHttps      == Secured(ProbeWinRM("tls"))
Elasticsearch   == Clear(<<Write("clear"), Response("clear"), Response("clear")>>)
Etcd            == Clear(<<Write("clear"), Response("clear"), Response("clear")>>)

(* Protocols of which a message of fixed size is read. *)

Mqtt   == Clear(<<Write("clear"), Fixed("clear", 4)>>)
Socks4 == Clear(<<Write("clear"), Fixed("clear", 8)>>)
Socks5 == Clear(<<Write("clear"), Fixed("clear", 2)>>)

(* Protocols of which the rest of the message is not read, or only its     *)
(* beginning.                                                              *)

Cassandra == Clear(<<Write("clear"), Field("clear", Bits32, 0, 256 * MB)>>)
Mongodb   == Clear(<<Write("clear"), Field("clear", Bits32, 16, 16 * MB)>>)
Mssql     == Clear(<<Write("clear"), Field("clear", Bits16, 8, Bits16)>>)
Msrpc     == Clear(<<Write("clear"), Field("clear", Bits16, 16, Bits16)>>)
Kafka     == Clear(<<Write("clear"), Field("clear", Bits32, 6, 16 * MB),
                     Fixed("clear", 6)>>)
Rabbitmq  == Clear(<<Write("clear"), Field("clear", Bits32, 4, MB),
                     Fixed("clear", 4)>>)

(* Positive, negative and retarget response. *)
Netbios ==
  Clear(<<Write("clear"), Field("clear", Bits17, 0, 0)>>)
  \cup Clear(<<Write("clear"), Field("clear", Bits17, 1, 1), Fixed("clear", 1)>>)
  \cup Clear(<<Write("clear"), Field("clear", Bits17, 0, KB64)>>)

(* Protocols of which a message of the declared length is read. *)

(* Mutant of Kerberos: an empty message is let through. *)
KerberosEmpty ==
  Clear(<<Write("clear"), Field("clear", Bits32, 0, MB),
          Rest("clear", 0, 0, {<<0, 1>>})>>)

Kerberos ==
  Clear(<<Write("clear"), Field("clear", Bits32, 2, MB),
          Rest("clear", 0, 0, {<<0, 1>>})>>)

(* The tag, and the number of an error if there is one. *)
Mysql ==
  Clear(<<Field("clear", Bits24, 1, MB),
          Rest("clear", 0, 0, {<<0, 1>>, <<3, 3>>})>>)

(* TPKT counts its header; the negotiation is looked at if there is one.   *)
Rdp ==
  Clear(<<Write("clear"), Field("clear", Bits16, 11, 8192),
          Rest("clear", 4, 7, {<<0, 2>>, <<15, 15>>})>>)

(* With another status than 0 the header is all that is read.              *)
Smb ==
  LET header == <<Write("clear"), Field("clear", Bits24, 64, MB),
                  Fixed("clear", 64)>>
      dialect == Rest("clear", 64, 129 - 64, {<<0, 6>>})
  IN  Clear(header) \cup Clear(Append(header, dialect))

Dns ==
  Clear(<<Write("clear"), Field("clear", Bits16, QuestionEnd, Bits16),
          Rest("clear", 0, 0, {<<0, QuestionEnd>>}), Records>>)

(* readBERElement, and the look at the one byte that two elements have *)
Element(via, limit) ==
  <<Field(via, Bits32, 0, limit), Rest(via, 0, 0, {})>>
OneByte(via) ==
  <<Field(via, Bits32, 1, 1), Rest(via, 0, 1, {<<0, 1>>})>>

(* The message, its id, the response in it and the result code of that. *)
ProbeLDAP(via) ==
  <<Write(via)>> \o Element(via, MB) \o OneByte("memory")
  \o Element("memory", MB) \o OneByte("memory")
Ldap  == Clear(ProbeLDAP("clear"))
Ldaps == Secured(ProbeLDAP("tls"))

(* Authentication request, error and negotiation of the protocol version:  *)
(* the startup response has one of these, of 4, 2 or 8 bytes at least.     *)
Startup(via, need) ==
  <<Write(via), Field(via, Bits32, 4, MB), Rest(via, 4, need, {<<0, need>>})>>

Postgresql ==
  LET begin == <<Write("clear"), Fixed("clear", 1), NothingBuffered>>
  IN  {[tls |-> TRUE, turns |-> begin \o <<Secure>> \o Startup("tls", need)] :
         need \in {2, 4, 8}}
      \cup UNION {Clear(begin \o Startup("clear", need)) : need \in {2, 4, 8}}

-----------------------------------------------------------------------------

(* newProtocol; the alias socks has no handshake of its own. *)
Conversations ==
  [ssh |-> Ssh, ftp |-> Ftp, ftps_explicit |-> FtpsExplicit,
   ftps_implicit |-> FtpsImplicit, http |-> Http, https |-> Https, dns |-> Dns,
   postgresql |-> Postgresql, mysql |-> Mysql, mongodb |-> Mongodb,
   mssql |-> Mssql, cassandra |-> Cassandra, elasticsearch |-> Elasticsearch,
   rabbitmq |-> Rabbitmq, kafka |-> Kafka, nats |-> Nats, mqtt |-> Mqtt,
   redis |-> Redis, memcached |-> Memcached, etcd |-> Etcd, rdp |-> Rdp,
   smb |-> Smb, netbios |-> Netbios, msrpc |-> Msrpc, kerberos |-> Kerberos,
   ldap |-> Ldap, ldaps |-> Ldaps, winrm |-> Winrm, winrm_https |-> WinrmHttps,
   socks4 |-> Socks4, socks5 |-> Socks5]

Names == DOMAIN Conversations
=============================================================================
