-------------------------------- MODULE Stun --------------------------------
(***************************************************************************)
(* STUN: the message format, the transaction with its retransmissions, and *)
(* the probe that asks one server after the other for the address we are   *)
(* seen under.  An address is a family and a number; XOR with a key is     *)
(* addition modulo Numbers.  A buffer is a function from the offsets where *)
(* something was written to what was written there.                        *)
(***************************************************************************)
EXTENDS Naturals, Sequences, FiniteSets, SequencesExt

CONSTANTS
    Servers,            \* how many servers are asked, in order
    Numbers,            \* how many addresses there are of a family
    MaxRetransmissions, \* config_.max_retransmissions
    Rto, TotalTimeout,  \* config_.rto_ms and the timeout of the request
    RtoCap,             \* the cap on the doubled timeout
    MaxNat              \* bound: changes of the address we are seen under

VARIABLE stun

Families == {"v4", "v6"}
Addresses == [family : Families, number : 0..(Numbers - 1)]

-----------------------------------------------------------------------------
(* Attributes.  A value is padded to four bytes; its length is not.        *)

HeaderSize == 20
padded_length(n) == ((n + 3) \div 4) * 4
Attr(type, size, value) == [type |-> type, size |-> size, value |-> value]
Message(class, tid) == [class |-> class, tid |-> tid, attrs |-> <<>>]
add_attribute(msg, attr) == [msg EXCEPT !.attrs = Append(@, attr)]
add_software(msg) == add_attribute(msg, Attr("Software", 7, "librats"))
add_error_code(msg, code) == add_attribute(msg, Attr("ErrorCode", 4 + 5, [class |-> code \div 100, number |-> code % 100]))

(* find_attribute: the first of that type.                                 *)
find_attribute(msg, type) == SelectInSeq(msg.attrs, LAMBDA a : a.type = type)

(* The key: the cookie for IPv4, cookie and transaction id for IPv6.       *)
Cookie == 1
Key(family, tid) == IF family = "v4" THEN Cookie ELSE Cookie + tid
Xor(n, k) == (n + k) % Numbers
UnXor(n, k) == (n + Numbers * (k + 1) - k) % Numbers
SizeOf(family) == IF family = "v4" THEN 8 ELSE 20

add_xor_mapped_address(msg, a) ==
    add_attribute(msg, Attr("XorMappedAddress", SizeOf(a.family), [a EXCEPT !.number = Xor(@, Key(a.family, msg.tid))]))
add_mapped_address(msg, a) == add_attribute(msg, Attr("MappedAddress", SizeOf(a.family), a))

(* An optional is the set of its value.                                    *)
get_xor_mapped_address(msg) ==
    LET i == find_attribute(msg, "XorMappedAddress")
    IN IF i = 0 \/ msg.attrs[i].size < SizeOf(msg.attrs[i].value.family) THEN {}
       ELSE {[msg.attrs[i].value EXCEPT !.number = UnXor(@, Key(msg.attrs[i].value.family, msg.tid))]}

(* The legacy attribute: an IPv6 address is not read, only its family.     *)
NoAddress == [family |-> "v6", number |-> Numbers]
get_mapped_address(msg) ==
    LET i == find_attribute(msg, "MappedAddress")
    IN IF i = 0 \/ msg.attrs[i].size < SizeOf("v4") THEN {}
       ELSE {IF msg.attrs[i].value.family = "v4" THEN msg.attrs[i].value ELSE NoAddress}

get_error(msg) ==
    LET i == find_attribute(msg, "ErrorCode")
    IN IF i = 0 \/ msg.attrs[i].size < 4 THEN {} ELSE {msg.attrs[i].value.class * 100 + msg.attrs[i].value.number}

-----------------------------------------------------------------------------
(* The wire format.                                                        *)

RECURSIVE Offsets(_, _)
Offsets(attrs, from) ==
    IF attrs = <<>> THEN <<>>
    ELSE <<from>> \o Offsets(Tail(attrs), from + 4 + padded_length(Head(attrs).size))

serialize(msg) ==
    LET at == Offsets(msg.attrs, HeaderSize)
        length == FoldSeq(LAMBDA a, sum : sum + 4 + padded_length(a.size), 0, msg.attrs)
    IN [class |-> msg.class, tid |-> msg.tid, length |-> length, size |-> HeaderSize + length, cookie |-> TRUE,
        bytes |-> [o \in {at[i] : i \in DOMAIN at} |-> msg.attrs[CHOOSE i \in DOMAIN at : at[i] = o]]]

(* The digests stand for themselves: a function of the key and the bytes.  *)
stun_hmac_sha1(key, buf) == <<"hmac", key, buf.length>>
stun_crc32(buf) == <<"crc", buf.length>>

(* MESSAGE-INTEGRITY over the message with its own length counted in, then *)
(* FINGERPRINT likewise.                                                   *)
Longer(buf, by) == [buf EXCEPT !.length = @ + by]
Put(buf, attr) ==
    [buf EXCEPT !.bytes = [o \in DOMAIN @ \cup {buf.size} |-> IF o = buf.size THEN attr ELSE @[o]],
                !.size = @ + 4 + padded_length(attr.size)]
serialize_with_integrity(msg, key) ==
    LET counted == Longer(serialize(msg), 24)
        signed == Longer(Put(counted, Attr("MessageIntegrity", 20, stun_hmac_sha1(key, counted))), 8)
    IN Put(signed, Attr("Fingerprint", 4, stun_crc32(signed)))

(* A datagram cut short on the way.                                        *)
Cut(buf, size) == [buf EXCEPT !.size = size]

(* Bytes where no attribute starts read as one that nobody asks for.       *)
ReadAt(buf, o) == IF o \in DOMAIN buf.bytes THEN buf.bytes[o] ELSE Attr("garbage", 0, "")

is_stun_message(buf) == buf.size >= HeaderSize /\ buf.cookie

(* Mutant: the padding is not skipped.                                     *)
RECURSIVE ReadUnpadded(_, _)
ReadUnpadded(buf, o) ==
    IF o + 4 > HeaderSize + buf.length THEN <<>>
    ELSE LET a == ReadAt(buf, o) IN
         IF o + 4 + a.size > buf.size THEN <<>> ELSE <<a>> \o ReadUnpadded(buf, o + 4 + a.size)

RECURSIVE ReadAttributes(_, _)
ReadAttributes(buf, o) ==
    IF o + 4 > HeaderSize + buf.length THEN <<>>
    ELSE LET a == ReadAt(buf, o) IN
         IF o + 4 + a.size > buf.size THEN <<>> ELSE <<a>> \o ReadAttributes(buf, o + 4 + padded_length(a.size))

deserialize(buf) ==
    IF ~is_stun_message(buf) \/ buf.size < HeaderSize + buf.length THEN {}
    ELSE {[class |-> buf.class, tid |-> buf.tid, attrs |-> ReadAttributes(buf, HeaderSize)]}

-----------------------------------------------------------------------------
(* The probe asks server after server through binding_request, which makes *)
(* a socket for the request and closes it; an application asks through a   *)
(* socket of its own (`shared`, binding_request_with_socket), where what   *)
(* comes late waits for the next request.  stun.seen are the addresses we  *)
(* were seen under since the request began.                                *)

StunInit ==
    \E a \in Addresses, shared \in BOOLEAN :
      stun = [shared |-> shared, running |-> TRUE, pc |-> "next", server |-> 0, tid |-> 0, attempt |-> 0, rto |-> 0, total |-> 0,
              asked |-> {}, answers |-> {}, now |-> a, seen |-> {}, result |-> {}, told |-> {}, nat |-> 0]

Next1(s) == [s EXCEPT !.pc = "next", !.attempt = 0, !.rto = 0, !.total = 0]

(* The next server, with a new transaction id, unless the node has stopped.*)
binding_request(s) == IF s.shared THEN s ELSE [s EXCEPT !.asked = {}, !.answers = {}]
ProbeNext ==
    /\ stun.pc = "next" /\ stun.result = {} /\ stun.server < Servers /\ stun.running
    /\ stun' = [binding_request(stun) EXCEPT !.pc = "send", !.server = @ + 1, !.tid = stun.server + 1, !.rto = Rto, !.seen = {stun.now}]

(* The node stops; a request under way goes on.                            *)
NodeStops ==
    /\ stun.running
    /\ stun' = [stun EXCEPT !.running = FALSE]

Exhausted(s) == s.attempt > MaxRetransmissions \/ s.total >= TotalTimeout
Again(s) == IF Exhausted(s) THEN Next1(s) ELSE [s EXCEPT !.pc = "send"]

Min2(a, b) == IF a <= b THEN a ELSE b
Wait(s) == Min2(s.rto, TotalTimeout - s.total)

(* A send; when it fails the server is given up.                           *)
SendRequest ==
    /\ stun.pc = "send"
    /\ \/ stun' = [stun EXCEPT !.pc = "wait", !.asked = @ \cup {stun.tid}]
       \/ stun' = Next1(stun)

(* Each turn costs its whole wait, also one that a stray datagram ended.   *)
Turn(s) == Again([s EXCEPT !.attempt = @ + 1, !.total = @ + Wait(s), !.rto = Min2(2 * s.rto, RtoCap)])

TimesOut ==
    /\ stun.pc = "wait"
    /\ stun' = Turn(stun)

(* binding_request_with_socket: what a response says.                      *)
Understood(msg) ==
    IF msg.class = "error" THEN {}
    ELSE IF get_xor_mapped_address(msg) # {} THEN get_xor_mapped_address(msg) ELSE get_mapped_address(msg)

(* The caller takes an address it can parse.                               *)
Usable(found) == {a \in found : a # NoAddress}

(* Mutant: any response is taken for the answer.                           *)
MatchesAny(s, msgs) == msgs

Matches(s, msgs) == {m \in msgs : m.tid = s.tid}

(* A datagram arrives, of this request or of an earlier one.               *)
Receive ==
    /\ stun.pc = "wait"
    /\ \E answer \in stun.answers :
          LET mine == Matches(stun, deserialize(answer.buf)) IN
          stun' = IF mine = {} THEN Turn([stun EXCEPT !.answers = {}])
                  ELSE [Next1(stun) EXCEPT !.answers = {}, !.told = IF answer.buf.tid = stun.tid THEN answer.says ELSE {},
                                           !.result = UNION {Usable(Understood(m)) : m \in mine}]

(* A server answers a request, late perhaps: with the address we are seen  *)
(* under, in the new or the old form, with an error, or in a datagram that *)
(* is cut short; or a datagram is none of STUN at all.  An answer is kept  *)
(* with the address a reader finds in it.                                  *)
Answer(buf, says) == [buf |-> buf, says |-> says]
Replies(tid) ==
    LET plain == Message("success", tid)
        new == add_xor_mapped_address(add_software(plain), stun.now)
        old == add_mapped_address(add_software(plain), stun.now)
        forms == {<<new, {stun.now}>>, <<old, IF stun.now.family = "v4" THEN {stun.now} ELSE {}>>}
    IN {Answer(serialize(f[1]), f[2]) : f \in forms}
       \cup {Answer(serialize_with_integrity(f[1], "key"), f[2]) : f \in forms}
       \cup {Answer(Cut(serialize(f[1]), HeaderSize + 4), {}) : f \in forms}
       \cup {Answer([serialize(new) EXCEPT !.cookie = FALSE], {})}
       \cup {Answer(serialize(add_error_code(Message("error", tid), 420)), {})}

ServerAnswers ==
    \E tid \in stun.asked :
       /\ stun.answers = {}
       /\ \E answer \in Replies(tid) : stun' = [stun EXCEPT !.answers = {answer}, !.asked = @ \ {tid}]

(* The router gives us another address.                                    *)
NatChanges ==
    /\ stun.nat < MaxNat
    /\ \E a \in Addresses :
          stun' = [stun EXCEPT !.now = a, !.seen = @ \cup {a}, !.nat = @ + 1]

StunNext == ProbeNext \/ NodeStops \/ SendRequest \/ TimesOut \/ Receive \/ ServerAnswers \/ NatChanges

-----------------------------------------------------------------------------
(* What the probe reports is an address we were really seen under while    *)
(* that request was out, in spite of late answers to earlier ones, and an  *)
(* address the server told is found among the attributes.                  *)
ReflexiveIsOurs == stun.told \subseteq stun.result /\ stun.result \subseteq stun.seen

=============================================================================
