-------------------------------- MODULE Mdns --------------------------------
(***************************************************************************)
(* Discovery on the local network: the DNS messages MdnsClient sends and   *)
(* reads, its announcer, querier and receiver, and MdnsDiscovery, which    *)
(* dials what is found.  A packet is a sequence of numbers; one number     *)
(* stands for a label, a type, a count, an address or a port, and numbers  *)
(* from 192 on are compression pointers.  Packets are multicast; a copy    *)
(* may be lost on the way to a node, come late, or come out of order.      *)
(***************************************************************************)
EXTENDS Naturals, Sequences, FiniteSets, SequencesExt

CONSTANTS
    Nodes,          \* 1..n
    Foreign,        \* <<node, k>>: the node's k-th start is of another implementation
    HostOf(_),      \* the address of a node
    MaxStarts       \* bound: starts of a node; the k-th listens on port k

VARIABLES lan, air

mdnsVars == <<lan, air>>

-----------------------------------------------------------------------------
(* Names: labels, and whether the text ends with a dot.                    *)

Label(n) == 20 + n                      \* the instance label of a node
HostLabel(n) == 40 + n                  \* its host name
Name(labels, dot) == [labels |-> labels, dot |-> dot]
ServiceType == Name(<<2, 3, 4>>, TRUE)  \* "_librats._tcp.local."
create_service_instance_name(n) == Name(<<Label(n)>> \o ServiceType.labels, TRUE)
Hostname(n) == Name(<<HostLabel(n), 4>>, TRUE)

(* is_librats_service: dots at the end do not count.                       *)
is_librats_service(name) == name.labels = ServiceType.labels

write_dns_name(name) == name.labels \o <<0>>

(* read_dns_name: the labels up to the root, following pointers, at most   *)
(* ten of them; the result and the offset after the name as it stands.     *)
MaxJumps == 10
RECURSIVE LabelsAt(_, _, _)
LabelsAt(buf, o, jumps) ==
    IF o > Len(buf) \/ jumps = MaxJumps THEN <<>>
    ELSE IF buf[o] = 0 THEN <<>>
    ELSE IF buf[o] >= 192 THEN (IF buf[o] - 192 > Len(buf) THEN <<>> ELSE LabelsAt(buf, buf[o] - 192, jumps + 1))
    ELSE IF buf[o] > 63 THEN <<>>
    ELSE <<buf[o]>> \o LabelsAt(buf, o + 1, jumps)

RECURSIVE AfterName(_, _)
AfterName(buf, o) ==
    IF o > Len(buf) THEN o
    ELSE IF buf[o] = 0 \/ buf[o] >= 64 THEN o + 1
    ELSE AfterName(buf, o + 1)

read_dns_name(buf, o) == Name(LabelsAt(buf, o, 0), FALSE)

-----------------------------------------------------------------------------
(* Messages.                                                               *)

TypeA == 1
PTR == 12
TXT == 16
SRV == 33
QUERY == 0
AUTHORITATIVE == 132

Record(name, type, data) == write_dns_name(name) \o <<type, Len(data)>> \o data
create_ptr_record(n) == Record(ServiceType, PTR, write_dns_name(create_service_instance_name(n)))
encode_srv_record(port, target) == <<0, 0, port>> \o write_dns_name(target)
create_srv_record(n, port) == Record(create_service_instance_name(n), SRV, encode_srv_record(port, Hostname(n)))

(* encode_txt_record: the entries with their lengths, a key alone or with  *)
(* "=" and a value; none is a zero.                                        *)
Equals == 99
Entry(e) == IF Len(e) = 1 THEN e ELSE <<e[1], Equals, e[2]>>
encode_txt_record(txt) == IF txt = <<>> THEN <<0>> ELSE FlattenSeq([i \in DOMAIN txt |-> <<Len(Entry(txt[i]))>> \o Entry(txt[i])])
create_txt_record(n) == Record(create_service_instance_name(n), TXT, encode_txt_record(<<>>))

RECURSIVE decode_txt_record(_)
decode_txt_record(data) ==
    IF data = <<>> \/ data[1] = 0 \/ 1 + data[1] > Len(data) THEN <<>>
    ELSE <<IF data[1] = 1 THEN <<data[2]>> ELSE <<data[2], data[4]>>>> \o decode_txt_record(SubSeq(data, 2 + data[1], Len(data)))

create_a_record(n) == Record(Hostname(n), TypeA, <<HostOf(n)>>)

(* The header holds the flags and three of the counts.                     *)
serialize_dns_message(flags, questions, answers, additionals) ==
    <<flags, Len(questions), Len(answers), Len(additionals)>>
    \o FlattenSeq(questions) \o FlattenSeq(answers) \o FlattenSeq(additionals)

create_query_message == serialize_dns_message(QUERY, <<write_dns_name(ServiceType) \o <<PTR>>>>, <<>>, <<>>)
create_announcement_message(n, port) ==
    serialize_dns_message(AUTHORITATIVE, <<>>, <<create_ptr_record(n), create_srv_record(n, port), create_txt_record(n)>>, <<create_a_record(n)>>)

(* Another implementation compresses: the type stands once, at offset 5,   *)
(* the instance at 11 and the host name at 19; the rest points there.      *)
ForeignTxt == <<<<71>>, <<72, 73>>>>
ForeignAnnouncement(n, port) ==
    <<AUTHORITATIVE, 0, 3, 1>>
    \o write_dns_name(ServiceType) \o <<PTR, 2>> \o <<Label(n), 192 + 5>>
    \o <<192 + 11, SRV, 6>> \o <<0, 0, port>> \o write_dns_name(Hostname(n))
    \o <<192 + 11, TXT, 6>> \o encode_txt_record(ForeignTxt)
    \o <<192 + 19, TypeA, 1, HostOf(n)>>

Announcement(n, port) == IF <<n, port>> \in Foreign THEN ForeignAnnouncement(n, port) ELSE create_announcement_message(n, port)

(* Mutant: the data of a record is read from the record alone.             *)
DataOffsetAtRecord(buf, o) == o

(* A record's data is remembered by its place in the packet.               *)
DataOffset(buf, o) == AfterName(buf, o) + 2

(* read_resource_records: the records and the offset behind them; a length *)
(* beyond the packet fails.                                                *)
RECURSIVE ReadRecords(_, _, _)
ReadRecords(buf, o, count) ==
    IF count = 0 THEN [ok |-> TRUE, records |-> <<>>, next |-> o]
    ELSE LET t == AfterName(buf, o) IN
         IF t + 1 > Len(buf) \/ t + 1 + buf[t + 1] > Len(buf) THEN [ok |-> FALSE, records |-> <<>>, next |-> o]
         ELSE LET rest == ReadRecords(buf, t + 2 + buf[t + 1], count - 1)
              IN [rest EXCEPT !.records = <<[name |-> read_dns_name(buf, o), type |-> buf[t], at |-> DataOffset(buf, o), size |-> buf[t + 1]]>> \o @]

RECURSIVE ReadQuestions(_, _, _)
ReadQuestions(buf, o, count) ==
    IF count = 0 THEN [questions |-> <<>>, next |-> o]
    ELSE LET t == AfterName(buf, o)
             rest == ReadQuestions(buf, t + 1, count - 1)
         IN [rest EXCEPT !.questions = <<[name |-> read_dns_name(buf, o), type |-> buf[t]]>> \o @]

deserialize_dns_message(buf) ==
    LET qs == ReadQuestions(buf, 5, buf[2])
        answers == ReadRecords(buf, qs.next, buf[3])
        additionals == ReadRecords(buf, answers.next, buf[4])
    IN [ok |-> answers.ok /\ additionals.ok, flags |-> buf[1], questions |-> qs.questions,
        answers |-> answers.records, additionals |-> additionals.records]

decode_srv_record(buf, at) == [port |-> buf[at + 2], target |-> read_dns_name(buf, at + 3)]

(* extract_service_from_response: instance, port and host from the answers,*)
(* the address from the sender unless an A record of that host says other. *)
(* The last record of a kind counts.                                       *)
OfType(records, type) == SelectSeq(records, LAMBDA r : r.type = type)
extract_service_from_response(buf, msg, sender) ==
    LET ptrs == SelectSeq(OfType(msg.answers, PTR), LAMBDA r : is_librats_service(r.name))
        srvs == OfType(msg.answers, SRV)
        txts == OfType(msg.answers, TXT)
    IN IF ptrs = <<>> \/ srvs = <<>> THEN {}
       ELSE LET srv == Last(srvs)
                host == decode_srv_record(buf, srv.at).target
                as == SelectSeq(OfType(msg.additionals, TypeA), LAMBDA r : r.name = host)
                service == [name |-> read_dns_name(buf, Last(ptrs).at), port |-> decode_srv_record(buf, srv.at).port,
                            txt |-> IF txts = <<>> THEN <<>> ELSE decode_txt_record(SubSeq(buf, Last(txts).at, Last(txts).at + Last(txts).size - 1)),
                            ip |-> IF as = <<>> THEN sender ELSE buf[Last(as).at]]
            IN IF service.name.labels = <<>> \/ service.port = 0 THEN {} ELSE {service}

-----------------------------------------------------------------------------
(* What a receiver makes of every packet that can be sent: the packet of a *)
(* node is its query (0) or the announcement of its k-th start.            *)

Bytes(n, k) == IF k = 0 THEN create_query_message ELSE Announcement(n, k)

handle_received_packet(n, k) ==
    LET buf == Bytes(n, k)
        msg == deserialize_dns_message(buf)
    IN [ok |-> msg.ok, is_response |-> msg.ok /\ msg.flags # QUERY, questions |-> msg.questions,
        found |-> IF msg.ok /\ msg.flags # QUERY THEN extract_service_from_response(buf, msg, HostOf(n)) ELSE {}]
Received == [p \in Nodes \X (0..MaxStarts) |-> handle_received_packet(p[1], p[2])]

-----------------------------------------------------------------------------
(* The nodes.                                                              *)

Off == [running |-> FALSE, announcing |-> FALSE, discovering |-> FALSE, joined |-> FALSE,
        port |-> 0, services |-> {}, dialed |-> {}, replying |-> FALSE]
MdnsInit == lan = [n \in Nodes |-> Off] /\ air = {}

(* send_multicast_packet: to every other member of the group, but copies   *)
(* are lost.                                                               *)
Members == {n \in Nodes : lan[n].joined}
send_multicast_packet(n, k) ==
    \E reached \in SUBSET (Members \ {n}) : air' = air \cup {[to |-> m, from |-> n, k |-> k] : m \in reached}

create_multicast_socket(me) == [Off EXCEPT !.port = me.port + 1, !.dialed = me.dialed]
join_multicast_group(me) == [me EXCEPT !.joined = TRUE]
close_multicast_socket(me) == [me EXCEPT !.joined = FALSE]

(* start(): the receiver runs, then the announcer and the querier, which   *)
(* send as they start.  A start that fails leaves everything as it was.    *)
Change(n, me) == lan' = [lan EXCEPT ![n] = me]
MdnsStart(n) ==
    /\ ~lan[n].running /\ lan[n].port < MaxStarts
    /\ Change(n, [join_multicast_group(create_multicast_socket(lan[n])) EXCEPT !.running = TRUE])
    /\ UNCHANGED air

announce_service(n) ==
    /\ lan[n].running /\ ~lan[n].announcing /\ ~lan[n].discovering
    /\ Change(n, [lan[n] EXCEPT !.announcing = TRUE])
    /\ send_multicast_packet(n, lan[n].port)

start_discovery(n) ==
    /\ lan[n].announcing /\ ~lan[n].discovering
    /\ Change(n, [lan[n] EXCEPT !.discovering = TRUE])
    /\ send_multicast_packet(n, 0)

(* stop(): the querier, the announcer, then the receiver end; what was     *)
(* found is forgotten, what was dialed is not.                             *)
stop_discovery(me) == [me EXCEPT !.discovering = FALSE]
stop_announcing(me) == [me EXCEPT !.announcing = FALSE]
shutdown_immediate(me) == [stop_announcing(stop_discovery(me)) EXCEPT !.running = FALSE]
MdnsStop(n) ==
    /\ lan[n].discovering /\ lan[n].port < MaxStarts
    /\ Change(n, [close_multicast_socket(shutdown_immediate(lan[n])) EXCEPT !.services = {}, !.replying = FALSE])
    /\ air' = {p \in air : p.to # n}

announcer_loop(n) ==
    /\ lan[n].announcing
    /\ send_multicast_packet(n, lan[n].port)
    /\ UNCHANGED lan

(* The querier asks, and drops what was not heard for ten minutes: only    *)
(* what is gone, announcements come every minute.                          *)
Gone(s) == \E n \in Nodes : s.name.labels[1] = Label(n) /\ ~lan[n].announcing
clear_old_services(me) == [me EXCEPT !.services = {s \in @ : ~Gone(s)}]
querier_loop(n) ==
    /\ lan[n].discovering
    /\ \E me \in {lan[n], clear_old_services(lan[n])} : Change(n, me)
    /\ send_multicast_packet(n, 0)

(* Mutant: only a name that is new is dialed.                              *)
on_new_service(n, me, s, is_new) ==
    IF s.name.labels[1] = Label(n) \/ ~is_new THEN me ELSE [me EXCEPT !.dialed = @ \cup {<<s.ip, s.port>>}]

(* on_service: dialed once per address; our own name is skipped.           *)
on_service(n, me, s, is_new) ==
    IF s.name.labels[1] = Label(n) THEN me ELSE [me EXCEPT !.dialed = @ \cup {<<s.ip, s.port>>}]

add_or_update_service(n, me, s) ==
    LET old == {t \in me.services : t.name = s.name}
    IN on_service(n, [me EXCEPT !.services = (@ \ old) \cup {s}], s, old = {})

(* process_query: a question for the type, or for our very instance, whose *)
(* name as it was read ends without the dot ours ends with.  One reply     *)
(* follows after a delay.                                                  *)
Asked(n, questions) ==
    \E i \in DOMAIN questions :
       \/ is_librats_service(questions[i].name) /\ questions[i].type = PTR
       \/ questions[i].name = create_service_instance_name(n)
process_query(n, me, questions) == [me EXCEPT !.replying = me.announcing /\ Asked(n, questions)]

process_mdns_message(n, me, msg) ==
    IF ~msg.ok THEN me
    ELSE IF ~msg.is_response THEN process_query(n, me, msg.questions)
    ELSE IF msg.found = {} THEN me
    ELSE add_or_update_service(n, me, CHOOSE s \in msg.found : TRUE)

(* The receiver: packets from our own address are ignored; while it delays *)
(* a reply it reads nothing.                                               *)
receiver_loop(n, from, k) ==
    LET p == [to |-> n, from |-> from, k |-> k] IN
    /\ p \in air /\ lan[n].running /\ ~lan[n].replying
    /\ air' = air \ {p}
    /\ IF HostOf(from) = HostOf(n) THEN UNCHANGED lan ELSE Change(n, process_mdns_message(n, lan[n], Received[from, k]))

Reply(n) ==
    /\ lan[n].replying
    /\ Change(n, [lan[n] EXCEPT !.replying = FALSE])
    /\ send_multicast_packet(n, lan[n].port)

MdnsNext ==
    \E n \in Nodes :
       \/ MdnsStart(n) \/ announce_service(n) \/ start_discovery(n) \/ MdnsStop(n)
       \/ announcer_loop(n) \/ querier_loop(n) \/ Reply(n)
       \/ \E from \in Nodes, k \in 0..MaxStarts : receiver_loop(n, from, k)

(* Announcements go on, some of them reach each of the others, and the     *)
(* receiver reads what came, its socket being a queue: said by the effect. *)
MdnsFairness ==
    \A n \in Nodes :
       /\ []<>(lan[n].running = lan[n].discovering)
       /\ []<>~lan[n].replying
       /\ \A m \in Nodes \ {n} :
             /\ []<>(lan[n].announcing /\ lan[m].joined => [to |-> m, from |-> n, k |-> lan[n].port] \in air)
             /\ \A k \in 0..MaxStarts : []<>([to |-> m, from |-> n, k |-> k] \notin air)

-----------------------------------------------------------------------------
(* Two nodes of this program on different hosts that stay up have found    *)
(* each other under the port they now use, and dialed it, also when one    *)
(* was restarted, as another implementation too, and its packets come late.*)
Knows(a, b) ==
    /\ \E s \in lan[a].services :
          /\ s.name.labels[1] = Label(b) /\ s.port = lan[b].port /\ s.ip = HostOf(b)
          /\ <<b, s.port>> \in Foreign => s.txt = ForeignTxt
    /\ <<HostOf(b), lan[b].port>> \in lan[a].dialed

AllFound ==
    \A a, b \in Nodes : lan[a].discovering /\ lan[b].announcing /\ HostOf(a) # HostOf(b) => Knows(a, b)

=============================================================================
