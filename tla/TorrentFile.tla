---------------------------- MODULE TorrentFile ----------------------------
(***************************************************************************)
(* What a torrent is on paper: its file layout, the .torrent the creator   *)
(* writes and the parser reads, the magnet link, the fast-resume record    *)
(* and the messages of the extension protocol.                             *)
(*                                                                         *)
(* Byte j of source file i is the number 10 * i + j.  A digest, an info-   *)
(* hash and a file or key name are words of one byte.                      *)
(*                                                                         *)
(* Bencode comes first: the hardened decoder, the canonical encoder, and   *)
(* the two scanners that find the end of a value without decoding it: the  *)
(* one that locates the info dictionary of a .torrent and the one that     *)
(* splits the header of a ut_metadata message from the block behind it.    *)
(* A byte is its code.  Codes past 255 stand for words (a key, a digest)   *)
(* that count as one byte.  A value is <<"int", n>>, <<"str", s>>,         *)
(* <<"list", items>> or <<"dict", <<key, value>> pairs sorted by key>>.    *)
(***************************************************************************)
EXTENDS Integers, Sequences, FiniteSets

CONSTANTS
    IntBits,                \* width of an integer value, 64 in the code
    SizeBits,               \* width of a length, 64 in the code
    kMaxDepth,              \* deepest nesting decoded
    InfoKey,                \* the key of a .torrent's info dictionary
    FileSizes, MaxFiles,    \* sizes of source files, and how many at most
    PieceLengths,
    NameChars, MaxName,     \* the torrent's name: characters, and how many
    Trackers,               \* tracker URLs, as bytes
    BitsPerByte             \* bits of a bitfield byte, 8 in the code

VARIABLE draft      \* TorrentCreator: what is to be made into a torrent

i_ == 105
l_ == 108
d_ == 100
e_ == 101
Colon == 58
Minus == 45
Zero == 48
is_digit(c) == c \in 48..57

At(t, i) == IF i \in 1..Len(t) THEN t[i] ELSE -1
SubBytes(t, i, n) == SubSeq(t, i, i + n - 1)

RECURSIVE Less(_, _)
Less(a, b) ==
    CASE b = <<>> -> FALSE
      [] a = <<>> -> TRUE
      [] OTHER -> a[1] < b[1] \/ (a[1] = b[1] /\ Less(Tail(a), Tail(b)))

-----------------------------------------------------------------------------
(* Building and encoding.                                                  *)

Num(n) == <<"int", n>>
Str(s) == <<"str", s>>

RECURSIVE to_string(_)
to_string(n) == IF n < 0 THEN <<Minus>> \o to_string(-n) ELSE IF n < 10 THEN <<Zero + n>> ELSE Append(to_string(n \div 10), Zero + (n % 10))

(* What a dictionary holds under a key: a value, or none.                  *)
find(v, key) ==
    IF v[1] = "dict" THEN {v[2][i][2] : i \in {j \in DOMAIN v[2] : v[2][j][1] = key}} ELSE {}
find_int(v, key) == {x[2] : x \in {y \in find(v, key) : y[1] = "int"}}
find_string(v, key) == {x[2] : x \in {y \in find(v, key) : y[1] = "str"}}
the(S) == CHOOSE x \in S : TRUE

(* operator[] and an assignment: a new key is put where it sorts.          *)
Put(v, key, x) ==
    LET below == SelectSeq(v[2], LAMBDA e : Less(e[1], key))
        above == SelectSeq(v[2], LAMBDA e : Less(key, e[1]))
    IN <<"dict", below \o <<<<key, x>>>> \o above>>
RECURSIVE Dict(_)
Dict(pairs) == IF pairs = <<>> THEN <<"dict", <<>>>> ELSE Put(Dict(SubSeq(pairs, 1, Len(pairs) - 1)), pairs[Len(pairs)][1], pairs[Len(pairs)][2])

append_str(s) == to_string(Len(s)) \o <<Colon>> \o s
RECURSIVE encode(_), Concat(_)
Concat(parts) == IF parts = <<>> THEN <<>> ELSE parts[1] \o Concat(Tail(parts))
encode(v) ==
    CASE v[1] = "int" -> <<i_>> \o to_string(v[2]) \o <<e_>>
      [] v[1] = "str" -> append_str(v[2])
      [] v[1] = "list" -> <<l_>> \o Concat([i \in DOMAIN v[2] |-> encode(v[2][i])]) \o <<e_>>
      [] v[1] = "dict" -> <<d_>> \o Concat([i \in DOMAIN v[2] |-> append_str(v[2][i][1]) \o encode(v[2][i][2])]) \o <<e_>>

-----------------------------------------------------------------------------
(* Decoding: what stands at i, and the place behind it.                    *)

No == [ok |-> FALSE, v |-> Str(<<>>), next |-> 0]
Yes(v, next) == [ok |-> TRUE, v |-> v, next |-> next]
kMaxMag == 2^(IntBits - 1)

RECURSIVE Magnitude(_, _, _)
Magnitude(t, i, mag) ==
    IF ~is_digit(At(t, i)) THEN Yes(mag, i)
    ELSE LET d == t[i] - Zero
         IN IF mag > (kMaxMag - d) \div 10 THEN No ELSE Magnitude(t, i + 1, mag * 10 + d)

(* Strict and canonical: no leading zero, no -0, within the range.         *)
parse_raw_int(t, at, term) ==
    LET negative == At(t, at) = Minus
        i == IF negative THEN at + 1 ELSE at
        m == Magnitude(t, i, 0)
    IN CASE ~is_digit(At(t, i)) -> No
         [] At(t, i) = Zero -> IF ~negative /\ At(t, i + 1) = term THEN Yes(Num(0), i + 2) ELSE No
         [] OTHER -> IF ~m.ok THEN No
                     ELSE IF At(t, m.next) # term \/ (~negative /\ m.v >= kMaxMag) THEN No
                     ELSE Yes(Num(IF negative THEN -m.v ELSE m.v), m.next + 1)

(* A length never exceeds what is left of the buffer.                      *)
RECURSIVE Length(_, _, _, _)
Length(t, i, len, cap) ==
    IF len > cap THEN No
    ELSE IF is_digit(At(t, i)) THEN Length(t, i + 1, len * 10 + (t[i] - Zero), cap) ELSE Yes(len, i)
parse_raw_string(t, i) ==
    LET n == Length(t, i, 0, Len(t) - i + 1)
    IN IF ~is_digit(At(t, i)) \/ ~n.ok THEN No
       ELSE IF At(t, n.next) # Colon \/ Len(t) - n.next < n.v THEN No
       ELSE Yes(Str(SubBytes(t, n.next + 1, n.v)), n.next + 1 + n.v)

Sorted(pairs) == Dict(pairs)
Distinct(pairs) == \A i, j \in DOMAIN pairs : pairs[i][1] = pairs[j][1] => i = j

RECURSIVE parse(_, _, _), Items(_, _, _, _), Entries(_, _, _, _)
Items(t, i, depth, out) ==
    CASE At(t, i) = -1 -> No
      [] At(t, i) = e_ -> Yes(<<"list", out>>, i + 1)
      [] OTHER -> LET r == parse(t, i, depth + 1) IN IF r.ok THEN Items(t, r.next, depth, Append(out, r.v)) ELSE No
Entries(t, i, depth, out) ==
    CASE At(t, i) = -1 -> No
      [] At(t, i) = e_ -> IF Distinct(out) THEN Yes(Sorted(out), i + 1) ELSE No
      [] OTHER -> LET k == parse_raw_string(t, i)
                      r == parse(t, k.next, depth + 1)
                  IN IF ~k.ok THEN No ELSE IF r.ok THEN Entries(t, r.next, depth, Append(out, <<k.v[2], r.v>>)) ELSE No
parse(t, i, depth) ==
    CASE depth > kMaxDepth -> No
      [] At(t, i) = i_ -> parse_raw_int(t, i + 1, e_)
      [] At(t, i) = l_ -> Items(t, i + 1, depth, <<>>)
      [] At(t, i) = d_ -> Entries(t, i + 1, depth, <<>>)
      [] OTHER -> parse_raw_string(t, i)

(* One value that spans the whole buffer.                                  *)
decode(t) == LET r == parse(t, 1, 0) IN IF r.ok /\ r.next = Len(t) + 1 THEN r ELSE No

-----------------------------------------------------------------------------
(* The scanners.                                                           *)

RECURSIVE Until(_, _, _)
Until(t, i, c) == IF i > Len(t) \/ At(t, i) = c THEN i ELSE Until(t, i + 1, c)

(* Lengths wrap; a byte that is no digit is taken for one.                 *)
RECURSIVE Wrapped(_, _)
Wrapped(s, len) == IF s = <<>> THEN len ELSE Wrapped(Tail(s), (len * 10 + s[1] - Zero) % 2^SizeBits)

(* Mutant: the bytes of a string are not skipped.                          *)
StringLengthShort(t, pos) ==
    LET colon == Until(t, pos, Colon) IN IF colon > Len(t) THEN 0 ELSE colon + 1 - pos
StringLength(t, pos) ==
    LET colon == Until(t, pos, Colon)
        total == (colon + 1 - pos + Wrapped(SubSeq(t, pos, colon - 1), 0)) % 2^SizeBits
    IN IF colon > Len(t) THEN 0 ELSE IF (pos + total) % 2^SizeBits <= Len(t) + 1 THEN total ELSE 0

(* bencode_value_length: 0 is malformed.                                   *)
RECURSIVE bencode_value_length(_, _), PastItems(_, _)
PastItems(t, p) ==
    IF p > Len(t) \/ At(t, p) = e_ THEN p
    ELSE LET len == bencode_value_length(t, p) IN IF len = 0 THEN Len(t) + 1 ELSE PastItems(t, p + len)
bencode_value_length(t, pos) ==
    CASE At(t, pos) = i_ -> (LET e == Until(t, pos + 1, e_) IN IF e <= Len(t) THEN e + 1 - pos ELSE 0)
      [] At(t, pos) \in {l_, d_} -> (LET p == PastItems(t, pos + 1) IN IF p <= Len(t) THEN p + 1 - pos ELSE 0)
      [] is_digit(At(t, pos)) -> StringLength(t, pos)
      [] OTHER -> 0

RECURSIVE BoundedLength(_, _, _)
BoundedLength(s, len, n) == IF s = <<>> THEN Yes(len, 0) ELSE IF len * 10 + s[1] - Zero > n THEN No ELSE BoundedLength(Tail(s), len * 10 + s[1] - Zero, n)
read_bstring(t, pos) ==
    LET colon == Until(t, pos, Colon)
        digits == SubSeq(t, pos, colon - 1)
        len == BoundedLength(digits, 0, Len(t))
    IN IF colon > Len(t) \/ digits = <<>> \/ \E i \in DOMAIN digits : ~is_digit(digits[i]) THEN No
       ELSE IF ~len.ok THEN No
       ELSE IF colon + len.v > Len(t) THEN No ELSE Yes(SubBytes(t, colon + 1, len.v), colon + 1 + len.v)

RECURSIVE skip_value(_, _), SkipItems(_, _)
SkipItems(t, p) ==
    CASE p > Len(t) -> No
      [] At(t, p) = e_ -> Yes(0, p + 1)
      [] OTHER -> LET r == skip_value(t, p) IN IF r.ok THEN SkipItems(t, r.next) ELSE No
skip_value(t, pos) ==
    CASE At(t, pos) = i_ -> (LET e == Until(t, pos + 1, e_) IN IF e <= Len(t) THEN Yes(0, e + 1) ELSE No)
      [] At(t, pos) \in {l_, d_} -> SkipItems(t, pos + 1)
      [] is_digit(At(t, pos)) -> read_bstring(t, pos)
      [] OTHER -> No

(* The bytes of the info value, as a set of at most one.                   *)
RECURSIVE SpanFrom(_, _)
SpanFrom(t, pos) ==
    LET k == read_bstring(t, pos)
        r == skip_value(t, k.next)
    IN IF At(t, pos) \in {-1, e_} \/ ~k.ok THEN {}
       ELSE IF ~r.ok THEN {}
       ELSE IF k.v = InfoKey THEN {SubSeq(t, k.next, r.next - 1)} ELSE SpanFrom(t, r.next)
find_info_span(t) == IF At(t, 1) = d_ THEN SpanFrom(t, 2) ELSE {}

-----------------------------------------------------------------------------
(* One text has one reading.  What the decoder takes for a value, both     *)
(* scanners take for the same bytes, whatever stands behind it; the span   *)
(* of the info dictionary holds what the decoder found under its key; and  *)
(* a value decoded is the one its encoding decodes to.                     *)
OneReading(t) ==
    LET r == decode(t) IN
    /\ \A k \in 1..Len(t) :
          decode(SubSeq(t, 1, k)).ok => bencode_value_length(t, 1) = k /\ skip_value(t, 1).ok /\ skip_value(t, 1).next = k + 1
    /\ r.ok => /\ decode(encode(r.v)).ok /\ decode(encode(r.v)).v = r.v
               /\ find(r.v, InfoKey) = {decode(span).v : span \in find_info_span(t)}

-----------------------------------------------------------------------------
(* Words, in the order of the strings they stand for.                      *)
Word(n) == <<1000 + n>>
announce == Word(1)
announce_list == Word(2)
files == Word(4)
format == Word(5)
info == InfoKey
info_hash_key == Word(8)
length == Word(9)
m_key == Word(10)
metadata_size == Word(11)
msg_type == Word(12)
name_key == Word(13)
num_pieces_key == Word(14)
p_key == Word(15)
path == Word(16)
piece_key == Word(17)
piece_length_key == Word(18)
pieces_key == Word(19)
private == Word(20)
total_size == Word(21)
ut_metadata == Word(22)
ut_pex == Word(23)
ResumeTag == Word(24)
Btih == 1025
Component(i) == Word(30 + i)

(* One word for a run of bytes.                                            *)
RECURSIVE Digest(_, _)
Digest(s, h) == IF s = <<>> THEN h ELSE Digest(Tail(s), (h * 31 + s[1] + 1) % 1000003)
hash_raw(s) == <<2000 + Digest(s, 7)>>

-----------------------------------------------------------------------------
(* FileStorage: files laid end to end and cut into pieces.                 *)

SumSizes(fs) == IF fs = <<>> THEN 0 ELSE fs[Len(fs)].offset + fs[Len(fs)].size
FileSizeMax == 2^(IntBits - 1) - 1
CanAdd(fs, size) == size >= 0 /\ size <= FileSizeMax - SumSizes(fs)
add_file(fs, p, size) == Append(fs, [path |-> p, size |-> size, offset |-> SumSizes(fs)])
(* Mutant: the tail is no piece.                                           *)
num_pieces_whole(fs, plen) == IF plen = 0 THEN 0 ELSE SumSizes(fs) \div plen
num_pieces(fs, plen) == IF plen = 0 THEN 0 ELSE (SumSizes(fs) + plen - 1) \div plen
piece_size(fs, plen, piece) ==
    LET tail == SumSizes(fs) - piece * plen
    IN IF piece + 1 < num_pieces(fs, plen) THEN plen ELSE IF tail <= 0 THEN 0 ELSE IF tail < plen THEN tail ELSE plen

RECURSIVE Slices(_, _, _, _)
Slices(fs, f, abs, remaining) ==
    IF remaining = 0 \/ f > Len(fs) THEN <<>>
    ELSE LET off == abs - fs[f].offset
             left == fs[f].size - off
             take == IF remaining < left THEN remaining ELSE left
         IN IF left <= 0 THEN Slices(fs, f + 1, abs, remaining)
            ELSE <<[file |-> f, offset |-> off, size |-> take]>> \o Slices(fs, f + 1, abs + take, remaining - take)

(* The last file whose offset is at or before the byte.                    *)
Containing(fs, abs) == CHOOSE f \in DOMAIN fs : fs[f].offset <= abs /\ \A g \in DOMAIN fs : fs[g].offset <= abs => g <= f
map_block(fs, plen, piece, offset, size) ==
    LET abs == piece * plen + offset
        rest == SumSizes(fs) - abs
    IN IF size <= 0 \/ fs = <<>> \/ rest <= 0 THEN <<>>
       ELSE Slices(fs, Containing(fs, abs), abs, IF size < rest THEN size ELSE rest)

-----------------------------------------------------------------------------
(* TorrentCreator.                                                         *)

BytesOf(i, offset, size) == [j \in 1..size |-> 10 * i + offset + j - 1]
Layout(d) ==
    LET add[k \in 0..Len(d.sizes)] ==
            IF k = 0 THEN <<>> ELSE add_file(add[k - 1], IF d.single THEN d.name ELSE d.name \o Component(k), d.sizes[k])
    IN add[Len(d.sizes)]
PieceBytes(fs, plen, p) ==
    LET ss == map_block(fs, plen, p, 0, piece_size(fs, plen, p))
    IN Concat([i \in DOMAIN ss |-> BytesOf(ss[i].file, ss[i].offset, ss[i].size)])
Pieces(fs, plen) == Concat([p \in 1..num_pieces(fs, plen) |-> hash_raw(PieceBytes(fs, plen, p - 1))])

InfoDict(d) ==
    LET fs == Layout(d)
        entry(k) == Dict(<<<<length, Num(d.sizes[k])>>, <<path, <<"list", <<Str(Component(k))>>>>>>>>)
    IN Dict(<<<<name_key, Str(d.name)>>, <<piece_length_key, Num(d.plen)>>, <<pieces_key, Str(Pieces(fs, d.plen))>>>>
            \o (IF d.private THEN <<<<private, Num(1)>>>> ELSE <<>>)
            \o (IF d.single THEN <<<<length, Num(d.sizes[1])>>>>
                ELSE <<<<files, <<"list", [k \in DOMAIN d.sizes |-> entry(k)]>>>>>>))

TorrentBytes(d) ==
    LET tier == <<"list", [i \in DOMAIN d.trackers |-> Str(d.trackers[i])]>>
    IN encode(Dict((IF d.trackers = <<>> THEN <<>> ELSE <<<<announce, Str(d.trackers[1])>>, <<announce_list, <<"list", <<tier>>>>>>>>)
                   \o <<<<info, InfoDict(d)>>>>))

-----------------------------------------------------------------------------
(* TorrentInfo.                                                            *)

Slash == 47
safe_component(c) == c # <<>> /\ c # <<46>> /\ c # <<46, 46>> /\ \A i \in DOMAIN c : c[i] # Slash
Refused == [ok |-> FALSE]

RECURSIVE FilesOf(_, _, _)
FilesOf(entries, name, fs) ==
    IF entries = <<>> THEN [ok |-> TRUE, fs |-> fs]
    ELSE LET size == find_int(entries[1], length)
             comps == find(entries[1], path)
             rel == name \o Concat([i \in DOMAIN the(comps)[2] |-> the(comps)[2][i][2]])
         IN IF size = {} \/ comps = {} THEN Refused
            ELSE IF the(comps)[1] # "list" \/ the(size) < 0 THEN Refused
            ELSE IF \E i \in DOMAIN the(comps)[2] : the(comps)[2][i][1] # "str" \/ ~safe_component(the(comps)[2][i][2]) THEN Refused
            ELSE IF ~CanAdd(fs, the(size)) THEN Refused ELSE FilesOf(Tail(entries), name, add_file(fs, rel, the(size)))

parse_info_dict(v) ==
    LET name == the(find_string(v, name_key))
        plen == the(find_int(v, piece_length_key))
        hashes == the(find_string(v, pieces_key))
        list == {x \in find(v, files) : x[1] = "list"}
        size == find_int(v, length)
        laid == IF list # {} THEN FilesOf(the(list)[2], name, <<>>)
                ELSE IF size = {} THEN Refused
                ELSE IF ~CanAdd(<<>>, the(size)) THEN Refused ELSE [ok |-> TRUE, fs |-> add_file(<<>>, name, the(size))]
    IN IF {} \in {find_string(v, name_key), find_int(v, piece_length_key), find_string(v, pieces_key)} THEN Refused
       ELSE IF plen <= 0 \/ ~safe_component(name) THEN Refused
       ELSE IF ~laid.ok THEN Refused
       ELSE IF Len(hashes) # num_pieces(laid.fs, plen) THEN Refused
       ELSE [ok |-> TRUE, name |-> name, plen |-> plen, files |-> laid.fs, hashes |-> hashes, private |-> find_int(v, private) = {1}]

Read(v, bytes) ==
    LET i == parse_info_dict(v) IN IF i.ok THEN [ok |-> TRUE, info |-> i, bytes |-> bytes, info_hash |-> hash_raw(bytes)] ELSE Refused

from_info_dict(bytes, expected) ==
    LET r == decode(bytes)
        t == Read(r.v, bytes)
    IN IF ~r.ok THEN Refused ELSE IF ~t.ok THEN Refused ELSE IF t.info_hash # expected THEN Refused ELSE t

TiersOf(root) ==
    LET al == {x \in find(root, announce_list) : x[1] = "list"}
    IN IF al = {} THEN <<>> ELSE SelectSeq([i \in DOMAIN the(al)[2] |-> SelectSeq(the(al)[2][i][2], LAMBDA u : u[1] = "str")], LAMBDA t : t # <<>>)
AnnounceOf(root) == LET a == find_string(root, announce) IN IF a = {} THEN <<>> ELSE the(a)
all_trackers(announced, tiers) ==
    (IF announced = <<>> THEN <<>> ELSE <<announced>>)
    \o SelectSeq(Concat([i \in DOMAIN tiers |-> [j \in DOMAIN tiers[i] |-> tiers[i][j][2]]]), LAMBDA u : u # announced)

from_bytes(data) ==
    LET r == decode(data)
        span == find_info_span(data)
        v == find(r.v, info)
        t == Read(the(v), the(span))
    IN IF ~r.ok THEN Refused
       ELSE IF r.v[1] # "dict" \/ span = {} \/ v = {} THEN Refused
       ELSE IF ~t.ok THEN Refused
       ELSE [ok |-> TRUE, info |-> t.info, bytes |-> t.bytes, info_hash |-> t.info_hash, trackers |-> all_trackers(AnnounceOf(r.v), TiersOf(r.v))]

-----------------------------------------------------------------------------
(* The magnet link: <<key, '=', value, '&', ...>> behind its scheme.       *)
Amp == 38
Eq == 61
Percent == 37
xt == 1040
dn == 1041
tr == 1042

(* Percent-encoding: '%' and two digits, written as one word.              *)
Hex(c) == 3000 + c
Unreserved(c) == c \in 97..122 \/ c \in {45, 46} \/ is_digit(c)
PercentEncoded(s) == Concat([i \in DOMAIN s |-> IF Unreserved(s[i]) THEN <<s[i]>> ELSE <<Percent, Hex(s[i])>>])
(* Mutant: the name goes into the link as it is.                           *)
name_bare(s) == s
name_encoded(s) == PercentEncoded(s)
to_magnet_uri(t) ==
    <<xt, Eq, Btih>> \o t.info_hash
    \o (IF t.info.name = <<>> THEN <<>> ELSE <<Amp, dn, Eq>> \o name_encoded(t.info.name))
    \o Concat([i \in DOMAIN t.trackers |-> <<Amp, tr, Eq>> \o t.trackers[i]])

RECURSIVE url_decode(_)
url_decode(s) ==
    CASE s = <<>> -> <<>>
      [] s[1] = Percent /\ Len(s) > 1 /\ At(s, 2) >= 3000 -> <<s[2] - 3000>> \o url_decode(SubSeq(s, 3, Len(s)))
      [] OTHER -> <<s[1]>> \o url_decode(Tail(s))

RECURSIVE Tokens(_)
Tokens(q) == IF q = <<>> THEN <<>> ELSE LET amp == Until(q, 1, Amp) IN <<SubSeq(q, 1, amp - 1)>> \o Tokens(SubSeq(q, amp + 1, Len(q)))
KeyOf(token) == SubSeq(token, 1, Until(token, 1, Eq) - 1)
ValueOf(token) == url_decode(SubSeq(token, Until(token, 1, Eq) + 1, Len(token)))
MagnetParse(q) ==
    LET ts == SelectSeq(Tokens(q), LAMBDA t : Until(t, 1, Eq) <= Len(t))
        of(k) == SelectSeq(ts, LAMBDA t : KeyOf(t) = <<k>>)
        ids == SelectSeq(of(xt), LAMBDA t : At(ValueOf(t), 1) = Btih)
        urls == SelectSeq(of(tr), LAMBDA t : ValueOf(t) # <<>>)
    IN IF ids = <<>> THEN Refused
       ELSE [ok |-> TRUE, info_hash |-> Tail(ValueOf(ids[Len(ids)])),
             name |-> IF of(dn) = <<>> THEN <<>> ELSE ValueOf(of(dn)[Len(of(dn))]),
             trackers |-> [i \in DOMAIN urls |-> ValueOf(urls[i])]]

-----------------------------------------------------------------------------
(* Bitfield and ResumeData.                                                *)

NumBytes(bits) == (bits + BitsPerByte - 1) \div BitsPerByte
BitOf(b, i) == (b \div 2^(BitsPerByte - 1 - i)) % 2
RECURSIVE Packed(_, _)
Packed(S, i) == IF i = BitsPerByte THEN 0 ELSE (IF i \in S THEN 2^(BitsPerByte - 1 - i) ELSE 0) + Packed(S, i + 1)
BitBytes(have, bits) == [k \in 1..NumBytes(bits) |-> Packed({x - (k - 1) * BitsPerByte : x \in have}, 0)]
(* assign: short input is padded, bits past the end are dropped.           *)
assign(data, bits) ==
    {x \in 0..bits - 1 : (x \div BitsPerByte) < Len(data) /\ BitOf(data[(x \div BitsPerByte) + 1], x % BitsPerByte) = 1}

ResumeEncode(rd) ==
    encode(Dict(<<<<format, Str(ResumeTag)>>, <<info_hash_key, Str(rd.info_hash)>>, <<num_pieces_key, Num(rd.bits)>>, <<pieces_key, Str(BitBytes(rd.have, rd.bits))>>>>
                \o (IF rd.info_dict = <<>> THEN <<>> ELSE <<<<info, Str(rd.info_dict)>>>>)))
ResumeDecode(data) ==
    LET r == decode(data)
        bits == LET n == find_int(r.v, num_pieces_key) IN IF n = {} THEN 0 ELSE IF the(n) < 0 THEN 0 ELSE the(n)
        p == find_string(r.v, pieces_key)
        dict == find_string(r.v, info)
    IN IF ~r.ok THEN Refused
       ELSE IF find_string(r.v, format) # {ResumeTag} THEN Refused
       ELSE IF p # {} /\ NumBytes(bits) # Len(the(p)) THEN Refused
       ELSE [ok |-> TRUE, info_hash |-> Concat([i \in 1..Cardinality(find_string(r.v, info_hash_key)) |-> the(find_string(r.v, info_hash_key))]), bits |-> IF p = {} THEN 0 ELSE bits,
             have |-> IF p = {} THEN {} ELSE assign(the(p), bits), info_dict |-> IF dict = {} THEN <<>> ELSE the(dict)]

(* generate_resume_data and load_resume_data: a magnet gets its metadata   *)
(* from the record, if that is the info dictionary it names.               *)
generate_resume_data(t, have) == [info_hash |-> t.info_hash, bits |-> Len(t.info.hashes), have |-> have, info_dict |-> t.bytes]
load_resume_data(magnet_hash, rd) ==
    LET t == from_info_dict(rd.info_dict, magnet_hash)
    IN IF rd.info_hash # magnet_hash THEN Refused
       ELSE [ok |-> TRUE, has_metadata |-> t.ok, have |-> rd.have]

-----------------------------------------------------------------------------
(* Extension messages.                                                     *)

LocalId(n) == n % 256
encode_handshake(size, port) ==
    encode(Dict(<<<<m_key, Dict(<<<<ut_metadata, Num(1)>>, <<ut_pex, Num(2)>>>>)>>>>
                \o (IF size > 0 THEN <<<<metadata_size, Num(size)>>>> ELSE <<>>)
                \o (IF port > 0 THEN <<<<p_key, Num(port)>>>> ELSE <<>>)))
Positive(S) == IF S = {} THEN 0 ELSE IF the(S) > 0 THEN the(S) ELSE 0
IdIn(m, key) == LET n == find_int(m, key) IN IF n = {} THEN 0 ELSE LocalId(the(n))
decode_handshake(t) ==
    LET r == decode(t)
        m == find(r.v, m_key)
    IN IF ~r.ok THEN Refused
       ELSE IF r.v[1] # "dict" THEN Refused
       ELSE [ok |-> TRUE, ut_metadata |-> IF m = {} THEN 0 ELSE IdIn(the(m), ut_metadata), ut_pex |-> IF m = {} THEN 0 ELSE IdIn(the(m), ut_pex),
             size |-> Positive(find_int(r.v, metadata_size)), port |-> Positive(find_int(r.v, p_key))]

MData == 1
encode_metadata_data(piece, size, block) ==
    encode(Dict(<<<<msg_type, Num(MData)>>, <<piece_key, Num(piece)>>, <<total_size, Num(size)>>>>)) \o block
decode_metadata(t) ==
    LET n == bencode_value_length(t, 1)
        r == decode(SubSeq(t, 1, n))
        type == find_int(r.v, msg_type)
        piece == find_int(r.v, piece_key)
    IN IF n = 0 \/ ~r.ok THEN Refused
       ELSE IF type = {} \/ piece = {} THEN Refused
       ELSE [ok |-> TRUE, type |-> the(type), piece |-> the(piece),
             total_size |-> IF the(type) = MData THEN Positive(find_int(r.v, total_size)) ELSE 0,
             block |-> IF the(type) = MData THEN SubSeq(t, n + 1, Len(t)) ELSE <<>>]

(* PEX: four bytes of address and two of port each, so IPv4 only.          *)
added == Word(50)
dropped == Word(51)
ipv4_to_bytes(p) == p.ip = 4
compact(peers) == Concat([i \in DOMAIN peers |-> IF ipv4_to_bytes(peers[i]) THEN <<peers[i].host, peers[i].port>> ELSE <<>>])
uncompact(s) == [i \in 1..(Len(s) \div 2) |-> [ip |-> 4, host |-> s[2 * i - 1], port |-> s[2 * i]]]
encode_pex(new, gone) == encode(Dict(<<<<added, Str(compact(new))>>, <<dropped, Str(compact(gone))>>>>))
decode_pex(t) ==
    LET r == decode(t)
        peers(key) == Concat([i \in 1..Cardinality(find_string(r.v, key)) |-> uncompact(the(find_string(r.v, key)))])
    IN IF ~r.ok THEN Refused ELSE IF r.v[1] # "dict" THEN Refused ELSE [ok |-> TRUE, added |-> peers(added), dropped |-> peers(dropped)]

-----------------------------------------------------------------------------
NewDraft(single, name, plen, priv, trackers) ==
    [single |-> single, name |-> name, plen |-> plen, private |-> priv, trackers |-> trackers, sizes |-> <<>>, made |-> FALSE]
Names == UNION {[1..n -> NameChars] : n \in 0..MaxName}

TorrentFileInit ==
    draft \in {NewDraft(s, n, l, p, t) : s \in BOOLEAN, n \in Names, l \in PieceLengths, p \in BOOLEAN,
               t \in {<<>>} \cup {<<u>> : u \in Trackers} \cup {<<u, w>> : u, w \in Trackers}}

(* scan_directory: one more source file.                                   *)
AddSource ==
    \E size \in FileSizes :
        /\ ~draft.made /\ Len(draft.sizes) < (IF draft.single THEN 1 ELSE MaxFiles)
        /\ draft' = [draft EXCEPT !.sizes = Append(@, size)]

(* generate(): the torrent is made, or refused.                            *)
generate == ~draft.made /\ draft' = [draft EXCEPT !.made = TRUE]

-----------------------------------------------------------------------------
(* A torrent made of any files reads back as those files: every byte of    *)
(* them lies in one piece, in order; the info-hash is of the bytes that    *)
(* were written; its magnet link names it, and its resume record brings a  *)
(* magnet's metadata and pieces back.  A name the parser holds unsafe is   *)
(* refused when the torrent is made.                                       *)
Makable(d) == d.sizes # <<>> /\ d.name # <<>> /\ d.plen > 0
Plain(url) == \A i \in DOMAIN url : url[i] \notin {Amp, Percent}
TorrentRoundTrip ==
    Makable(draft) =>
        LET t == from_bytes(TorrentBytes(draft))
            fs == Layout(draft)
            magnet == MagnetParse(to_magnet_uri(t))
            have == {x \in 0..Len(t.info.hashes) - 1 : x % 2 = 0}
            rd == ResumeDecode(ResumeEncode(generate_resume_data(t, have)))
            mine == load_resume_data(magnet.info_hash, rd)
        IN /\ t.ok = safe_component(draft.name)
           /\ t.ok =>
                 /\ t.info.files = fs /\ t.info.private = draft.private
                 /\ Concat([p \in 1..Len(t.info.hashes) |-> PieceBytes(fs, draft.plen, p - 1)]) = Concat([i \in DOMAIN fs |-> BytesOf(i, 0, fs[i].size)])
                 /\ t.bytes = encode(InfoDict(draft))
                 /\ magnet.ok /\ magnet.info_hash = t.info_hash /\ magnet.name = draft.name
                 /\ (\A i \in DOMAIN t.trackers : Plain(t.trackers[i])) => magnet.trackers = t.trackers
                 /\ rd.ok /\ mine.ok /\ mine.has_metadata /\ mine.have = have

TorrentReadsBack == [][draft'.made /\ ~draft.made => TorrentRoundTrip]_draft

(* A block of metadata arrives as it was sent, whatever bytes it begins    *)
(* with; a handshake says what was meant; and of the peers exchanged the   *)
(* IPv4 ones arrive, whatever their bytes.                                 *)
BlockArrives(block) ==
    LET m == decode_metadata(encode_metadata_data(1, 3, block))
        h == decode_handshake(encode_handshake(Len(block), Len(block)))
        peers == [i \in DOMAIN block |-> [ip |-> IF i % 2 = 0 THEN 6 ELSE 4, host |-> block[i], port |-> i]]
        x == decode_pex(encode_pex(peers, <<>>))
    IN /\ m.ok /\ m.block = block /\ m.piece = 1 /\ m.total_size = 3
       /\ h.ok /\ h.size = Len(block) /\ h.port = Len(block) /\ h.ut_metadata = 1 /\ h.ut_pex = 2
       /\ x.ok /\ x.added = SelectSeq(peers, ipv4_to_bytes) /\ x.dropped = <<>>

=============================================================================
