-------------------------------- MODULE Json --------------------------------
(***************************************************************************)
(* The JSON values of the library: the object with its hash index, the     *)
(* writer and the parser.  A text is a sequence of characters; a literal,  *)
(* a code unit of a \u escape and an astral character count as one.        *)
(* Integers have IntBits bits, the most significant being the sign.        *)
(***************************************************************************)
EXTENDS Integers, Sequences, FiniteSets

CONSTANTS
    Keys, Hash(_),      \* keys of the object and their hashes
    kIndexThreshold,    \* size past which an object is indexed
    MinCapacity,        \* smallest index, a power of two
    IntBits,
    kMaxDepth,          \* deepest nesting read
    Alphabets, ChunksOf(_), MaxChunks   \* texts: pieces of each alphabet, at most so many

VARIABLES object, text

jsonVars == <<object, text>>

-----------------------------------------------------------------------------
(* Object: items in insertion order and, past the threshold, an open-      *)
(* addressing table of positions; 0 is an empty slot.                      *)

IntMax == 2^(IntBits - 1) - 1
IntMin == -(2^(IntBits - 1))
UintMax == 2^IntBits - 1

Size(o) == Len(o.items)
indexed(o) == o.index # <<>>
EmptyObject == [items |-> <<>>, index |-> <<>>]

(* The first slot from the key's own that is empty or holds the key.       *)
Probe(items, index, key) ==
    LET slot(i) == ((Hash(key) + i) % Len(index)) + 1
        ends(i) == index[slot(i)] = 0 \/ items[index[slot(i)]].key = key
    IN slot(CHOOSE i \in 0..Len(index) - 1 : ends(i) /\ \A j \in 0..i - 1 : ~ends(j))

Capacity(n) == CHOOSE c \in {MinCapacity * 2^i : i \in 0..n} : c >= (n + 1) * 2 /\ (c = MinCapacity \/ c \div 2 < (n + 1) * 2)

RECURSIVE Fill(_, _, _)
Fill(items, index, i) ==
    IF i > Len(items) THEN index ELSE Fill(items, [index EXCEPT ![Probe(items, index, items[i].key)] = i], i + 1)

rebuild_index(o) == [o EXCEPT !.index = Fill(o.items, [i \in 1..Capacity(Size(o)) |-> 0], 1)]

reindex(o) == IF Size(o) > kIndexThreshold THEN rebuild_index(o) ELSE [o EXCEPT !.index = <<>>]

(* The position of a key, 0 when there is none.                            *)
Scan(o, key) == IF \E i \in 1..Size(o) : o.items[i].key = key THEN CHOOSE i \in 1..Size(o) : o.items[i].key = key ELSE 0
find(o, key) == IF indexed(o) THEN o.index[Probe(o.items, o.index, key)] ELSE Scan(o, key)

Added(o, key, v) == Append(o.items, [key |-> key, v |-> v])

(* Mutant: the slot is sought before the table grows.                      *)
emplace_stale(o, key, v) ==
    LET g == IF indexed(o) /\ (Size(o) + 1) * 2 > Len(o.index) THEN rebuild_index(o) ELSE o
        at == find(o, key)
        more == [g EXCEPT !.items = Added(g, key, v)]
    IN IF at # 0 THEN [g EXCEPT !.items[at].v = v]
       ELSE IF indexed(g) THEN [more EXCEPT !.index[Probe(o.items, o.index, key)] = Size(more)]
       ELSE IF Size(more) > kIndexThreshold THEN rebuild_index(more) ELSE more

(* operator[] and an assignment: the table grows before a slot is sought.  *)
emplace_key(o, key, v) ==
    LET g == IF indexed(o) /\ (Size(o) + 1) * 2 > Len(o.index) THEN rebuild_index(o) ELSE o
        at == find(g, key)
        more == [g EXCEPT !.items = Added(g, key, v)]
    IN IF at # 0 THEN [g EXCEPT !.items[at].v = v]
       ELSE IF indexed(g) THEN [more EXCEPT !.index[Probe(g.items, g.index, key)] = Size(more)]
       ELSE IF Size(more) > kIndexThreshold THEN rebuild_index(more) ELSE more

erase(o, key) ==
    LET at == find(o, key)
    IN IF at = 0 THEN o
       ELSE reindex([o EXCEPT !.items = SubSeq(@, 1, at - 1) \o SubSeq(@, at + 1, Len(@))])

-----------------------------------------------------------------------------
(* Values: <<kind, payload>>.  A float is <<"float", negative, m, x>>, the *)
(* decimal m * 10^x, or infinite.                                          *)

Null == <<"null">>
Inf(neg) == <<"float", neg, "inf">>
MaxExponent == 9

(* dump_string: quotes, backslashes and control characters are escaped.    *)
Escape(c) ==
    CASE c = "quote" -> <<"\\", "quote">>
      [] c = "\\" -> <<"\\", "\\">>
      [] c = "NL" -> <<"\\", "n">>
      [] c = "CTL" -> <<"\\", "u", "h0001">>
      [] OTHER -> <<c>>

RECURSIVE Escaped(_)
Escaped(s) == IF s = <<>> THEN <<>> ELSE Escape(Head(s)) \o Escaped(Tail(s))
dump_string(s) == <<"quote">> \o Escaped(s) \o <<"quote">>

Digit == <<"0", "1", "2", "3", "4", "5", "6", "7", "8", "9">>
ValueOf(d) == CHOOSE n \in 0..9 : Digit[n + 1] = d
is_digit(c) == \E n \in 1..10 : Digit[n] = c

RECURSIVE write_decimal(_)
write_decimal(n) == IF n < 10 THEN <<Digit[n + 1]>> ELSE Append(write_decimal(n \div 10), Digit[(n % 10) + 1])
Signed(neg, s) == IF neg THEN <<"-">> \o s ELSE s
dump_int(n) == IF n < 0 THEN Signed(TRUE, write_decimal(-n)) ELSE write_decimal(n)

(* dump_double: the shortest decimal that reads back; one that looks like  *)
(* an integer gets ".0".  JSON has no infinity.                            *)
Zeros(n) == [i \in 1..n |-> "0"]
ToChars(m, x) ==
    LET d == write_decimal(m)
        w == IF Len(d) > -x THEN d ELSE Zeros(1 - x - Len(d)) \o d
    IN IF x > 2 THEN d \o <<"e">> \o write_decimal(x)
       ELSE IF x >= 0 THEN d \o Zeros(x)
       ELSE SubSeq(w, 1, Len(w) + x) \o <<".">> \o SubSeq(w, Len(w) + x + 1, Len(w))
LooksIntegral(s) == \A i \in DOMAIN s : s[i] \notin {".", "e"}
(* Mutant: without the ".0".                                               *)
dump_double_bare(f) == IF Len(f) = 3 THEN <<"null">> ELSE Signed(f[2], ToChars(f[3], f[4]))
dump_double(f) ==
    IF Len(f) = 3 THEN <<"null">>
    ELSE LET s == ToChars(f[3], f[4]) IN Signed(f[2], IF LooksIntegral(s) THEN s \o <<".", "0">> ELSE s)

RECURSIVE dump(_), Items(_)
Items(parts) == IF parts = <<>> THEN <<>> ELSE IF Len(parts) = 1 THEN parts[1] ELSE parts[1] \o <<",">> \o Items(Tail(parts))
dump(v) ==
    CASE v[1] = "null" -> <<"null">>
      [] v[1] = "bool" -> IF v[2] THEN <<"true">> ELSE <<"false">>
      [] v[1] \in {"int", "uint"} -> dump_int(v[2])
      [] v[1] = "float" -> dump_double(v)
      [] v[1] = "string" -> dump_string(v[2])
      [] v[1] = "array" -> <<"[">> \o Items([i \in DOMAIN v[2] |-> dump(v[2][i])]) \o <<"]">>
      [] v[1] = "object" -> <<"{">> \o Items([i \in DOMAIN v[2] |-> dump_string(v[2][i].key) \o <<":">> \o dump(v[2][i].v)]) \o <<"}">>

-----------------------------------------------------------------------------
(* The parser: what stands at a place, and the place behind it.            *)

Error == [ok |-> FALSE, v |-> Null, next |-> 0]
Ok(v, next) == [ok |-> TRUE, v |-> v, next |-> next]
At(s, i) == IF i <= Len(s) THEN s[i] ELSE "end"

RECURSIVE skip_ws(_, _)
skip_ws(s, i) == IF At(s, i) = " " THEN skip_ws(s, i + 1) ELSE i

(* \u escapes: a surrogate must come as a pair.                            *)
UnitOf(c) == IF c = "h0001" THEN "CTL" ELSE IF c = "h0061" THEN "a" ELSE ""
parse_escape(s, i) ==
    LET e == At(s, i) IN
    CASE e \in {"quote", "\\"} -> Ok(e, i + 1)
      [] e = "n" -> Ok("NL", i + 1)
      [] e = "u" /\ UnitOf(At(s, i + 1)) # "" -> Ok(UnitOf(At(s, i + 1)), i + 2)
      [] e = "u" /\ At(s, i + 1) = "high" /\ At(s, i + 2) = "\\" /\ At(s, i + 3) = "u" /\ At(s, i + 4) = "low" -> Ok("astral", i + 5)
      [] OTHER -> Error

RECURSIVE StringFrom(_, _, _)
StringFrom(s, i, out) ==
    CASE At(s, i) = "end" -> Error
      [] At(s, i) = "quote" -> Ok(out, i + 1)
      [] At(s, i) = "\\" -> (LET e == parse_escape(s, i + 1) IN IF e.ok THEN StringFrom(s, e.next, Append(out, e.v)) ELSE Error)
      [] At(s, i) \in {"NL", "CTL"} -> Error
      [] OTHER -> StringFrom(s, i + 1, Append(out, At(s, i)))
parse_string(s, i) == LET r == StringFrom(s, i + 1, <<>>) IN IF r.ok THEN Ok(<<"string", r.v>>, r.next) ELSE Error

RECURSIVE AfterDigits(_, _), Decimal(_, _)
AfterDigits(s, i) == IF is_digit(At(s, i)) THEN AfterDigits(s, i + 1) ELSE i
Decimal(s, n) == IF s = <<>> THEN n ELSE Decimal(Tail(s), n * 10 + ValueOf(Head(s)))

(* parse_double.  A magnitude out of range, too small or too large, is    *)
(* reported alike and becomes an infinity.                                 *)
OutOfRange(m, x) == LET top == x + Len(write_decimal(m)) - 1 IN top > MaxExponent \/ top < -MaxExponent
RECURSIVE parse_double(_, _, _)
parse_double(neg, m, x) ==
    IF m = 0 THEN <<"float", neg, 0, 0>>
    ELSE IF m % 10 = 0 THEN parse_double(neg, m \div 10, x + 1)
    ELSE IF OutOfRange(m, x) THEN Inf(neg) ELSE <<"float", neg, m, x>>

(* Mutant: an integer that does not fit wraps.                             *)
finish_wraps(neg, whole, is_float, frac, exp) ==
    IF is_float THEN parse_double(neg, Decimal(whole \o frac, 0), exp - Len(frac))
    ELSE LET n == Decimal(whole, 0) IN
         IF neg THEN <<"int", -(n % (IntMax + 1))>>
         ELSE IF n <= IntMax THEN <<"int", n>> ELSE <<"uint", n % (UintMax + 1)>>

(* finish_number: signed when it fits, else unsigned, else a float.        *)
finish_number(neg, whole, is_float, frac, exp) ==
    LET n == Decimal(whole, 0)
        float == parse_double(neg, Decimal(whole \o frac, 0), exp - Len(frac))
    IN IF is_float THEN float
       ELSE IF neg THEN (IF -n >= IntMin THEN <<"int", -n>> ELSE float)
       ELSE IF n <= IntMax THEN <<"int", n>> ELSE IF n <= UintMax THEN <<"uint", n>> ELSE float

parse_number(s, start) ==
    LET neg == At(s, start) = "-"
        w == IF neg THEN start + 1 ELSE start
        i == IF At(s, w) = "0" THEN w + 1 ELSE AfterDigits(s, w)       \* behind the whole part
        dot == At(s, i) = "."
        f == IF dot THEN AfterDigits(s, i + 1) ELSE i                  \* behind the fraction
        e == At(s, f) = "e"
        minus == e /\ At(s, f + 1) = "-"
        x == IF e /\ At(s, f + 1) \in {"+", "-"} THEN f + 2 ELSE f + 1 \* where the exponent stands
        end == IF e THEN AfterDigits(s, x) ELSE f
        exp == IF e THEN Decimal(SubSeq(s, x, end - 1), 0) ELSE 0
    IN IF i = w \/ (dot /\ f = i + 1) \/ (e /\ end = x) THEN Error
       ELSE Ok(finish_number(neg, SubSeq(s, w, i - 1), dot \/ e, IF dot THEN SubSeq(s, i + 1, f - 1) ELSE <<>>, IF minus THEN -exp ELSE exp), end)

RECURSIVE parse_value(_, _, _), Members(_, _, _, _), Elements(_, _, _, _)
Elements(s, i, depth, out) ==
    LET r == parse_value(s, i, depth + 1)
        j == skip_ws(s, r.next)
    IN IF ~r.ok THEN Error
       ELSE IF At(s, j) = "," THEN Elements(s, j + 1, depth, Append(out, r.v))
       ELSE IF At(s, j) = "]" THEN Ok(<<"array", Append(out, r.v)>>, j + 1) ELSE Error
Members(s, i, depth, o) ==
    LET k == skip_ws(s, i)
        key == parse_string(s, k)
        c == skip_ws(s, key.next)
        r == parse_value(s, c + 1, depth + 1)
        j == skip_ws(s, r.next)
        more == emplace_key(o, key.v[2], r.v)
    IN IF At(s, k) # "quote" THEN Error
       ELSE IF ~key.ok THEN Error
       ELSE IF At(s, c) # ":" THEN Error
       ELSE IF ~r.ok THEN Error
       ELSE IF At(s, j) = "," THEN Members(s, j + 1, depth, more)
       ELSE IF At(s, j) = "}" THEN Ok(<<"object", more.items>>, j + 1) ELSE Error
parse_array(s, i, depth) == LET j == skip_ws(s, i + 1) IN IF At(s, j) = "]" THEN Ok(<<"array", <<>>>>, j + 1) ELSE Elements(s, j, depth, <<>>)
parse_object(s, i, depth) == LET j == skip_ws(s, i + 1) IN IF At(s, j) = "}" THEN Ok(<<"object", <<>>>>, j + 1) ELSE Members(s, j, depth, EmptyObject)
parse_value(s, from, depth) ==
    LET i == skip_ws(s, from)
        c == At(s, i)
    IN CASE depth > kMaxDepth -> Error
         [] c = "{" -> parse_object(s, i, depth)
         [] c = "[" -> parse_array(s, i, depth)
         [] c = "quote" -> parse_string(s, i)
         [] c \in {"true", "false"} -> Ok(<<"bool", c = "true">>, i + 1)
         [] c = "null" -> Ok(Null, i + 1)
         [] c = "-" \/ is_digit(c) -> parse_number(s, i)
         [] OTHER -> Error

(* parse: one value and nothing behind it.                                 *)
parse(s) ==
    LET r == parse_value(s, 1, 0)
    IN IF r.ok /\ skip_ws(s, r.next) > Len(s) THEN r ELSE Error

-----------------------------------------------------------------------------
(* Equality: numbers of any kind by value, objects in any order of keys.   *)
is_number(v) == v[1] \in {"int", "uint", "float"}
as_double(v) ==
    LET d == IF v[1] = "float" THEN v ELSE parse_double(v[2] < 0, IF v[2] < 0 THEN -v[2] ELSE v[2], 0)
    IN IF Len(d) = 4 /\ d[3] = 0 THEN <<"float", FALSE, 0, 0>> ELSE d

RECURSIVE Equal(_, _)
Equal(a, b) ==
    IF is_number(a) /\ is_number(b)
    THEN IF "float" \in {a[1], b[1]} THEN as_double(a) = as_double(b) ELSE a[2] = b[2]
    ELSE /\ a[1] = b[1]
         /\ CASE a[1] = "array" -> /\ Len(a[2]) = Len(b[2])
                                   /\ \A i \in DOMAIN a[2] : Equal(a[2][i], b[2][i])
              [] a[1] = "object" -> /\ Len(a[2]) = Len(b[2])
                                    /\ \A i \in DOMAIN a[2] : \E j \in DOMAIN b[2] : a[2][i].key = b[2][j].key /\ Equal(a[2][i].v, b[2][j].v)
              [] OTHER -> a = b

JsonInit ==
    /\ object = EmptyObject
    /\ text \in {[alphabet |-> a, chunks |-> 0, chars |-> <<>>, read |-> FALSE] : a \in Alphabets}

Edit ==
    /\ \E key \in Keys : object' \in {emplace_key(object, key, 0), erase(object, key)}
    /\ UNCHANGED text

Type ==
    /\ ~text.read /\ text.chunks < MaxChunks
    /\ \E c \in ChunksOf(text.alphabet) : text' = [text EXCEPT !.chunks = @ + 1, !.chars = @ \o c]
    /\ UNCHANGED object

(* The text is complete and parse() reads it.                              *)
Read == ~text.read /\ text' = [text EXCEPT !.read = TRUE] /\ UNCHANGED object

-----------------------------------------------------------------------------
(* The index of an object, whatever was put and erased before: a key is    *)
(* found where it stands, one that is gone is not found, and the table     *)
(* always has an empty slot for a probe to end at.                         *)
IndexSound ==
    /\ \A key \in Keys : find(object, key) = Scan(object, key)
    /\ indexed(object) = (Size(object) > kIndexThreshold)
    /\ indexed(object) => \E i \in DOMAIN object.index : object.index[i] = 0

(* What is read from a text is, written and read again, the same value of  *)
(* the same kind; only an infinite number comes back as null.              *)
Finite(v) == v[1] # "float" \/ Len(v) = 4
RoundTrip(chars) ==
    LET r == parse(chars)
    IN r.ok => LET again == parse(dump(r.v)) IN again.ok /\ (Finite(r.v) => again.v[1] = r.v[1] /\ Equal(again.v, r.v))
ReadsBack == [][text'.read /\ ~text.read => RoundTrip(text.chars)]_text

=============================================================================
