------------------------------- MODULE Encoding -------------------------------
(***************************************************************************)
(* The wire formats (ttc.rs, oranum.rs, tns.rs, and the values of          *)
(* server/session.rs): what the writers put in a buffer, and what the      *)
(* readers take from one.  A buffer is a sequence of bytes; an integer of  *)
(* up to 64 bits is its eight bytes, most significant first.  A reader     *)
(* returns what it read and the bytes that remain, or Broken.              *)
(***************************************************************************)
EXTENDS Calendar, Sequences, SequencesExt

CONSTANTS
  MAX_SHORT_LENGTH, CHUNK_SIZE, (* of byte strings                            *)
  MAX_DIGITS                    (* decimal digits of a NUMBER                 *)

ASSUME EncodingAssumption ==
  /\ MAX_SHORT_LENGTH \in 1..252 /\ CHUNK_SIZE \in 1..255
  /\ MAX_DIGITS \in Nat /\ MAX_DIGITS % 2 = 0

HEADER_LEN == 8
DATA == 6
MSG_ROW_DATA == 7
LONG_LENGTH_INDICATOR == 254
NULL_LENGTH_INDICATOR == 255

Got(v, rest) == [ok |-> TRUE, v |-> v, rest |-> rest]
Broken == [ok |-> FALSE, v |-> << >>, rest |-> << >>]
Zeros(n) == [i \in 1..n |-> 0]
Drop(s, n) == SubSeq(s, n + 1, Len(s))
Final(s, n) == SubSeq(s, Len(s) - n + 1, Len(s))
Wide(s) == Zeros(8 - Len(s)) \o s
Small(n) == Wide(<<n \div 256, n % 256>>)
AsSmall(v) == v[7] * 256 + v[8]

bytes(n, s) == IF n > Len(s) THEN Broken ELSE Got(SubSeq(s, 1, n), Drop(s, n))

-----------------------------------------------------------------------------
(* Integers: a length byte, with the sign in its top bit, and that many     *)
(* bytes; the writer knows lengths of 1, 2, 4 and 8.                        *)
Size(v) == 8 - Max({0} \cup {i \in 1..8 : \A j \in 1..i : v[j] = 0})
write_int(v, negative) ==
  LET sign == IF negative THEN 128 ELSE 0
      n == Size(v)
  IN
  CASE n = 0 -> <<0>>
    [] n = 1 -> <<1 + sign>> \o Final(v, 1)
    [] n = 2 -> <<2 + sign>> \o Final(v, 2)
    [] n \in 3..4 -> <<4 + sign>> \o Final(v, 4)
    [] OTHER -> <<8 + sign>> \o v

read_int(max, s) ==
  LET size == s[1] % 128
      b == bytes(size, Drop(s, 1))
  IN  IF s = << >> THEN Broken
      ELSE IF size > max \/ ~b.ok THEN Broken
      ELSE Got([v |-> Wide(b.v), negative |-> s[1] >= 128], b.rest)

ub4(n) == write_int(Small(n), FALSE)

(* Byte strings: a length and the bytes, or chunks with lengths of their    *)
(* own, up to an empty one.  The empty string is NULL.                      *)
RECURSIVE chunks(_)
chunks(b) ==
  IF Len(b) <= CHUNK_SIZE THEN (IF b = << >> THEN << >> ELSE <<b>>)
  ELSE <<SubSeq(b, 1, CHUNK_SIZE)>> \o chunks(Drop(b, CHUNK_SIZE))

(* Mutant: the chunks are not ended. *)
WriteUnended(b) ==
  IF Len(b) <= MAX_SHORT_LENGTH THEN <<Len(b)>> \o b
  ELSE <<LONG_LENGTH_INDICATOR>>
       \o FlattenSeq([i \in DOMAIN chunks(b) |-> ub4(Len(chunks(b)[i])) \o chunks(b)[i]])

write_bytes(b) ==
  IF Len(b) <= MAX_SHORT_LENGTH THEN <<Len(b)>> \o b
  ELSE <<LONG_LENGTH_INDICATOR>>
       \o FlattenSeq([i \in DOMAIN chunks(b) |-> ub4(Len(chunks(b)[i])) \o chunks(b)[i]])
       \o ub4(0)

RECURSIVE read_chunks(_, _)
read_chunks(out, s) ==
  LET n == read_int(4, s)
      b == bytes(AsSmall(n.v.v), n.rest)
  IN  IF ~n.ok THEN Broken
      ELSE IF n.v.v = Zeros(8) THEN Got(out, n.rest)
      ELSE IF ~b.ok THEN Broken
      ELSE read_chunks(out \o b.v, b.rest)

read_bytes(s) ==
  IF s = << >> THEN Broken
  ELSE CASE s[1] \in {0, NULL_LENGTH_INDICATOR} -> Got(<< >>, Drop(s, 1))
         [] s[1] = LONG_LENGTH_INDICATOR -> read_chunks(<< >>, Drop(s, 1))
         [] OTHER -> bytes(s[1], Drop(s, 1))

(* A string with its length in front, and a key with its value and flags.   *)
str_with_ub4_length(b) == ub4(Len(b)) \o (IF b = << >> THEN << >> ELSE write_bytes(b))
write_key_value(kv) ==
  str_with_ub4_length(kv.key) \o str_with_ub4_length(kv.value) \o write_int(kv.flags, FALSE)

read_string(s) ==
  LET n == read_int(4, s) IN
  IF ~n.ok THEN Broken ELSE IF n.v.v = Zeros(8) THEN Got(<< >>, n.rest) ELSE read_bytes(n.rest)
read_key_value(s) ==
  LET key == read_string(s)
      value == read_string(key.rest)
      flags == read_int(4, value.rest)
  IN  IF key.ok /\ value.ok /\ flags.ok
      THEN Got([key |-> key.v, value |-> value.v, flags |-> flags.v.v], flags.rest) ELSE Broken

-----------------------------------------------------------------------------
(* NUMBERs: the decimal digits in scientific notation (whole, fraction,     *)
(* exponent), a byte for the exponent to base 100 and one for every pair of *)
(* digits; a negative number has complements, and an end marker unless all  *)
(* the digits are there.  One with too many digits has no encoding.         *)
ZeroNumber == [neg |-> FALSE, digits |-> << >>, exp |-> 0]
LeadingZeros(ds) == Max({n \in 0..Len(ds) : \A i \in 1..n : ds[i] = 0})
TrailingZeros(ds) == Max({n \in 0..Len(ds) : \A i \in 1..n : ds[Len(ds) + 1 - i] = 0})

(* digits * 10 ^ exp, without zeros at either end.                          *)
normalized(neg, ds, exp) ==
  LET front == Drop(ds, LeadingZeros(ds))
      t == TrailingZeros(front)
  IN  IF front = << >> THEN ZeroNumber
      ELSE [neg |-> neg, digits |-> SubSeq(front, 1, Len(front) - t), exp |-> exp + t]

Pairs(ds) == [i \in 1..(Len(ds) \div 2) |-> ds[2 * i - 1] * 10 + ds[2 * i]]

encode(x) ==
  LET n == normalized(x.neg, x.whole \o x.frac, x.exp - Len(x.frac))
      odd == n.exp % 2
      even == IF odd = 0 THEN n.digits ELSE Append(n.digits, 0)
      digits == IF Len(even) % 2 = 0 THEN even ELSE <<0>> \o even
      wire == ((n.exp - odd + Len(digits)) \div 2 + 192) % 256
      pairs == Pairs(digits)
  IN
  IF Len(n.digits) > MAX_DIGITS \/ n.exp >= 126 \/ n.exp <= -131 THEN << >>
  ELSE IF n = ZeroNumber THEN <<128>>
  ELSE IF x.neg THEN <<255 - wire>> \o [i \in DOMAIN pairs |-> 101 - pairs[i]]
                     \o (IF Len(digits) < MAX_DIGITS THEN <<102>> ELSE << >>)
  ELSE <<wire>> \o [i \in DOMAIN pairs |-> pairs[i] + 1]

(* The digits after the point and the exponent of what is then parsed; a    *)
(* pair beyond 99 does not give two digits, and what cannot be parsed is 0. *)
decode(b) ==
  LET positive == b[1] >= 128
      exponent == (IF positive THEN b[1] ELSE 255 - b[1]) - 193
      n == IF ~positive /\ b[Len(b)] = 102 THEN Len(b) - 1 ELSE Len(b)
      pair(i) == IF positive THEN b[i] - 1 ELSE 101 - b[i]
      digits == FlattenSeq([i \in 1..(n - 1) |->
                              IF i = 1 /\ pair(2) \div 10 = 0 THEN <<pair(2) % 10>>
                              ELSE <<pair(i + 1) \div 10, pair(i + 1) % 10>>])
      point == exponent * 2 + 2 - (IF pair(2) \div 10 = 0 THEN 1 ELSE 0)
  IN  IF b = << >> THEN ZeroNumber
      ELSE IF Len(b) = 1 THEN (IF positive THEN ZeroNumber
                               ELSE [neg |-> TRUE, digits |-> <<1>>, exp |-> 126])
      ELSE IF \E i \in 2..n : pair(i) > 99 THEN ZeroNumber
      ELSE normalized(~positive, digits, point - Len(digits))

-----------------------------------------------------------------------------
(* Dates: century and year of the century above 100, times above 1, and     *)
(* nanoseconds if asked for and there are any.  Division truncates.         *)
Quot(a, b) == IF a >= 0 THEN a \div b ELSE -((-a) \div b)
Rem(a, b) == a - b * Quot(a, b)

encode_date(d, with_fraction) ==
  <<(Quot(d.year, 100) + 100) % 256, (Rem(d.year, 100) + 100) % 256, d.month, d.day,
    d.hour + 1, d.minute + 1, d.second + 1>>
  \o (IF with_fraction /\ d.nanos # Zeros(4) THEN d.nanos ELSE << >>)

decode_date(b) ==
  LET year == (b[1] - 100) * 100 + b[2] - 100
      nanos == IF Len(b) >= 11 THEN SubSeq(b, 8, 11) ELSE Zeros(4)
  IN  IF Len(b) < 7 \/ b[5] = 0 \/ b[6] = 0 \/ b[7] = 0 THEN Broken
      ELSE IF ~(ValidDate(year, b[3], b[4]) /\ b[5] <= 24 /\ b[6] <= 60 /\ b[7] <= 60) THEN Broken
      ELSE Got([year |-> year, month |-> b[3], day |-> b[4], hour |-> b[5] - 1,
                minute |-> b[6] - 1, second |-> b[7] - 1, nanos |-> nanos], << >>)

-----------------------------------------------------------------------------
(* Rows of values.  A column of no length has no bytes; what cannot be      *)
(* encoded is sent as NULL.                                                 *)
NullOf(t) == [t |-> t, x |-> << >>]
ESCAPE_CHAR == 253
write_value(v) ==
  CASE v.t = "empty" -> << >>
    [] v.t # "empty" /\ v.x = << >> -> <<0>>
    [] v.t = "number" /\ v.x # << >> ->
         IF encode(v.x[1]) = << >> THEN <<0>> ELSE write_bytes(encode(v.x[1]))
    [] v.t \in {"date", "timestamp"} /\ v.x # << >> ->
         write_bytes(encode_date(v.x[1], v.t = "timestamp"))
    [] v.t = "boolean" /\ v.x # << >> -> write_bytes(IF v.x[1] THEN <<1, 1>> ELSE <<0>>)
    [] OTHER -> write_bytes(v.x[1])

read_boolean(s) ==
  IF s = << >> THEN Broken
  ELSE IF s[1] = ESCAPE_CHAR
  THEN LET e == bytes(1, Drop(s, 1)) IN IF e.ok THEN Got(NullOf("boolean"), e.rest) ELSE Broken
  ELSE IF s[1] = 0 THEN Got(NullOf("boolean"), Drop(s, 1))
  ELSE LET b == bytes(s[1], Drop(s, 1)) IN
       IF b.ok THEN Got([t |-> "boolean", x |-> <<b.v[1] = 1>>], b.rest) ELSE Broken

read_value(t, s) ==
  LET b == read_bytes(s)
      d == decode_date(b.v)
  IN
  IF t = "empty" THEN Got(NullOf(t), s)
  ELSE IF t = "boolean" THEN read_boolean(s)
  ELSE IF ~b.ok THEN Broken
  ELSE IF b.v = << >> THEN Got(NullOf(t), b.rest)
  ELSE CASE t = "number" -> Got([t |-> t, x |-> <<decode(b.v)>>], b.rest)
         [] t \in {"date", "timestamp"} ->
              IF d.ok THEN Got([t |-> t, x |-> <<d.v>>], b.rest) ELSE Broken
         [] OTHER -> Got([t |-> t, x |-> <<b.v>>], b.rest)

write_row(row) == <<MSG_ROW_DATA>> \o FlattenSeq([i \in DOMAIN row |-> write_value(row[i])])
read_bind_row(types, s) ==
  IF s = << >> \/ s[1] # MSG_ROW_DATA THEN Broken
  ELSE FoldLeft(LAMBDA acc, t :
                  IF ~acc.ok THEN Broken
                  ELSE LET v == read_value(t, acc.rest) IN
                       IF v.ok THEN Got(Append(acc.v, v.v), v.rest) ELSE Broken,
                Got(<< >>, Drop(s, 1)), types)

-----------------------------------------------------------------------------
(* Packets: a payload goes out in DATA packets that fit the SDU, and comes  *)
(* in as whole packets; the end of the stream within a header is the end,   *)
(* within a body an error.                                                  *)
write_packet(kind, body) ==
  Final(Small(HEADER_LEN + Len(body)), 4) \o <<kind, 0, 0, 0>> \o body
RECURSIVE write_data(_, _)
write_data(sdu, payload) ==
  LET max == sdu - HEADER_LEN - 2
      n == IF Len(payload) < max THEN Len(payload) ELSE max
  IN  IF payload = << >> THEN << >>
      ELSE write_packet(DATA, <<0, 0>> \o SubSeq(payload, 1, n)) \o write_data(sdu, Drop(payload, n))

read_packet(s) ==
  LET len == s[3] * 256 + s[4] IN
  IF Len(s) < HEADER_LEN THEN [k |-> "end", body |-> << >>, rest |-> << >>]
  ELSE IF len < HEADER_LEN \/ len > Len(s) \/ (s[5] = DATA /\ len < HEADER_LEN + 2)
  THEN [k |-> "error", body |-> << >>, rest |-> << >>]
  ELSE [k |-> "packet", body |-> SubSeq(s, HEADER_LEN + 1, len), rest |-> Drop(s, len)]

RECURSIVE read_data(_)
read_data(s) ==
  LET p == read_packet(s) IN
  IF p.k # "packet" THEN [payload |-> << >>, k |-> p.k]
  ELSE LET r == read_data(p.rest) IN [payload |-> Drop(p.body, 2) \o r.payload, k |-> r.k]

-----------------------------------------------------------------------------
(* What is read back of a value: dates lose their fraction, and a number    *)
(* that has no encoding is NULL.                                            *)
NumberOf(x) == normalized(x.neg, x.whole \o x.frac, x.exp - Len(x.frac))
Carries(x) ==
  LET n == NumberOf(x) IN Len(n.digits) <= MAX_DIGITS /\ n.exp < 126 /\ n.exp > -131
Carried(v) ==
  IF v.t = "empty" \/ v.x = << >> THEN NullOf(v.t)
  ELSE LET x == v.x[1] IN
       CASE v.t = "number" ->
              IF ~Carries(x) THEN NullOf("number") ELSE [t |-> v.t, x |-> <<NumberOf(x)>>]
         [] v.t = "date" -> [t |-> v.t, x |-> <<[x EXCEPT !.nanos = Zeros(4)]>>]
         [] OTHER -> v

(* A number of 1e126 or more whose last digit stands below 1e126: it is     *)
(* encoded, but the byte for its exponent overflows and loses the sign.     *)
Overflows(v) ==
  /\ v.t = "number" /\ v.x # << >>
  /\ Carries(v.x[1])
  /\ NumberOf(v.x[1]).exp + Len(NumberOf(v.x[1]).digits) > 126

IntRoundTrips(i) ==
  LET r == read_int(8, write_int(i.v, i.negative) \o i.after) IN
  r = Got([v |-> i.v, negative |-> i.negative /\ i.v # Zeros(8)], i.after)
KeyValueRoundTrips(kv) == read_key_value(write_key_value(kv)) = Got(kv, << >>)
RowRoundTrips(row) ==
  LET got == read_bind_row([i \in DOMAIN row |-> row[i].t], write_row(row)) IN
  /\ got.ok /\ got.rest = << >> /\ DOMAIN got.v = DOMAIN row
  /\ \A i \in DOMAIN row : got.v[i] = Carried(row[i]) <=> ~Overflows(row[i])
(* Of a stream cut short, the packets that are whole are read, and no more. *)
PacketsRoundTrip(p) ==
  LET stream == write_data(p.sdu, p.payload)
      size == p.sdu - HEADER_LEN - 2
      got == read_data(SubSeq(stream, 1, p.cut))
      part == p.cut % p.sdu
  IN  p.cut <= Len(stream) =>
        /\ got.payload = SubSeq(p.payload, 1, IF p.cut = Len(stream) THEN Len(p.payload)
                                              ELSE (p.cut \div p.sdu) * size)
        /\ got.k = IF p.cut = Len(stream) \/ part < HEADER_LEN THEN "end" ELSE "error"
=============================================================================
