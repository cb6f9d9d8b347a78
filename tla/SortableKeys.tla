---------------------------- MODULE SortableKeys ----------------------------
(* Binary keys of the records of a sequence. Stores and scans compare keys byte by byte, so the encoding of a list of
   field values has to sort like the list itself, also if the list is cut short to be a bound of a scan. Fields are
   integers, signed or not, in a fixed number of bytes, or in as many as needed after a byte that tells their number;
   references are encoded by their id. A byte has Base values here, 256 in the code. *)
EXTENDS Integers, SequencesExt, FiniteSetsExt

CONSTANTS Base,         \* bound: values of a byte
          MaxBytes,     \* bound: length of an integer
          Null,         \* what the code 0 of a field of fixed length stands for
          Full          \* the key above all keys

KeysAssumption == Base \in Nat /\ Base > 1 /\ Base % 2 = 0 /\ MaxBytes \in Nat \ {0}

\* Binary.compare()
Sign(n) == IF n < 0 THEN -1 ELSE IF n > 0 THEN 1 ELSE 0
Compare(x, y) ==
    IF x = Full \/ y = Full THEN IF x = y THEN 0 ELSE IF x = Full THEN 1 ELSE -1
    ELSE LET common  == 1 .. Min({Len(x), Len(y)})
             differs == {i \in common : x[i] # y[i]}
         IN IF differs # {} THEN Sign(x[Min(differs)] - y[Min(differs)]) ELSE Sign(Len(x) - Len(y))

\* An integer in n bytes, the highest first; what does not fit is cut off.
Bytes(v) == Min({n \in 1 .. MaxBytes : v < Base ^ n})
Digits_LowFirst(v, n) == [i \in 1 .. n |-> (v \div Base ^ (i - 1)) % Base]      \* mutant: the lowest byte first
Digits(v, n) == [i \in 1 .. n |-> (v \div Base ^ (n - i)) % Base]
Number(bytes) == FoldLeft(LAMBDA v, b : v * Base + b, 0, bytes)

\* encode_uint(): 0 bytes stand for null after a length, and the code 0 in a field of fixed length
EncodeUint(v, length) ==
    IF length = 0 THEN LET n == IF v = Null THEN 0 ELSE Bytes(v) IN <<n>> \o Digits(v, n)
    ELSE Digits(IF v = Null THEN 0 ELSE v + 1, length)
DecodeUint(input, length) ==
    LET n    == IF length = 0 THEN Head(input) ELSE length
        rest == IF length = 0 THEN Tail(input) ELSE input
        v    == Number(SubSeq(rest, 1, n))
    IN [value |-> IF length = 0 THEN IF n = 0 THEN Null ELSE v
                  ELSE IF v = 0 THEN Null ELSE v - 1,
        rest  |-> SubSeq(rest, n + 1, Len(rest))]

\* encode_int(): a signed integer is shifted to be an unsigned one; a null minus a number is minus the number
Shift(length) == Base ^ length \div 2
EncodeInt(v, length) == EncodeUint(v + Shift(length), length)
DecodeInt(input, length) ==
    LET x == DecodeUint(input, length)
    IN [x EXCEPT !.value = (IF x.value = Null THEN 0 ELSE x.value) - Shift(length)]

\* write_binary() and read_binary() of a field
Write(type, v) == IF type.signed THEN EncodeInt(v, type.length) ELSE EncodeUint(v, type.length)
Read(type, input) == IF type.signed THEN DecodeInt(input, type.length) ELSE DecodeUint(input, type.length)

\* encode_key() of the values of all fields, or of the first ones; decode_key() of those of all fields
EncodeKey(types, key) == FlattenSeq([i \in DOMAIN key |-> Write(types[i], key[i])])
DecodeKey(types, input) ==
    FoldLeft(LAMBDA x, type : LET y == Read(type, x.rest) IN [key |-> Append(x.key, y.value), rest |-> y.rest],
             [key |-> << >>, rest |-> input], types).key

----------------------------------------------------------------------------
\* What the lists are compared by: the first field that differs, and a list before those that it is cut short from
Order(a, b) == Compare(a, b)

\* Values that INTEGER.validate() lets through and the bytes of the field can hold: not the highest one of a field of
\* fixed length, whose code is that of null.
Fits(type, v) == IF type.signed THEN v >= -Shift(type.length) /\ v < Shift(type.length) - 1
                 ELSE v >= 0 /\ (type.length # 0 => v < Base ^ type.length - 1)
AllFit(types, key) == \A i \in DOMAIN key : Fits(types[i], key[i])

\* Two keys, full ones or bounds, sort like their values, and a full key is read back as it was.
KeySortsAmong(types, a, others) ==
    AllFit(types, a) =>
        /\ \A b \in others : AllFit(types, b) => Compare(EncodeKey(types, a), EncodeKey(types, b)) = Order(a, b)
        /\ Len(a) = Len(types) => DecodeKey(types, EncodeKey(types, a)) = a
=============================================================================
