------------------------------ MODULE IndexKeys ------------------------------
(***************************************************************************)
(* The store's key space, byte by byte.  Databases, documents, index       *)
(* definitions and index entries all live in one ordered map from byte     *)
(* strings; every list, query and deletion is a range of it.  keys is that *)
(* map's domain as the code writes it, dbs is what was stored: each answer *)
(* read back from keys must be the one dbs gives.                          *)
(***************************************************************************)
EXTENDS Scalars, FiniteSets, SequencesExt, Functions

CONSTANTS
    Database, Index,    \* names, byte sequences of 1 to 63 bytes
    ID,                 \* document IDs, byte sequences of one length
    Values,             \* indexable values that documents and queries hold
    maxIndexValue,      \* 4096 in the code
    Missing,            \* a document has nothing at an index's path
    Loads               \* bound: what the clients of one behaviour use

ASSUME KeysAssumption ==
    /\ \A s \in Database \cup Index \cup ID : Len(s) \in 1..63 /\ 0 \notin Range(s)
    /\ \A i, j \in ID : Len(i) = Len(j)
    /\ maxIndexValue \in 1..32767
    /\ \A l \in Loads : /\ l.databases \subseteq Database /\ l.indexes \subseteq Index
                        /\ l.ids \subseteq ID /\ l.cursors \subseteq l.values
                        /\ l.values \subseteq Values /\ l.docs \in Nat

VARIABLES
    load,   \* the load of the behaviour, which never changes
    dbs,    \* what the databases hold, by name of an existing database
    keys,   \* the keys in Pebble
    last    \* the last call's error, and the values it was refused for

vars == <<load, dbs, keys, last>>

maxEncodedIndexValue == 2 * maxIndexValue + 1

-----------------------------------------------------------------------------
(* Byte strings.                                                           *)

AtMost(s, t) == s = t \/ Less(s, t)
Rest(s, n) == SubSeq(s, n + 1, Len(s))

prefixEnd(prefix) ==
    LET i == CHOOSE j \in DOMAIN prefix : prefix[j] # 255 /\ \A k \in j + 1..Len(prefix) : prefix[k] = 255
    IN  SubSeq(prefix, 1, i - 1) \o <<prefix[i] + 1>>

Within(lower, upper) == {k \in keys : AtMost(lower, k) /\ Less(k, upper)}
Prefixed(prefix) == Within(prefix, prefixEnd(prefix))
Ascending(K) == SetToSortSeq(K, Less)

-----------------------------------------------------------------------------
(* Numbers.  A big.Rat is m * 2^x * 5^y, where m has neither factor.       *)

Power(p, n) == CHOOSE k \in 0..31 : n % p^k = 0 /\ n % p^(k + 1) # 0
Positive(k) == Max({0, k})

Rat(v) ==
    [m |-> v.n \div (2^Power(2, v.n) * 5^Power(5, v.n)),
     x |-> Power(2, v.n) - Power(2, v.d) + v.power,
     y |-> Power(5, v.n) - Power(5, v.d) + v.power]

Decimal(n) ==
    LET len == CHOOSE k \in 1..10 : n < 10^k /\ (k = 1 \/ n >= 10^(k - 1))
    IN  [i \in 1..len |-> (n \div 10^(len - i)) % 10]

(* Decimal digits of m * 2^a * 5^b: a number without a final zero, then    *)
(* that many zeros.                                                        *)
Zeros(a, b) == Min({a, b})
Stripped(m, a, b) == Decimal(m * 2^(a - Zeros(a, b)) * 5^(b - Zeros(a, b)))
Digits(m, a, b) == Len(Stripped(m, a, b)) + Zeros(a, b)

(* len(number.RatString()).                                                *)
RatLen(v) ==
    LET r == Rat(v)
        denominator == r.x < 0 \/ r.y < 0
    IN  IF v.sign = 0 THEN 1
        ELSE (IF v.sign < 0 THEN 1 ELSE 0)
             + Digits(r.m, Positive(r.x), Positive(r.y))
             + (IF denominator THEN 1 + Digits(1, Positive(-r.x), Positive(-r.y)) ELSE 0)

(* Big-endian two's complement in 64 bits, its sign bit flipped.           *)
PutExponent(e) ==
    LET sign == IF e < 0 THEN 255 ELSE 0
    IN  <<(sign + 128) % 256, sign, sign, sign, sign, sign, (e \div 256) % 256, e % 256>>

Complement(bytes) == [i \in DOMAIN bytes |-> 255 - bytes[i]]

(* Mutant: the exponent does not count the zeros taken off the digits.     *)
encodeKeepScale(v) ==
    LET r == Rat(v)
        scale == Max({Positive(-r.x), Positive(-r.y)})
        digits == Stripped(r.m, r.x + scale, r.y + scale)
        encoded == PutExponent(Len(digits) - scale) \o [i \in DOMAIN digits |-> digits[i] + 1] \o <<0>>
    IN  IF v.sign = 0 THEN <<1>>
        ELSE IF v.sign > 0 THEN <<2>> \o encoded ELSE <<0>> \o Complement(encoded)

encodeSortableNumber(v) ==
    LET r == Rat(v)
        twos == Positive(-r.x)
        fives == Positive(-r.y)
        scale == Max({twos, fives})
        digits == Stripped(r.m, r.x + scale, r.y + scale)
        exponent == Len(digits) - (scale - Zeros(r.x + scale, r.y + scale))
        encoded == PutExponent(exponent) \o [i \in DOMAIN digits |-> digits[i] + 1] \o <<0>>
    IN  IF v.sign = 0 THEN <<1>>
        ELSE IF v.sign > 0 THEN <<2>> \o encoded ELSE <<0>> \o Complement(encoded)

(* The exponent of bytes, or one above every limit when it needs more than *)
(* 16 bits.                                                                *)
Exponent(bytes) ==
    LET high == [i \in 1..6 |-> IF i = 1 THEN (bytes[1] + 128) % 256 ELSE bytes[i]]
        low == 256 * bytes[7] + bytes[8]
    IN  CASE Range(high) = {0} -> low
          [] Range(high) = {255} -> low - 65536
          [] OTHER -> 65536

validSortableNumber(value) ==
    LET len == Len(value)
        plain == IF value[1] = 0 THEN Complement(Tail(value)) ELSE Tail(value)
        exponent == Exponent(SubSeq(plain, 1, 8))
        digits == SubSeq(plain, 9, len - 2)
    IN  IF len = 1 THEN value[1] = 1
        ELSE /\ len >= 11 /\ value[1] \in {0, 2}
             /\ exponent \in -maxIndexValue..maxIndexValue
             /\ len - 10 <= maxIndexValue
             /\ Last(plain) = 0 /\ digits[1] # 1 /\ Last(digits) # 1
             /\ Range(digits) \subseteq 1..10

-----------------------------------------------------------------------------
(* Strings.                                                                *)

(* escaped[i, j] are the bytes after i up to j, put together by halves.     *)
encodeSortableString(bytes) ==
    LET escaped[i, j \in 0..Len(bytes)] ==
            CASE i >= j -> <<>>
              [] i + 1 = j -> IF bytes[j] = 0 THEN <<0, 255>> ELSE <<bytes[j]>>
              [] OTHER -> escaped[i, (i + j) \div 2] \o escaped[(i + j) \div 2, j]
    IN  escaped[0, Len(bytes)] \o <<0, 0>>

(* The length up to and with the first 00 00, 0 when there is none or a    *)
(* 00 comes before it that 255 does not follow.  A 00 is never the second  *)
(* byte of an escape, so the scan meets each of them.                      *)
stringEnd(value) ==
    LET stops == {i \in DOMAIN value : value[i] = 0 /\ (i < Len(value) => value[i + 1] # 255)}
        i == Min(stops)
    IN  IF stops # {} /\ i < Len(value) /\ value[i + 1] = 0 THEN i + 1 ELSE 0

validSortableString(value) ==
    LET escapes == Cardinality({i \in 1..Len(value) - 1 : value[i] = 0 /\ value[i + 1] = 255})
    IN  /\ value # <<>> /\ stringEnd(value) = Len(value)
        /\ Len(value) - 2 - escapes + 1 <= maxIndexValue

-----------------------------------------------------------------------------
(* Encoded values.                                                         *)

(* Mutant: one byte too few for a string of zeros as long as allowed.      *)
validShort(value) ==
    /\ value # <<>> /\ Len(value) < maxEncodedIndexValue
    /\ CASE value[1] \in 0..2 -> Len(value) = 1
         [] value[1] = 3 -> validSortableNumber(Tail(value))
         [] value[1] = 4 -> validSortableString(Tail(value))

validIndexValue(value) ==
    /\ value # <<>> /\ Len(value) <= maxEncodedIndexValue
    /\ CASE value[1] \in 0..2 -> Len(value) = 1
         [] value[1] = 3 -> validSortableNumber(Tail(value))
         [] value[1] = 4 -> validSortableString(Tail(value))

TooLarge == <<>>

encodeIndexValue(v) ==
    LET encoded == CASE v.type = "null" -> <<0>>
                     [] v.type = "false" -> <<1>>
                     [] v.type = "true" -> <<2>>
                     [] v.type = "number" -> <<3>> \o encodeSortableNumber(v)
                     [] v.type = "string" -> <<4>> \o encodeSortableString(v.text)
        large == \/ v.type = "number" /\ RatLen(v) + 1 > maxIndexValue
                 \/ v.type = "string" /\ Len(v.text) + 1 > maxIndexValue
    IN  IF ~large /\ validIndexValue(encoded) THEN encoded ELSE TooLarge

(* Each value's encoding, worked out once.                                 *)
Encoding == [v \in Values |-> encodeIndexValue(v)]

-----------------------------------------------------------------------------
(* Keys.  A name has at most 63 bytes, so its uvarint length is one byte.  *)

(* Mutant: a part is written without its length.                           *)
appendBare(key, part) == key \o part

appendPart(key, part) == key \o <<Len(part)>> \o part

NoPart == [part |-> <<>>, rest |-> <<>>, ok |-> FALSE]

readPart(key) ==
    IF key = <<>> \/ key[1] > Len(key) - 1 THEN NoPart
    ELSE [part |-> SubSeq(key, 2, key[1] + 1), rest |-> Rest(key, key[1] + 1), ok |-> TRUE]

(* Mutant: nothing ends a database's name in the key of a document.        *)
docsUnended(database) == <<2>> \o database

dbKey(name) == <<1>> \o name
docsPrefix(database) == <<2>> \o database \o <<0>>
docKey(database, id) == docsPrefix(database) \o id
indexDefPrefix(database) == appendPart(<<3>>, database)
indexDefKey(database, index) == appendPart(indexDefPrefix(database), index)
indexDataPrefix(database) == appendPart(<<4>>, database)
indexTypePrefix(database, index, type) == appendPart(indexDataPrefix(database), index) \o <<type>>
indexValuePrefix(database, index, value) == appendPart(indexDataPrefix(database), index) \o value
indexKey(database, index, value, id) == indexValuePrefix(database, index, value) \o id

NoEntry == [value |-> <<>>, id |-> <<>>, ok |-> FALSE]

splitIndexEntry(prefix, key) ==
    LET rest == Rest(key, Len(prefix))
        position == SelectInSeq(Rest(rest, 9), LAMBDA b : b = IF rest[1] = 0 THEN 255 ELSE 0)
        end == CASE Last(prefix) = 3 /\ rest # <<>> /\ rest[1] = 1 -> 1
                 [] /\ Last(prefix) = 3 /\ rest # <<>> /\ rest[1] \in {0, 2}
                    /\ Len(rest) >= 11 /\ position > 1 -> 9 + position
                 [] Last(prefix) = 4 -> stringEnd(rest)
                 [] OTHER -> 0
        value == <<Last(prefix)>> \o SubSeq(rest, 1, end)
    IN  IF IsPrefix(prefix, key) /\ end > 0 /\ validIndexValue(value)
        THEN [value |-> value, id |-> Rest(rest, end), ok |-> TRUE]
        ELSE NoEntry

-----------------------------------------------------------------------------
(* Reads.                                                                  *)

listDBs == [i \in 1..Cardinality(Prefixed(<<1>>)) |-> Tail(Ascending(Prefixed(<<1>>))[i])]

listDocs(database) ==
    LET found == Ascending(Prefixed(docsPrefix(database)))
    IN  [i \in DOMAIN found |-> Rest(found[i], Len(docsPrefix(database)))]

indexes(database) ==
    LET prefix == indexDefPrefix(database)
    IN  {readPart(Rest(k, Len(prefix))) : k \in Prefixed(prefix)}

(* IDs of the documents with a value, in the order of the index: all pages *)
(* together, without the cursor and the limit of one.                      *)
queryDocs(database, index, encoded) ==
    LET prefix == indexValuePrefix(database, index, encoded)
        found == Ascending(Prefixed(prefix))
    IN  [i \in DOMAIN found |-> Rest(found[i], Len(prefix))]

rangeBounds(op, typePrefix, boundary) ==
    [lower |-> CASE op = "gt" -> prefixEnd(boundary) [] op = "ge" -> boundary [] OTHER -> typePrefix,
     upper |-> CASE op = "lt" -> boundary [] op = "le" -> prefixEnd(boundary)
                 [] OTHER -> prefixEnd(typePrefix)]

(* Mutant: the entry sought is returned again.                             *)
SeekAgain(K, key) == {k \in K : AtMost(key, k)}

(* SeekGE to the cursor's key, and past it when it is there.               *)
SeekPast(K, key) == {k \in K : Less(key, k)}

(* The rest of a range query, from its start when after is <<>>.           *)
queryRangePage(database, index, op, encoded, after) ==
    LET typePrefix == indexTypePrefix(database, index, encoded[1])
        bounds == rangeBounds(op, typePrefix, indexValuePrefix(database, index, encoded))
        all == Within(bounds.lower, bounds.upper)
        found == Ascending(IF after = <<>> THEN all
                           ELSE SeekPast(all, indexKey(database, index, after[1], after[2])))
    IN  [i \in DOMAIN found |-> splitIndexEntry(typePrefix, found[i])]

-----------------------------------------------------------------------------
(* Writes: each is one batch.                                              *)

Fields == [load.indexes -> load.values \cup {Missing}]

Init == load \in Loads /\ dbs = << >> /\ keys = {} /\ last = [err |-> "nil", given |-> {}]

Done == last' = [err |-> "nil", given |-> {}]
Refused(err, given) == last' = [err |-> err, given |-> given] /\ UNCHANGED <<dbs, keys>>

Docs == {<<d, id>> \in Database \X ID : d \in DOMAIN dbs /\ id \in DOMAIN dbs[d].docs}

createDB(name, defs) ==
    \/ name \in DOMAIN dbs /\ Refused("errDBExists", {})
    \/ /\ name \notin DOMAIN dbs
       /\ dbs' = (name :> [defs |-> defs, docs |-> << >>]) @@ dbs
       /\ keys' = keys \cup {dbKey(name)} \cup {indexDefKey(name, i) : i \in defs}
       /\ Done

deletedRanges(name) ==
    Prefixed(docsPrefix(name)) \cup Prefixed(indexDataPrefix(name)) \cup Prefixed(indexDefPrefix(name))

deleteDB(name) ==
    \/ name \notin DOMAIN dbs /\ Refused("errDBNotFound", {})
    \/ /\ name \in DOMAIN dbs
       /\ dbs' = Restrict(dbs, DOMAIN dbs \ {name})
       /\ keys' = keys \ ({dbKey(name)} \cup deletedRanges(name))
       /\ Done

(* The indexed values of a document, by index.                             *)
Indexed(database, fields) == {i \in dbs[database].defs : fields[i] # Missing}
indexValues(database, fields) == [i \in Indexed(database, fields) |-> Encoding[fields[i]]]

Entries(database, id, values) ==
    {indexKey(database, i, values[i], id) : i \in DOMAIN values}

staleEntries(old, next) == {i \in DOMAIN old : i \notin DOMAIN next \/ next[i] # old[i]}

(* createDoc and replaceDoc; a new document has no old entries.            *)
putDoc(database, id, fields) ==
    LET docs == dbs[database].docs
        next == indexValues(database, fields)
        old == IF id \in DOMAIN docs THEN indexValues(database, docs[id]) ELSE << >>
        stale == staleEntries(old, next)
        given == {fields[i] : i \in Indexed(database, fields)}
    IN  /\ database \in DOMAIN dbs
        /\ id \in DOMAIN docs \/ Cardinality(Docs) < load.docs
        /\ \/ TooLarge \in Range(next) /\ Refused("errInvalidIndexValue", given)
           \/ /\ TooLarge \notin Range(next)
              /\ dbs' = [dbs EXCEPT ![database].docs = (id :> fields) @@ docs]
              /\ keys' = (keys \ Entries(database, id, Restrict(old, stale)))
                         \cup {docKey(database, id)} \cup Entries(database, id, next)
              /\ Done

deleteDoc(database, id) ==
    LET docs == dbs[database].docs
    IN  /\ <<database, id>> \in Docs
        /\ dbs' = [dbs EXCEPT ![database].docs = Restrict(docs, DOMAIN docs \ {id})]
        /\ keys' = keys \ ({docKey(database, id)}
                           \cup Entries(database, id, indexValues(database, docs[id])))
        /\ Done

Next ==
    /\ \/ \E d \in load.databases, defs \in SUBSET load.indexes : createDB(d, defs)
       \/ \E d \in load.databases : deleteDB(d)
       \/ \E d \in load.databases, id \in load.ids, f \in Fields : putDoc(d, id, f)
       \/ \E d \in load.databases, id \in load.ids : deleteDoc(d, id)
    /\ UNCHANGED load

Spec == Init /\ [][Next]_vars

-----------------------------------------------------------------------------
(* The reference: what dbs holds, in the order of Scalars.                 *)

(* What an index holds: pairs of a value and the ID of its document.       *)
Holds(d, i) ==
    {<<dbs[d].docs[id][i], id>> : id \in {id \in DOMAIN dbs[d].docs : dbs[d].docs[id][i] # Missing}}

Before(p, q) == Below(p[1], q[1]) \/ (~Below(q[1], p[1]) /\ Less(p[2], q[2]))

Indices == {<<d, i>> \in Database \X Index : d \in DOMAIN dbs /\ i \in dbs[d].defs}
Accepted == {v \in load.values : Encoding[v] # TooLarge}
Ordered == {v \in Accepted : v.type \in {"number", "string"}}
Ops == {"lt", "le", "gt", "ge"}

-----------------------------------------------------------------------------
(* The lists of databases, of documents and of index definitions read from *)
(* the ordered keys give back each database's own, in order, whatever      *)
(* other names begin with its name and whatever was deleted; and no index  *)
(* entry outlives its document or its database (docKey, indexDefKey,       *)
(* indexKey, and the ranges deleteDB deletes).                             *)
ListsExact ==
    /\ listDBs = Ascending(DOMAIN dbs)
    /\ \A d \in Database :
          LET here == d \in DOMAIN dbs
          IN  /\ listDocs(d) = IF here THEN Ascending(DOMAIN dbs[d].docs) ELSE <<>>
              /\ indexes(d) = IF here THEN {[part |-> i, rest |-> <<>>, ok |-> TRUE] : i \in dbs[d].defs}
                              ELSE {}
    /\ Cardinality(Prefixed(<<4>>)) = FoldSet(LAMBDA x, n : n + Cardinality(Holds(x[1], x[2])), 0, Indices)

(* An equality query finds exactly the documents whose value is the one    *)
(* asked for, by ID, also where one value was written 10e1 and another     *)
(* 1e2 (queryDocsCtx over indexValuePrefix).                               *)
EqualExact ==
    \A x \in Indices, v \in Accepted :
        queryDocs(x[1], x[2], Encoding[v])
            = Ascending({p[2] : p \in {q \in Holds(x[1], x[2]) : Same(q[1], v)}})

(* A range query finds exactly the documents whose value has the type and  *)
(* the relation asked for, in the order of their values and then of their  *)
(* IDs, and splitIndexEntry gives back each entry's value and ID           *)
(* (encodeSortableNumber, encodeSortableString, the bounds of              *)
(* queryRangePage).                                                        *)
RangeExact ==
    \A x \in Indices, v \in Ordered, op \in Ops :
        LET want == SetToSortSeq({q \in Holds(x[1], x[2]) : Matches(op, q[1], v)}, Before)
        IN  queryRangePage(x[1], x[2], op, Encoding[v], <<>>)
                = [k \in DOMAIN want |-> [value |-> Encoding[want[k][1]], id |-> want[k][2], ok |-> TRUE]]

(* A range query resumed after any value and ID, still stored or not, goes *)
(* on with exactly the matching documents that come after (SeekGE to the   *)
(* cursor's key in queryRangePage).                                        *)
ResumeExact ==
    \A x \in Indices, v \in Ordered, a \in load.cursors, id \in load.ids, op \in Ops :
        a.type = v.type =>
        LET want == SetToSortSeq({q \in Holds(x[1], x[2]) : Matches(op, q[1], v) /\ Before(<<a, id>>, q)},
                                 Before)
            page == queryRangePage(x[1], x[2], op, Encoding[v], <<Encoding[a], id>>)
        IN  [k \in DOMAIN page |-> page[k].id] = [k \in DOMAIN want |-> want[k][2]]

(* A document is refused only for a string of maxIndexValue bytes or more, *)
(* or a number as long as that; a string of zeros one byte shorter, the    *)
(* longest to encode, is stored (encodeIndexValue, maxEncodedIndexValue).  *)
RefusedOnlyLarge ==
    last.err = "errInvalidIndexValue" =>
        \E v \in last.given : \/ v.type = "string" /\ Len(v.text) >= maxIndexValue
                              \/ v.type = "number" /\ RatLen(v) >= maxIndexValue
=============================================================================
