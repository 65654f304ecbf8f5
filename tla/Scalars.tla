------------------------------- MODULE Scalars -------------------------------
(***************************************************************************)
(* The scalars of JSON that an index holds, and the order a query means:   *)
(* numeric for numbers, by bytes for strings, none between types.          *)
(***************************************************************************)
EXTENDS Integers, Sequences, FiniteSetsExt

(* A value: type is its JSON type; a number is sign * n/d * 10^power, where *)
(* 2 and 5 are the only primes of d; text is the bytes of a string.        *)
Plain(t) == [type |-> t, sign |-> 0, n |-> 0, d |-> 1, power |-> 0, text |-> <<>>]
Number(s, a, b, p) == [Plain("number") EXCEPT !.sign = s, !.n = a, !.d = b, !.power = p]
String(bytes) == [Plain("string") EXCEPT !.text = bytes]

(* Pebble's default comparer: bytes.Compare.                               *)
Less(s, t) ==
    LET n == Min({Len(s), Len(t)})
        diff == {i \in 1..n : s[i] # t[i]}
    IN  IF diff = {} THEN Len(s) < Len(t) ELSE s[Min(diff)] < t[Min(diff)]

Signed(v) == v.sign * v.n

(* a < b.  Where the powers of ten are far apart the larger one decides;   *)
(* n and d of the values of a run are below 10^3.                          *)
Below(a, b) ==
    LET p == Min({a.power, b.power})
        Up(v) == 10^Min({v.power - p, 4})
    IN  IF a.type = "string" THEN Less(a.text, b.text)
        ELSE Signed(a) * b.d * Up(a) < Signed(b) * a.d * Up(b)

Same(a, b) == a.type = b.type /\ (a.type \in {"string", "number"} => ~Below(a, b) /\ ~Below(b, a))

Matches(op, a, b) ==
    /\ a.type = b.type
    /\ CASE op = "lt" -> Below(a, b) [] op = "le" -> ~Below(b, a)
         [] op = "gt" -> Below(b, a) [] op = "ge" -> ~Below(a, b)

=============================================================================
