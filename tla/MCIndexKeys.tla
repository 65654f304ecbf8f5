----------------------------- MODULE MCIndexKeys -----------------------------
(* A small instance of IndexKeys for TLC.                                  *)
EXTENDS IndexKeys

(* Names of which one begins the other, and names of indexes that put      *)
(* together with them read the same: a + ba, ab + a.                       *)
Names == {<<97>>, <<97, 98>>}
IndexNames == {<<97>>, <<98, 97>>}
IDs == {<<48>>, <<102>>}
OneName == {<<97>>}
OneID == {<<48>>}

TwoValues == {Plain("null"), Number(-1, 1, 1, 0)}

(* Values of each type: numbers either side of zero and of each other,     *)
(* with equal digits at another exponent, and strings of which one begins  *)
(* the other and a zero byte follows.                                      *)
FewValues ==
    {Plain("null"), Plain("false"), Plain("true"), Plain("number")}
    \cup {Number(s, 1, d, 0) : s \in {-1, 1}, d \in {1, 2}}
    \cup {Number(s, 1, 1, 1) : s \in {-1, 1}}
    \cup {String(s) : s \in {<<>>, <<97>>, <<97, 0>>, <<97, 97>>}}

(* Numbers with the same digits at other exponents, digits that begin      *)
(* others, two forms of the same number, and exponents where the bytes of  *)
(* the exponent carry or borrow; the last ones are too long.               *)
Numbers ==
    {Plain("number")}
    \cup {Number(s, n, 1, p) : s \in {-1, 1}, n \in {1, 10, 12}, p \in {-257, -256, -128, -1, 0, 1, 127, 255, 256}}
    \cup {Number(s, n, d, 0) : s \in {-1, 1}, n \in {1, 3, 9}, d \in {2, 4, 5, 8}}
    \cup {Number(s, 1, 1, p) : s \in {-1, 1}, p \in {298, 299}}

(* Strings over a zero byte, its successor and a letter, and the longest    *)
(* strings of zeros: with a limit of 300 the last is too long.             *)
Strings ==
    {String(s) : s \in BoundedSeq({0, 1, 97}, 3)}
    \cup {String([i \in 1..n |-> 0]) : n \in {298, 299, 300}}

AllValues == TwoValues \cup FewValues \cup Numbers \cup Strings

(* A document with any number, or with any string; documents of databases  *)
(* and of indexes whose names begin each other; two documents of one       *)
(* index, read from every cursor.                                          *)
SomeLoads ==
    {[databases |-> OneName, indexes |-> OneName, ids |-> OneID, values |-> Numbers,
      cursors |-> {}, docs |-> 1],
     [databases |-> OneName, indexes |-> OneName, ids |-> OneID, values |-> Strings,
      cursors |-> {}, docs |-> 1],
     [databases |-> Names, indexes |-> IndexNames, ids |-> IDs, values |-> TwoValues,
      cursors |-> {}, docs |-> 2],
     [databases |-> OneName, indexes |-> OneName, ids |-> IDs, values |-> FewValues,
      cursors |-> {v \in FewValues : v.type \in {"number", "string"}}, docs |-> 2]}
=============================================================================
