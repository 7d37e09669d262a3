------------------------------ MODULE MCWriting ------------------------------
(* Two calls with the arguments at which the conversions and the checks    *)
(* differ: limits of two or three, names and strings just inside and just  *)
(* outside of them.                                                        *)
EXTENDS Writing

MCLimit == [domain |-> 2, eventName |-> 3, paramName |-> 2, params |-> 2, str |-> 2,
            specialStr |-> 3, list |-> 1, customParams |-> 2, customStr |-> 2]
MCSpecialNames == {<<"a", "a">>}

A == <<"a">>
B == <<"$", "1">>
C == <<"a", "a">>
TooLong == <<"a", "a", "a">>
Bad == <<"1">>

S(len, special) == [len |-> len, special |-> special, escapes |-> 0]
V(kind, size, strs) == [kind |-> kind, size |-> size, strs |-> strs]
P(name, value) == [name |-> name, value |-> value]
One  == V("scalar", 0, <<>>)
Str(len, special) == V("string", 0, <<S(len, special)>>)
Strs(strs) == V("strings", Len(strs), strs)
E(params) == [whole |-> TRUE, domain |-> A, name |-> A, params |-> params]

MCEvents == {
    E(<<P(C, One), P(A, Str(2, 1))>>),                      \* fits
    E(<<P(A, Str(3, 0)), P(C, Str(3, 1))>>),                \* too long but for "crash"
    E(<<P(A, V("list", 2, <<>>)), P(B, Strs(<<S(1, 1), S(1, 0)>>))>>), \* lists to cut
    E(<<P(A, Strs(<<S(1, 0), S(1, 0), S(3, 0)>>))>>),       \* the C library does not see the end
    E(<<P(A, V("list", 0, <<>>)), P(Bad, One)>>),           \* an empty array, a bad name
    E(<<P(A, One), P(A, Str(1, 0))>>),                      \* a duplicate
    E(<<P(C, One), P(B, One), P(A, One)>>),                 \* too many
    E(<<P(TooLong, One), P(A, One)>>),                      \* a long key
    E(<<P(A, One), P(B, V("other", 0, <<>>)), P(C, One)>>), \* an object or a null pointer
    E(<<P(A, V("mixed", 2, <<>>))>>),
    [E(<<P(A, One)>>) EXCEPT !.whole = FALSE],
    [E(<<P(A, One)>>) EXCEPT !.name = <<"a", ".", "a">>],
    [E(<<P(A, One)>>) EXCEPT !.domain = B] }

MCParamSets == {
    E(<<P(A, One)>>),
    E(<<P(B, One), P(C, Str(2, 1))>>),
    E(<<P(A, One), P(TooLong, One)>>),
    E(<<P(A, Strs(<<S(1, 1), S(1, 0)>>))>>),
    E(<<P(A, V("other", 0, <<>>)), P(B, One)>>),            \* an unknown type of Cangjie
    [E(<<P(C, One)>>) EXCEPT !.name = <<>>] }
==============================================================================
