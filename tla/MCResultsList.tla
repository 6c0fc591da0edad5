---- MODULE MCResultsList ----
\* Files of up to seven entries, of two scans that found different addresses;
\* one whose header counts three entries more than the card had room for, and
\* one whose header could not be rewritten.
EXTENDS ResultsList

Whole(n, s) == [count |-> n, ents |-> [k \in 1 .. n |-> s + k]]
MCFiles == {Whole(n, s) : n \in 0 .. 7, s \in {0, 10}}
             \cup {[count |-> 6, ents |-> <<1, 2, 3>>], [count |-> 0, ents |-> <<1, 2, 3>>]}
====
