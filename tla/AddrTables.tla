---------------------------- MODULE AddrTables -----------------------------
(* What the address manager promises of the hosts it knows: a host is        *)
(* unknown, in the "new" table or in the "tried" table.  To learn of a host  *)
(* may cost one new host its place, a host found good may push one tried     *)
(* host back among the new ones, and a tried host is never forgotten.        *)
CONSTANT Host
VARIABLE table          \* Host -> the table it is in

Init == table = [h \in Host |-> "unknown"]

\* The hosts of S move from one table to another.
Moved(t, S, to) == [h \in Host |-> IF h \in S THEN to ELSE t[h]]
AtMostOne(S) == \A g, h \in S : g = h
In(t, name) == {h \in Host : t[h] = name}

Forgotten == {S \in SUBSET In(table, "new") : AtMostOne(S)}

\* A host is learned, or seen in one more bucket; a full bucket forgets one.
Learn(h) ==
    /\ table[h] # "tried"
    /\ \E S \in Forgotten :
        /\ h \notin S
        /\ table' = Moved(Moved(table, S, "unknown"), {h}, "new")

\* A connection to the host succeeded; a full bucket gives one host back.
Promote(h) ==
    /\ table[h] = "new"
    /\ \E S \in {R \in SUBSET In(table, "tried") : AtMostOne(R)} :
        table' = Moved(Moved(table, S, "new"), {h}, "tried")

Next == \E h \in Host : Learn(h) \/ Promote(h)

Spec == Init /\ [][Next]_table
=============================================================================
