----------------------------- MODULE MCExtract -----------------------------
(* Extract with a limit of 2 bytes and sizes of 3 bits: headers that are    *)
(* right, too small, just too large, and negative as a signed number.      *)
EXTENDS Extract

File(size, data) == [named |-> TRUE, kind |-> "regular", size |-> size, data |-> data]
Other(kind)      == [named |-> TRUE, kind |-> kind, size |-> 0, data |-> 0]

SomeEntries ==
    {File(s, d) : s \in {0, 1, 2, 3, 7}, d \in {0, 1, 2, 3, 4}}
        \cup {Other("directory"), [File(1, 1) EXCEPT !.kind = "link"],
              [File(1, 1) EXCEPT !.named = FALSE]}
=============================================================================
