--------------------------- MODULE MCUserArguments ---------------------------
(* Command lines around the limits: 0 to 3 are ids, 1 to 4 amounts, and a   *)
(* word has 16 values; 17 and -15 are 1 modulo 16.  A delay may be up to 2. *)
EXTENDS UserArguments

MCNumbers == {-1, 0, 1, 3, 4, 5, 15, 16, 17, -15}
MCLengths == {1, 2, 3, 4}
MCArgument(ns, ls) == [number : ns, length : ls]

MCArguments ==
    {<<>>}
    \cup {<<a>> : a \in MCArgument({1}, {2})}
    \cup {<<a, b>> : a \in MCArgument(MCNumbers, {2}), b \in MCArgument(MCNumbers, {2})}
    \cup {<<a, b, c>> : a \in MCArgument(MCNumbers, {2}), b \in MCArgument(MCNumbers, {2}),
                        c \in MCArgument({0}, MCLengths)}
    \cup {<<a, a, a, a>> : a \in MCArgument({1}, {2})}

MCCommandLines ==
    [complete : {TRUE}, id : MCNumbers, length : MCLengths, delay : {-1, 2, 3},
     op : -1 .. 4 \cup {16}, args : MCArguments]
    \cup [complete : {FALSE}, id : {1}, length : {2}, delay : {0}, op : {1}, args : {<<>>}]

=============================================================================
