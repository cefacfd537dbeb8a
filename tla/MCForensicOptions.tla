-------------------------- MODULE MCForensicOptions --------------------------
(* Six kinds of arguments: the flags, a list of algorithms and a name. *)
EXTENDS ForensicOptions, SequencesExt

MCLists == {"md5"}
MCWords == Flags \cup MCLists \cup {"name"}

(* The usage line as a set: sequences of options, each once, and a name. *)
Options ==
    {<<"-r">>, <<"-v">>} \cup {<<"-h", l>> : l \in Lists} \cup {<<"-o", w>> : w \in Words \ Flags}
Orders == {s \in SeqOf(Options, 4) : IsInjective([i \in DOMAIN s |-> s[i][1]])}
Calls == {FlattenSeq(s) \o <<w>> : s \in Orders, w \in Words \ Flags}

(* IsCall describes these. *)
ASSUME CallsAreCalls ==
    \A n \in 0 .. MaxArgs : \A a \in [1 .. n -> Words] : IsCall(a) <=> a \in Calls

=============================================================================
