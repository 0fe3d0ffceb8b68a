---------------------------- MODULE MCSvmMessage ----------------------------
(* Instances of SvmMessage for TLC. *)
EXTENDS SvmMessage

\* Three account keys in a fixed order; one or two instructions with up to
\* three accounts each, the same account several times included.
MCSolanaTxs ==
    {[keys |-> <<"p", "q", "r">>, ixs |-> ixs] :
        ixs \in UNION {[1..n -> BoundedSeq({"p", "q", "r"}, 3)] : n \in 1..2}}

MCMsg(signers, budget, accounts, ixs) ==
    [signers |-> signers, budget |-> budget, accounts |-> accounts, ixs |-> ixs]

\* By hand: headers with one thing wrong, and every combination of indexes up
\* to one beyond the two accounts in one instruction with two accounts, after
\* an instruction that uses both accounts.
MCIxAccounts == [id : 0..3, caller : {2, 3}, callee : 0..2]
MCPlainIx == <<[id |-> 1, caller |-> 1, callee |-> 0], [id |-> 0, caller |-> 0, callee |-> 1]>>

MCRawMsgs ==
    {MCMsg(<<"a">>, 1, <<"p", "q">>, <<MCPlainIx, s>>) : s \in [1..2 -> MCIxAccounts]}
    \cup {MCMsg(<<"a", "a">>, 1, <<"p", "q">>, <<MCPlainIx>>),
          MCMsg(<<"a", "not an address">>, 1, <<"p", "q">>, <<MCPlainIx>>),
          MCMsg(<<"a">>, 0, <<"p", "q">>, <<MCPlainIx>>),
          MCMsg(<<"a">>, 1, <<"p", "p">>, <<MCPlainIx>>),
          MCMsg(<<"a">>, 1, <<>>, <<MCPlainIx>>),
          MCMsg(<<"a">>, 1, <<"p", "q">>, <<>>)}

MCSignerLists == {<<"a">>}
=============================================================================
