---------------------------- MODULE MCAnteHandler ---------------------------
(* Instances of AnteHandler for TLC. *)
EXTENDS AnteHandler

\* The bodies: two plain ones of a, one of a and b together, a link of a to x,
\* SVM messages of a and of b for x, and an SVM message in company.
MCBody(id, signers, fee, msgs, svm) ==
    [id |-> id, signers |-> signers, fee |-> fee, msgs |-> msgs, svm |-> svm]

MCBodies ==
    {MCBody(1, <<"a">>, 1, <<"plain">>, {}),
     MCBody(2, <<"a">>, 2, <<"plain">>, {}),
     MCBody(3, <<"a", "b">>, 1, <<"plain">>, {}),
     MCBody(4, <<"a">>, 0, <<"link">>, {"x"}),
     MCBody(5, <<"a">>, 0, <<"svm">>, {"x"}),
     MCBody(6, <<"b">>, 0, <<"svm">>, {"x"}),
     MCBody(7, <<"a">>, 0, <<"plain", "svm">>, {"x"})}

\* A transaction with the body b and the sequences n, signed by everybody for
\* the decorator chain that ext selects, the fee payer d included.
MCSigned(b, n, ext, chain, d, pub) ==
    LET unsigned == [body |-> b, sigs |-> <<>>, pub |-> pub, ext |-> ext,
                     typedChain |-> chain, delegate |-> d, delegateSig |-> NoSig]
        Doc(i) == IF ext = "web3" THEN TypedData(unsigned, b.signers[i], n[i])
                                  ELSE SignDoc(unsigned, b.signers[i], n[i])
    IN [unsigned EXCEPT
           !.sigs = [i \in DOMAIN b.signers |->
                        [seq |-> n[i], form |-> "ok", by |-> b.signers[i], over |-> Doc(i)]],
           !.delegateSig = IF d \in {"a", "b"} THEN [by |-> d, over |-> Doc(1)] ELSE NoSig]

MCSeqs(b, S) == [DOMAIN b.signers -> S]

\* Correctly signed, with and without keys, and then what a careless or
\* confused client may submit: a signature for another body, by another key,
\* of another form, none at all; a delegated payer who did not sign, signed
\* something else, or does not exist.
MCHonest(ids, exts, S) ==
    UNION {{MCSigned(b, n, e, 1, NoOne, ToSet(b.signers)) : n \in MCSeqs(b, S), e \in exts} :
               b \in {c \in MCBodies : c.id \in ids}}

MCKeyless == {MCSigned(b, <<1>>, e, 1, NoOne, {}) :
                  b \in {c \in MCBodies : c.id = 1}, e \in {"none", "web3"}}

MCDelegated ==
    LET b == CHOOSE c \in MCBodies : c.id = 2
        good == MCSigned(b, <<0>>, "web3", 5, "b", {"a"})
        other == MCSigned(b, <<0>>, "web3", 1, "b", {"a"})
    IN {good,
        [good EXCEPT !.delegateSig = NoSig],
        [good EXCEPT !.delegateSig.by = "a"],
        [good EXCEPT !.delegateSig = other.delegateSig],
        MCSigned(b, <<0>>, "web3", 5, "nobody", {"a"})}

MCBroken ==
    LET b == CHOOSE c \in MCBodies : c.id = 1
        Good(e) == MCSigned(b, <<0>>, e, 0, NoOne, {"a"})
        wrong == MCSigned(CHOOSE c \in MCBodies : c.id = 2, <<0>>, "web3", 0, NoOne, {"a"})
    IN UNION {{[Good(e) EXCEPT !.sigs[1].by = "b"],
               [Good(e) EXCEPT !.sigs[1].form = "other"],
               [Good(e) EXCEPT !.sigs[1].over = wrong.sigs[1].over],
               [Good(e) EXCEPT !.sigs = <<>>]} : e \in {"none", "web3"}}
       \cup {Good("other")}

MCMixedTxs == MCHonest({1, 3}, {"none", "web3"}, 0..1)
              \cup MCKeyless \cup MCDelegated \cup MCBroken
MCSvmTxs   == MCHonest({4, 5, 6, 7}, {"none", "web3"}, 0..1)
MCTxs      == MCMixedTxs \cup MCSvmTxs

\* Each behaviour is about one of the two families.
VARIABLE family

FamilyInit == Init /\ family \in {"mixed", "svm"}

FamilyNext ==
    /\ Next
    /\ ToSet(pool') \cup ToSet(block') \subseteq
           (IF family = "mixed" THEN MCMixedTxs ELSE MCSvmTxs)
    /\ UNCHANGED family

FamilySpec == FamilyInit /\ [][FamilyNext]_<<vars, family>>
=============================================================================
