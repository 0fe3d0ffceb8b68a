----------------------------- MODULE MCTypedData ----------------------------
(* An instance of TypedData for TLC: message types with every kind of field, *)
(* and transactions of one and of two messages.                              *)
EXTENDS TypedData

T(kind) == [kind |-> kind]
Of(kind, elem) == [kind |-> kind, elem |-> elem]
Struct(fs) == [kind |-> "struct", fields |-> [i \in DOMAIN fs |-> Field(fs[i][1], fs[i][2])]]

Coin == Struct(<<<<<<"denom">>, T("string")>>, <<<<"amount">>, T("string")>>>>)

MCMsgTypes ==
    <<Struct(<<>>),
      Struct(<<<<<<"to", "address">>, T("string")>>, <<<<"coins">>, Of("list", Of("ptr", Coin))>>>>),
      Struct(<<<<<<"to", "address">>, T("string")>>, <<<<"coins">>, Of("list", Of("ptr", Coin))>>>>),
      Struct(<<<<<<"id">>, T("int64")>>,
               <<<<"inner">>, Struct(<<<<<<"items">>, Of("list", Struct(<<<<<<"on">>, T("bool")>>>>))>>,
                                       <<<<"flag">>, T("bool")>>>>)>>,
               <<<<"opt">>, Of("ptr", Struct(<<<<<<"n">>, T("int32")>>>>))>>>>),
      Struct(<<<<<<"names">>, Of("list", T("string"))>>,
               <<<<"data">>, T("bytes")>>,
               <<<<"keys">>, Of("list", T("bytes"))>>>>),
      Struct(<<<<<<"content">>, T("any")>>>>),
      Struct(<<<<<<"hops">>, Struct(<<<<<<"path">>, Of("list", Coin)>>>>)>>,
               <<<<"deep">>, Of("ptr", Struct(<<<<<<"path">>, Of("list", Coin)>>>>))>>>>),
      Struct(<<<<<<"id">>, T("int64")>>, <<<<"msgs">>, Of("list", T("any"))>>>>)>>

\* 1 is no numeral; 2 and 3 stand for the same number; 4 has more than 8 bits.
MCBase64 == 0 :> <<"empty", 0>> @@ 1 :> <<"b64", 1>> @@ 2 :> <<"dec", 12>> @@
            3 :> <<"hex", 12>> @@ 4 :> <<"dec", 300>>

\* Fields that hold the zero value are left out; structures never are.
Omitted(t, v) == IF t.kind \in {"ptr", "any", "list"} THEN v = <<>>
                 ELSE t.kind # "struct" /\ v = 0

RECURSIVE AminoJSON(_, _)
AminoJSON(t, v) ==
    CASE t.kind = "string" -> Text(<<"str", v>>)
      [] t.kind = "bool"   -> <<"bool", v>>
      [] t.kind = "int32"  -> <<"number", v>>
      [] t.kind = "int64"  -> Text(<<"dec", v>>)
      [] t.kind = "bytes"  -> Text(MCBase64[v])
      [] t.kind = "ptr"    -> AminoJSON(t.elem, v[1])
      [] t.kind = "list"   -> <<"list", [i \in DOMAIN v |-> AminoJSON(t.elem, v[i])]>>
      [] t.kind = "any"    -> Object(<<"type">> :> Text(<<"url", v[1]>>) @@
                                     <<"value">> :> AminoJSON(MsgTypes[v[1]], v[2]))
      [] t.kind = "struct" ->
            LET shown == {i \in DOMAIN t.fields : ~Omitted(t.fields[i].type, v[i])}
            IN Object([n \in {t.fields[i].name : i \in shown} |->
                          LET i == CHOOSE k \in shown : t.fields[k].name = n
                          IN AminoJSON(t.fields[i].type, v[i])])

Lists(S, n) == UNION {[1..k -> S] : k \in 0..n}
Opt(S) == Lists(S, 1)
Coins == {<<1, 1>>, <<2, 1>>, <<1, 0>>}

Values(k) ==
    CASE k = 1 -> {<<>>}
      [] k \in {2, 3} -> {<<to, cs>> : to \in 0..2, cs \in Lists({<<c>> : c \in Coins}, 2)}
      [] k = 4 -> {<<id, <<items, flag>>, opt>> :
                       id \in 0..2, items \in Lists({<<0>>, <<1>>}, 1), flag \in 0..1,
                       opt \in Opt({<<0>>, <<1>>, <<2>>})}
      [] k = 5 -> {<<ns, d, ks>> : ns \in Lists(0..1, 1), d \in 0..4, ks \in Lists(0..4, 1)}
      [] k = 6 -> {<<<<>>>>} \cup {<<<<j, v>>>> : j \in {1}, v \in {<<>>}}
                  \cup {<<<<j, v>>>> : j \in {2, 3}, v \in {<<to, cs>> : to \in 0..1,
                                                            cs \in Lists({<<<<1, 1>>>>}, 1)}}
      [] k = 7 -> {<<<<h>>, d>> : h \in Lists(Coins, 1), d \in Opt({<<l>> : l \in Lists(Coins, 1)})}
      [] k = 8 -> {<<id, l>> : id \in 0..1, l \in Lists({<<2, <<1, <<>>>>>>}, 1)}

Msgs(k) == {[type |-> k, val |-> v] : v \in Values(k)}

Doc(ms, timeout, granter, payer, chain) ==
    [msgs |-> ms, seq |-> 4, timeout |-> timeout, granter |-> granter,
     payer |-> payer, chain |-> chain]

\* Every message alone under every header; pairs of one type, and of two types
\* with the same fields.
MCDocs ==
    UNION {{Doc(<<m>>, t, g, p, c) : m \in Msgs(k), t \in 0..1, g \in BOOLEAN,
                                     p \in 0..1, c \in {1, 9}} : k \in 1..8}
    \cup UNION {{Doc(<<m, n>>, 1, FALSE, 0, 1) : m \in Msgs(p[1]), n \in Msgs(p[2])} :
                    p \in {<<1, 2>>, <<2, 1>>, <<2, 2>>, <<2, 3>>, <<4, 4>>, <<6, 6>>}}

SmallNumeral(v) == MCBase64[v][1] \in Numerals /\ MCBase64[v][2] < 2^8

\* What the JSON text of a value looks like, whatever it says.
RECURSIVE Shape(_, _)
Shape(t, v) ==
    CASE t.kind = "ptr"  -> Shape(t.elem, v[1])
      [] t.kind = "any"  -> <<"any", Shape(MsgTypes[v[1]], v[2])>>
      [] t.kind = "list" -> <<"list", {Shape(t.elem, v[i]) : i \in DOMAIN v}>>
      [] t.kind = "struct" ->
            <<"struct", {<<t.fields[i].name, Shape(t.fields[i].type, v[i])>> :
                             i \in {k \in DOMAIN v : ~Omitted(t.fields[k].type, v[k])}}>>
      [] t.kind = "bytes" -> <<"bytes", SmallNumeral(v)>>
      [] OTHER -> <<"basic", t.kind>>

Blank == <<"struct", {}>>

\* Values that can be signed with a wallet: no zero or missing field, no blank
\* structure inside, no list but of structures that all look alike or of bytes,
\* no bytes but a small numeral.
RECURSIVE Signable(_, _)
Signable(t, v) ==
    CASE t.kind = "ptr"  -> v # <<>> /\ Signable(t.elem, v[1])
      [] t.kind = "any"  -> v # <<>> /\ Signable(MsgTypes[v[1]], v[2])
                                    /\ Shape(MsgTypes[v[1]], v[2]) # Blank
      [] t.kind = "list" ->
            \/ v = <<>>
            \/ /\ t.elem.kind \in {"struct", "ptr", "bytes"}
               /\ Shape(t.elem, v[1]) # Blank
               /\ \A i \in DOMAIN v : Signable(t.elem, v[i])
                                       /\ Shape(t.elem, v[i]) = Shape(t.elem, v[1])
      [] t.kind = "bytes" -> SmallNumeral(v)
      [] t.kind = "struct" ->
            \A i \in DOMAIN v :
                LET ft == t.fields[i].type
                IN Signable(ft, v[i]) /\ Shape(ft, v[i]) # Blank
      [] OTHER -> v # 0

\* A transaction gets a hash exactly when its first message can be signed and
\* the others look like it, it has a timeout height and no fee granter, and its
\* chain id is not negative as an int64. Nothing else is refused by the walk
\* over Go types or by the encoder, and they agree on what is typed.
AcceptedExactly ==
    stage \in {"hashed", "refused"} =>
        (stage = "hashed" <=>
            /\ doc.timeout # 0 /\ ~doc.granter /\ doc.chain < 2^(WordSize - 1)
            /\ LET first == doc.msgs[1]
               IN /\ Signable(MsgTypes[first.type], first.val)
                  /\ \A i \in DOMAIN doc.msgs :
                         Shape(MsgTypes[doc.msgs[i].type], doc.msgs[i].val)
                             = Shape(MsgTypes[first.type], first.val))
=============================================================================
