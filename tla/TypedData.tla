------------------------------ MODULE TypedData -----------------------------
(***************************************************************************)
(* From a transaction to the hash that a Web3 wallet signs: WrapTxToEIP712 *)
(* takes the types of the typed data from the Go type and the value of the *)
(* FIRST message (chain/app/ante/eip712_cosmos.go), and                    *)
(* ComputeTypedDataHash encodes all messages with them                     *)
(* (chain/app/ante/typeddata). The two have to agree on what may be in a   *)
(* document, and the hash has to bind everything that is in it.            *)
(*                                                                         *)
(* Data is symbolic. A Go type is a record with a kind:                    *)
(*   "string", "bool", "int32", "int64", "uint8"                           *)
(*   "bytes"            a slice of uint8                                   *)
(*   "list", "ptr"      of elem                                            *)
(*   "struct"           fields, a sequence of [name, type]                 *)
(*   "any"              a codectypes.Any                                   *)
(* A Go value is a number (0 is the zero value), for a structure or a list *)
(* a sequence, for a pointer <<>> or <<value>>, for an Any <<>> or a pair  *)
(* of a message type and a value. A JSON value is a pair of a tag and its  *)
(* contents. A name is the sequence of its parts between underscores.      *)
(* A result is <<>>, an error, or <<x>>. Hashing is injective.             *)
(*                                                                         *)
(* A recursion of the code over types is a machine with a stack (the walk) *)
(* or a recursive function over the nesting of its calls.                  *)
(***************************************************************************)
EXTENDS Integers, FiniteSets, SequencesExt

CONSTANTS MsgTypes,      \* the Go types of the messages, a sequence of structures
          ToJSON(_, _),  \* the Amino JSON of a value of a Go type
          WordSize,      \* bits of a chain id, 64 in the code
          Depth,         \* bound: the nesting of a JSON document
          MaxPtrs,       \* bound: pointers in a row in a Go type
          Docs           \* the transactions

(***************************************************************************)
(* A transaction: msgs, a sequence of [type, val]; seq; timeout, the       *)
(* timeout height; granter, whether the fee names one; payer, the          *)
(* delegated fee payer or 0; chain, the chain id of the typed data.        *)
(***************************************************************************)

ASSUME BoundAssumption == Depth \in Nat /\ MaxPtrs \in Nat
ASSUME ChainAssumption == 2^WordSize \in Nat /\ \A d \in Docs : d.chain \in 0..(2^WordSize - 1)

VARIABLES doc,     \* the transaction
          stage,   \* "start", "walk", "wrapped", "hashed" or "refused"
          types,   \* typeMap, the types found so far
          stack,   \* the calls of traverseFields that are under way
          typed,   \* the result of WrapTxToEIP712
          hash     \* the result of ComputeTypedDataHash
vars == <<doc, stage, types, stack, typed, hash>>

Failed(r) == r = <<>>

\* All results of a sequence, unless one of them is an error.
Together(rs) ==
    IF \E i \in DOMAIN rs : Failed(rs[i]) THEN <<>>
    ELSE <<[i \in DOMAIN rs |-> rs[i][1]]>>

-----------------------------------------------------------------------------
(* The document that is signed, in Amino JSON (Cosmos SDK) *)

Text(x) == <<"text", x>>
Object(f) == <<"object", f>>
Nil == <<"nil", 0>>
Get(f, name) == IF name \in DOMAIN f THEN f[name] ELSE Nil

MsgJSON(m) == Object(<<"type">> :> Text(<<"url", m.type>>) @@
                     <<"value">> :> ToJSON(MsgTypes[m.type], m.val))

\* Only timeout_height and granter may be missing.
SignBytes(d) ==
    LET fee == <<"amount">> :> <<"list", <<Object(<<"denom">> :> Text(<<"str", 1>>) @@
                                                  <<"amount">> :> Text(<<"dec", 7>>))>>>> @@
               <<"gas">> :> Text(<<"dec", 9>>)
        granter == IF d.granter THEN <<"granter">> :> Text(<<"str", 1>>) ELSE <<>>
        timeout == IF d.timeout = 0 THEN <<>>
                   ELSE <<"timeout", "height">> :> Text(<<"dec", d.timeout>>)
    IN <<"account", "number">> :> Text(<<"dec", 3>>) @@
       <<"chain", "id">> :> Text(<<"str", 1>>) @@
       <<"fee">> :> Object(fee @@ granter) @@
       <<"memo">> :> Text(<<"str", 0>>) @@
       <<"msgs">> :> <<"list", [i \in DOMAIN d.msgs |-> MsgJSON(d.msgs[i])]>> @@
       <<"sequence">> :> Text(<<"dec", d.seq>>) @@
       timeout

\* The document a signer agrees to: what Amino JSON shows, and who pays.
Agreed(d) ==
    IF d.payer = 0 THEN SignBytes(d)
    ELSE [SignBytes(d) EXCEPT ![<<"fee">>] =
             Object((<<"feePayer">> :> Text(<<"str", d.payer>>)) @@ @[2])]

\* The values directly in a JSON value or an encoding.
Parts(x) == IF x[1] \in {"object", "list", "struct", "array"}
            THEN {x[2][k] : k \in DOMAIN x[2]} ELSE {}

WithParts(S) == S \cup UNION {Parts(y) : y \in S}

\* All values in x down to each depth, x itself included.
Levels(x) ==
    LET level[k \in 0..Depth] == IF k = 0 THEN {x} ELSE WithParts(level[k - 1])
    IN level

Nested(x) == Levels(x)[Depth] \cup {Nil}

\* JSON values are pairs, and objects and lists are finite.
ASSUME JSONAssumption ==
    \A d \in Docs : \A x \in Nested(Object(Agreed(d))) :
        /\ x = <<x[1], x[2]>>
        /\ x[1] \in {"object", "list"} => IsFiniteSet(DOMAIN x[2])

-----------------------------------------------------------------------------
(* The types of the typed data *)

Ref(name, array) == [name |-> name, array |-> array]
Basic(name) == Ref(<<name>>, FALSE)
Field(name, type) == [name |-> name, type |-> type]

\* _.foo_bar.baz -> TypeFooBarBaz. Two paths with one name share a type.
SanitizeTypedef(path) == <<"Type", FlattenSeq(path)>>

Root == <<"MsgValue">>
TypeDef(path) == IF path = <<>> THEN Root ELSE SanitizeTypedef(path)

\* The Ethereum type of a Go type, <<>> for a structure.
TypToEth(t) ==
    CASE t.kind \in {"string", "bool", "int32", "int64", "uint8"} -> <<Basic(t.kind)>>
      [] t.kind = "bytes" -> <<Ref(<<"uint8">>, TRUE)>>
      [] OTHER -> <<>>

\* The wrapper that stands for an Any: its type URL and what it contains.
AnyWrapper(v) ==
    [kind |-> "struct",
     fields |-> <<Field(<<"type">>, [kind |-> "string"]),
                  Field(<<"value">>, MsgTypes[v[1]])>>]

\* A type and a value behind pointers; the value is <<>> once a pointer on the
\* way to it was nil.
Deref(t, ov) ==
    LET turn[k \in 0..MaxPtrs] ==
            IF k = 0 THEN <<t, ov>>
            ELSE LET p == turn[k - 1]
                 IN IF p[1].kind # "ptr" THEN p
                    ELSE <<p[1].elem, IF p[2] = <<>> THEN <<>> ELSE p[2][1]>>
    IN turn[MaxPtrs]

\* What a field is, an Any unpacked. Touching an Any that is not there panics.
Unpacked(t, ov) ==
    IF t.kind # "any" THEN <<Deref(t, ov)>>
    ELSE IF ov = <<>> \/ ov = <<<<>>>> THEN <<>>
    ELSE <<<<AnyWrapper(ov[1]), <<<<1, ov[1][2]>>>>>>>>

IsCollection(t) == t.kind \in {"list", "bytes"}
Empty(t, v) == IF t.kind = "bytes" THEN v = 0 ELSE v = <<>>

\* The first item of a collection. One that is an Any is a Go structure with
\* fields that reflection may not read.
FirstItem(t, v) ==
    IF t.kind = "bytes" THEN <<<<[kind |-> "uint8"], <<1>>>>>>
    ELSE LET item == Deref(t.elem, <<v[1]>>)
         IN IF item[1].kind = "any" THEN <<>> ELSE <<item>>

WithField(table, def, f) ==
    [T \in DOMAIN table \cup {def} |->
        IF T # def THEN table[T]
        ELSE Append(IF def \in DOMAIN table THEN table[def] ELSE <<>>, f)]

Named(name) == Field(name, Basic("string"))

RootTypes ==
    [T \in {<<"EIP712Domain">>, <<"Tx">>, <<"Fee">>, <<"Coin">>, <<"Msg">>, Root} |->
        CASE T = <<"EIP712Domain">> ->
                 <<Named(<<"name">>), Named(<<"version">>),
                   Field(<<"chainId">>, Basic("uint256")),
                   Named(<<"verifyingContract">>), Named(<<"salt">>)>>
          [] T = <<"Tx">> ->
                 <<Named(<<"account", "number">>), Named(<<"chain", "id">>),
                   Field(<<"fee">>, Ref(<<"Fee">>, FALSE)), Named(<<"memo">>),
                   Field(<<"msgs">>, Ref(<<"Msg">>, TRUE)), Named(<<"sequence">>),
                   Named(<<"timeout", "height">>)>>
          [] T = <<"Fee">> -> <<Field(<<"amount">>, Ref(<<"Coin">>, TRUE)), Named(<<"gas">>)>>
          [] T = <<"Coin">> -> <<Named(<<"denom">>), Named(<<"amount">>)>>
          [] T = <<"Msg">> -> <<Named(<<"type">>), Field(<<"value">>, Ref(Root, FALSE))>>
          [] T = Root -> <<>>]

\* A call of traverseFields: a frame on the stack, or nothing if the type has
\* all its fields already.
Call(table, path, t, ov) ==
    LET known == IF TypeDef(path) \in DOMAIN table THEN Len(table[TypeDef(path)]) ELSE 0
    IN IF known = Len(t.fields) THEN <<>>
       ELSE <<[path |-> path, type |-> t, val |-> ov, next |-> 1]>>

top == stack[Len(stack)]
advanced == [stack EXCEPT ![Len(stack)].next = @ + 1]

\* The field that the loop of the current call is at.
field == top.type.fields[top.next]
found == Unpacked(field.type, IF top.val = <<>> THEN <<>> ELSE <<top.val[1][top.next]>>)
ftype == found[1][1]
fval == found[1][2]
item == IF IsCollection(ftype) THEN FirstItem(ftype, fval[1]) ELSE found

Walking == stage = "walk" /\ stack # <<>> /\ top.next <= Len(top.type.fields)
Reached == Walking /\ ~Failed(found) /\ (IsCollection(ftype) => fval # <<>>)
Skipped == IsCollection(ftype) /\ Empty(ftype, fval[1])

\* extractMsgTypes, walkFields
ExtractMsgTypes ==
    /\ stage = "start"
    /\ types' = RootTypes
    /\ stack' = Call(RootTypes, <<>>, MsgTypes[doc.msgs[1].type], <<doc.msgs[1].val>>)
    /\ stage' = "walk"
    /\ UNCHANGED <<doc, typed, hash>>

\* A nil Any, the length of a collection that cannot be reached, an Any in a
\* collection: a panic, which walkFields turns into an error.
FieldPanics ==
    /\ Walking
    /\ ~(Reached /\ (Skipped \/ ~Failed(item)))
    /\ stage' = "refused"
    /\ UNCHANGED <<doc, types, stack, typed, hash>>

\* An empty collection gets no type.
FieldSkipped ==
    /\ Reached /\ Skipped
    /\ stack' = advanced
    /\ UNCHANGED <<doc, stage, types, typed, hash>>

FieldBasic ==
    /\ Reached /\ ~Skipped /\ ~Failed(item)
    /\ ~Failed(TypToEth(item[1][1]))
    /\ types' = WithField(types, TypeDef(top.path), Field(field.name, TypToEth(item[1][1])[1]))
    /\ stack' = advanced
    /\ UNCHANGED <<doc, stage, typed, hash>>

\* A structure: its type is named after its path, and its fields come next.
FieldStruct ==
    /\ Reached /\ ~Skipped /\ ~Failed(item)
    /\ Failed(TypToEth(item[1][1]))
    /\ LET path == Append(top.path, field.name)
       IN /\ types' = WithField(types, TypeDef(top.path),
                                Field(field.name, Ref(TypeDef(path), IsCollection(ftype))))
          /\ stack' = advanced \o Call(types', path, item[1][1], item[1][2])
    /\ UNCHANGED <<doc, stage, typed, hash>>

FieldsDone ==
    /\ stage = "walk" /\ stack # <<>> /\ top.next > Len(top.type.fields)
    /\ stack' = Front(stack)
    /\ UNCHANGED <<doc, stage, types, typed, hash>>

\* int64(chainID)
ToSigned(n) == IF n >= 2^(WordSize - 1) THEN n - 2^WordSize ELSE n

Domain(chain) ==
    [k \in {<<"name">>, <<"version">>, <<"chainId">>, <<"verifyingContract">>, <<"salt">>} |->
        IF k = <<"chainId">> THEN <<"bigint", ToSigned(chain)>> ELSE Text(<<"str", k>>)]

\* Mutant of WithFeePayer: the type of the fee is not patched.
WithFeePayerUntyped(table, message, payer) ==
    [types |-> table,
     message |-> [message EXCEPT ![<<"fee">>] =
                     Object((<<"feePayer">> :> Text(<<"str", payer>>)) @@ @[2])]]

\* The delegated payer goes into the message and into its type.
WithFeePayer(table, message, payer) ==
    [types |-> [table EXCEPT ![<<"Fee">>] =
                   <<Named(<<"feePayer">>), Field(<<"amount">>, Ref(<<"Coin">>, TRUE)),
                     Named(<<"gas">>)>>],
     message |-> [message EXCEPT ![<<"fee">>] =
                     Object((<<"feePayer">> :> Text(<<"str", payer>>)) @@ @[2])]]

\* The rest of WrapTxToEIP712, once the types are there.
Wrap ==
    /\ stage = "walk" /\ stack = <<>>
    /\ LET wrapped == IF doc.payer = 0 THEN [types |-> types, message |-> SignBytes(doc)]
                      ELSE WithFeePayer(types, SignBytes(doc), doc.payer)
       IN typed' = <<[types |-> wrapped.types, message |-> wrapped.message,
                      domain |-> Domain(doc.chain)]>>
    /\ stage' = "wrapped"
    /\ UNCHANGED <<doc, types, stack, hash>>

-----------------------------------------------------------------------------
(* Hashing *)

Numerals == {"dec", "hex", "empty"}
IntegerTypes == {<<"int32">>, <<"int64">>, <<"uint8">>, <<"uint256">>}
Primitives == {<<"string">>, <<"bool">>} \cup IntegerTypes

\* Types.validate: every type that is used is a primitive or defined, and none
\* is a field of itself.
ValidTypes(table) ==
    \A T \in DOMAIN table : \A i \in DOMAIN table[T] :
        LET ft == table[T][i].type
        IN /\ ft.name \in Primitives \cup DOMAIN table
           /\ ft # Ref(T, FALSE)

\* Mutant of TypeOfField: the array suffix is not cut off.
TypeOfFieldUncut(f) == IF f.type.array THEN Append(f.type.name, "[]") ELSE f.type.name

TypeOfField(f) == f.type.name

Include(acc, dep) == IF Contains(acc, dep) THEN acc ELSE Append(acc, dep)

\* The loop that appends what is not there yet.
Merge(start, deps) ==
    LET acc[i \in 0..Len(deps)] == IF i = 0 THEN start ELSE Include(acc[i - 1], deps[i])
    IN acc[Len(deps)]

MergeCall(calls, name, acc) == Merge(acc, calls[name][acc])

\* The loop over the fields of T, with the calls nested in it given.
DependenciesOfFields(table, calls, T, start) ==
    LET acc[i \in 0..Len(table[T])] ==
            IF i = 0 THEN Append(start, T)
            ELSE MergeCall(calls, TypeOfField(table[T][i]), acc[i - 1])
    IN acc[Len(table[T])]

TypeNames(table) ==
    DOMAIN table \cup UNION {{TypeOfField(table[T][i]) : i \in DOMAIN table[T]} :
                                 T \in DOMAIN table}

\* A call, for every type and what has been found before it.
DependenciesCall(table, calls) ==
    [T \in TypeNames(table) |-> [start \in Seq(DOMAIN table) |->
        IF Contains(start, T) \/ T \notin DOMAIN table THEN start
        ELSE DependenciesOfFields(table, calls, T, start)]]

NoCall(table) == [T \in TypeNames(table) |-> [start \in Seq(DOMAIN table) |-> start]]

\* The types that each type is made of, itself first. Every call below adds a
\* type to those found, so that there are no more levels of calls than types.
DependencyCalls(table) ==
    LET calls[n \in 0..Cardinality(DOMAIN table)] ==
            IF n = 0 THEN NoCall(table) ELSE DependenciesCall(table, calls[n - 1])
    IN calls

Dependencies(table, T) == DependencyCalls(table)[Cardinality(DOMAIN table)][T][<<>>]

\* TypeHash(EncodeType(T)): T, and the definitions of all it is made of.
TypeHash(table, T) ==
    [primary |-> T, defs |-> [D \in ToSet(Dependencies(table, T)) |-> table[D]]]

NumberOf(x) == IF x[1] = "text" THEN x[2][2] ELSE x[2]

\* The number that a text, a JSON number or the chain id stands for; the empty
\* text is 0, and a text of another kind is no number.
ParseInteger(name, x) ==
    LET n == NumberOf(x)
        signed == name \in {<<"int32">>, <<"int64">>}
    IN IF \/ x[1] \notin {"text", "number", "bigint"}
          \/ x[1] = "text" /\ x[2][1] \notin Numerals
          \/ name = <<"uint8">> /\ n >= 2^8
          \/ ~signed /\ n < 0
       THEN <<>> ELSE <<<<"word", n>>>>

EncodePrimitiveValue(name, x) ==
    CASE name = <<"string">> -> IF x[1] = "text" THEN <<<<"keccak", x[2]>>>> ELSE <<>>
      [] name = <<"bool">>   -> IF x[1] = "bool" THEN <<<<"word", x[2]>>>> ELSE <<>>
      [] OTHER               -> ParseInteger(name, x)

\* Mutant of ExtraData: it is not looked for.
NoExtraData(table, T, data) == FALSE

ExtraData(table, T, data) == Len(table[T]) < Cardinality(DOMAIN data)

\* An array: the items one after the other, each a structure or primitive.
EncodeArray(calls, name, x) ==
    LET items == Together([i \in DOMAIN x[2] |-> calls[Ref(name, FALSE)][x[2][i]]])
    IN IF x[1] # "list" THEN <<>>
       ELSE IF Failed(items) THEN <<>> ELSE <<<<"array", items[1]>>>>

\* A structure: its type and its fields; a missing one is nil.
EncodeData(table, calls, T, x) ==
    LET values == Together([i \in DOMAIN table[T] |->
                               calls[table[T][i].type][Get(x[2], table[T][i].name)]])
    IN IF x[1] # "object" \/ ~ValidTypes(table) \/ ExtraData(table, T, x[2]) THEN <<>>
       ELSE IF Failed(values) THEN <<>> ELSE <<<<"struct", values[1], TypeHash(table, T)>>>>

Refs(table) == [name : Primitives \cup DOMAIN table, array : BOOLEAN]

EncodeCall(table, V, calls) ==
    [ref \in Refs(table) |-> [x \in V |->
        IF ref.array THEN EncodeArray(calls, ref.name, x)
        ELSE IF ref.name \in DOMAIN table THEN EncodeData(table, calls, ref.name, x)
        ELSE EncodePrimitiveValue(ref.name, x)]]

EncodeCalls(table, V) ==
    LET calls[n \in 0..Depth] ==
            IF n = 0 THEN [ref \in Refs(table) |-> [x \in V |-> <<>>]]
            ELSE EncodeCall(table, V, calls[n - 1])
    IN calls

\* Structures are hashed wherever they are used.
HashStruct(table, T, x) == EncodeCalls(table, Nested(x))[Depth][Ref(T, FALSE)][x]

ComputeTypedDataHash(td) ==
    LET domain == HashStruct(td.types, <<"EIP712Domain">>, Object(td.domain))
        message == HashStruct(td.types, <<"Tx">>, Object(td.message))
    IN IF Failed(domain) \/ Failed(message) THEN <<>>
       ELSE <<[domain |-> domain[1], message |-> message[1]]>>

-----------------------------------------------------------------------------
(* VerifySignatureEIP712 wraps the transaction and then hashes it. *)

Init ==
    /\ doc \in Docs /\ stage = "start"
    /\ types = RootTypes /\ stack = <<>> /\ typed = <<>> /\ hash = <<>>

Hash ==
    /\ stage = "wrapped"
    /\ hash' = ComputeTypedDataHash(typed[1])
    /\ stage' = IF Failed(hash') THEN "refused" ELSE "hashed"
    /\ UNCHANGED <<doc, types, stack, typed>>

Next ==
    \/ ExtractMsgTypes
    \/ FieldPanics \/ FieldSkipped \/ FieldBasic \/ FieldStruct \/ FieldsDone
    \/ Wrap
    \/ Hash

Spec == Init /\ [][Next]_vars

-----------------------------------------------------------------------------
(* What a hash says *)

\* How a word of a primitive type is read.
Reading(name) == CASE name = <<"string">> -> "text"
                   [] name = <<"bool">>   -> "bool"
                   [] OTHER               -> "number"

FieldNames(fs) == {fs[i].name : i \in DOMAIN fs}
FieldNamed(fs, k) == CHOOSE i \in DOMAIN fs : fs[i].name = k

\* Reading an encoding back: the type hash says what the words mean.
DecodeCall(V, calls) ==
    [e \in V |-> [how \in {"text", "bool", "number"} |->
        IF e[1] = "array" THEN <<"list", [i \in DOMAIN e[2] |-> calls[e[2][i]][how]]>>
        ELSE IF e[1] = "struct"
        THEN LET fs == e[3].defs[e[3].primary]
             IN Object([k \in FieldNames(fs) |->
                           LET i == FieldNamed(fs, k)
                           IN calls[e[2][i]][Reading(fs[i].type.name)]])
        ELSE <<how, e[2]>>]]

DecodeCalls(V) ==
    LET calls[n \in 0..Depth] ==
            IF n = 0 THEN [e \in V |-> [how \in {"text", "bool", "number"} |-> Nil]]
            ELSE DecodeCall(V, calls[n - 1])
    IN calls

Decode(e) == DecodeCalls(Nested(e))[Depth][e]["text"]

\* The JSON value itself, all of it, with a number where a number was read.
AsReadCall(table, V, calls) ==
    [ref \in Refs(table) |-> [x \in V |->
        IF x[1] = "list"
        THEN <<"list", [i \in DOMAIN x[2] |-> calls[Ref(ref.name, FALSE)][x[2][i]]]>>
        ELSE IF x[1] = "object"
        THEN Object([k \in DOMAIN x[2] |->
                        IF ref.name \in DOMAIN table /\ k \in FieldNames(table[ref.name])
                        THEN calls[table[ref.name][FieldNamed(table[ref.name], k)].type][x[2][k]]
                        ELSE x[2][k]])
        ELSE IF Reading(ref.name) = "number" THEN <<"number", NumberOf(x)>>
        ELSE x]]

AsReadCalls(table, V) ==
    LET calls[n \in 0..Depth] ==
            IF n = 0 THEN [ref \in Refs(table) |-> [x \in V |-> Nil]]
            ELSE AsReadCall(table, V, calls[n - 1])
    IN calls

AsRead(table, T, x) == AsReadCalls(table, Nested(x))[Depth][Ref(T, FALSE)][x]

\* No type has two fields of one name. Go types with such fields, or with paths
\* that SanitizeTypedef makes equal, would lead to one that has.
DistinctNames(table) ==
    \A T \in DOMAIN table : \A i, j \in DOMAIN table[T] :
        table[T][i].name = table[T][j].name => i = j

\* The hash binds the whole transaction: every field of every message, the
\* header, the chain and the delegated payer can be read back from it, so two
\* transactions with one hash are the same, except that of a text with an
\* integer type (a bytes field whose base64 text is a numeral) only the number
\* is bound. Types come from the first message, so this rests on the count of
\* fields in EncodeData.
HashBindsDocument ==
    stage = "hashed" /\ DistinctNames(typed[1].types) =>
        /\ Decode(hash[1].message) = AsRead(typed[1].types, <<"Tx">>, Object(Agreed(doc)))
        /\ Decode(hash[1].domain)[2][<<"chainId">>] = <<"number", doc.chain>>

Closed(table, S) == \A T \in S : \A i \in DOMAIN table[T] :
                        table[T][i].type.name \in S \cup Primitives

\* deps has, once each and T first, exactly the types a value of type T can
\* contain, in arrays too.
Covers(table, T, deps) ==
    /\ deps[1] = T /\ IsInjective(deps) /\ Closed(table, ToSet(deps))
    /\ \A D \in ToSet(deps) \ {T} : ~Closed(table, ToSet(deps) \ {D})

\* The type hash of every type of a document that was hashed covers exactly the
\* types a value of it can contain (Dependencies, EncodeType).
DependenciesComplete ==
    stage = "hashed" =>
        LET table == typed[1].types
        IN \A T \in DOMAIN table : Covers(table, T, Dependencies(table, T))
=============================================================================
