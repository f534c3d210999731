----------------------------- MODULE MCGenerator -----------------------------
(***************************************************************************)
(* API directories for TLC, in families: each varies one part of the input *)
(* and keeps the rest simple and valid.                                    *)
(***************************************************************************)
EXTENDS Generator

None == [kind |-> "absent"]

(* A mapping of the fields that are not absent.                            *)
Fields(fields) == Mapping(RestrictValues(fields, LAMBDA node : node # None))

Function(command, type) == Mapping([command |-> Scalar(command), returnType |-> Scalar(type)])
Value(type) == Tagged("value", Mapping([parser |-> Scalar(type), initialValue |-> Function("get", type)]))
Subscribe == [step |-> "subscribe"]
SetIoType(parameters) == [step |-> "set_io_type", type |-> "T", parameters |-> parameters]
Parameter(type, default) == [name |-> "p", type |-> type, defaultValue |-> default]
Constant(type, value) == [type |-> type, value |-> value]

Plain == Mapping([name |-> Scalar("plain")])
Swarm(members) == [name |-> "swarm", root |-> Mapping([name |-> Scalar("swarm"), members |-> members])]
NoMembers == Mapping(<<>>)

Api(templates, io) ==
    [templates |-> templates, io |-> io, meta |-> <<>>,
     modes |-> <<[name |-> "Full", value |-> 0]>>, unreadable |-> {}]

-----------------------------------------------------------------------------
(* A template and a file that extends it.                                  *)
ATemplate(subscription, members) ==
    Fields([name |-> Scalar("template"), subscription |-> subscription, members |-> members])

TemplateTrees ==
    {ATemplate(s, m) :
        s \in {None, Value("int"), Tagged("bitset", ListOf(<<>>)),
               Tagged("other", Mapping([parser |-> Scalar("int")]))},
        m \in {None, Mapping([f |-> Function("f", "int"), g |-> Function("g", "ok")])}}

ExtendingTrees ==
    {Fields([extends |-> Scalar("t"), name |-> n, init |-> i, subscription |-> s, members |-> m]) :
        n \in {None, Scalar("io"), Null},
        i \in {None, ListOf(<<Subscribe>>), ListOf(<<Subscribe, Subscribe>>)},
        s \in {None, Null, Value("float"), Tagged("value", Null),
               Tagged("value", Mapping([parser |-> Scalar("float")]))},
        m \in {None, Null, Scalar("x"), Mapping([f |-> Null]), Mapping([h |-> Function("h", "int")]),
               Mapping([f |-> Mapping([returnType |-> Scalar("float")])]),
               Mapping([f |-> Mapping([parameters |-> Null]), g |-> Tagged("other", NoMembers)])}}

Merges == {Api([t |-> template], <<file>>) : template \in TemplateTrees, file \in ExtendingTrees}

(* Templates and references to them that are not as they should be.        *)
Extends(node) == Mapping([name |-> Scalar("io"), extends |-> node])
BadTemplates == {Null, Scalar("x"), NoMembers, Extends(Scalar("t"))}
BadReferences == {Null, Scalar("x"), Plain, Extends(Scalar("t")), Extends(Scalar("u")), Extends(Null)}
References == {Api([t |-> template], <<file>>) : template \in BadTemplates, file \in BadReferences}

-----------------------------------------------------------------------------
(* Bitsets of up to two entries with every mask, and one that is no Int.   *)
Entry(name, enabled, mask) ==
    [name |-> name, enabled |-> enabled, mask |-> mask, parser |-> "int",
     initialValue |-> FunctionOf(Function("get", "int"))]

Masks == (-(2^(Width - 1)))..2^(Width - 1)
Enablements == {"always", "default", "requested"}

EntryLists ==
    {<<>>} \cup {<<Entry("a", e, m)>> : e \in Enablements, m \in Masks}
    \cup {<<Entry("a", e, m), Entry(name, f, n)>> :
            e \in Enablements, f \in Enablements, m \in Masks, n \in Masks, name \in {"a", "b"}}

Bitsets ==
    {Api(<<>>, <<Mapping([name |-> Scalar("io"), init |-> ListOf(<<Subscribe>>),
                          subscription |-> Tagged("bitset", ListOf(entries))])>>) :
        entries \in EntryLists}

-----------------------------------------------------------------------------
(* Parameters and constants of every type, wherever there may be some.     *)
Texts == {Null, ListOf(<<>>)} \cup {Scalar(text) : text \in {"true", "1", "1.5", "Full"}}

Calls ==
    {Mapping([command |-> Scalar("f"), parameters |-> ListOf(<<Parameter(type, text)>>),
              returnType |-> Scalar("int")]) : type \in ApiTypes, text \in Texts}
    \cup {Mapping([command |-> Scalar("f"), constantParameters |-> ListOf(<<Constant(type, text)>>),
                   returnType |-> Scalar("int")]) : type \in ApiTypes, text \in Texts}
    \cup {Function(command, "ok") : command \in {"", "f"}}

InMember(call) == Mapping([name |-> Scalar("io"), members |-> Mapping([f |-> call])])
InQuery(call, parser) ==
    Mapping([name |-> Scalar("io"), init |-> ListOf(<<Subscribe>>),
             subscription |-> Tagged("value", Mapping([parser |-> Scalar(parser), initialValue |-> call]))])
InSetIoType(type, text) ==
    Mapping([name |-> Scalar("io"), init |-> ListOf(<<SetIoType(<<Parameter(type, text)>>)>>)])

Commands ==
    {Api(<<>>, <<InMember(call)>>) : call \in Calls}
    \cup {Api(<<>>, <<InQuery(call, parser)>>) : call \in Calls, parser \in {"int", "ok"}}
    \cup {Api(<<>>, <<InSetIoType(type, text)>>) : type \in ApiTypes, text \in Texts}
    \cup {[Api(<<>>, <<Plain>>) EXCEPT !.meta = <<Swarm(Mapping([f |-> call]))>>] : call \in Calls}

-----------------------------------------------------------------------------
(* Names that collide, meta files, modes, and files that cannot be read.   *)
Meta(file, name) == [name |-> file, root |-> Mapping([name |-> Scalar(name)])]
Mode(name, value) == [name |-> name, value |-> value]

Directories ==
    {[Api(<<>>, io) EXCEPT !.meta = meta, !.modes = modes, !.unreadable = unreadable] :
        io \in {<<>>, <<Plain>>, <<Plain, Plain>>, <<Plain, Extends(Scalar("t"))>>},
        meta \in {<<>>, <<Swarm(NoMembers)>>, <<Meta("controller", "controller"), Swarm(NoMembers)>>,
                  <<Meta("controller", "swarm")>>, <<Meta("other", "other")>>},
        modes \in {<<>>, <<Mode("Full", 0)>>, <<Mode("Full", 0), Mode("Half", 0)>>,
                   <<Mode("Full", 0), Mode("Full", 4)>>},
        unreadable \in {{}, {"iotypes"}, {"vendor-ids"}}}

AllApiDefs == Merges \cup References \cup Bitsets \cup Commands \cup Directories

-----------------------------------------------------------------------------
(* The nodes of the trees that are merged, and how high they are.          *)
NodesBelow(node) ==
    CASE IsMap(node) -> {node.entries[k] : k \in DOMAIN node.entries}
      [] IsTagged(node) -> {node.innerNode}
      [] OTHER -> {}

Level[n \in Nat] ==
    IF n = 0 THEN TemplateTrees \cup ExtendingTrees \cup BadTemplates \cup BadReferences
    ELSE UNION {NodesBelow(node) : node \in Level[n - 1]}

AllNodes == UNION {Level[n] : n \in 0..Depth}

HeightOf[node \in AllNodes] ==
    IF NodesBelow(node) = {} THEN 0
    ELSE 1 + Max({HeightOf[below] : below \in NodesBelow(node)})
=============================================================================
