------------------------------ MODULE Generator ------------------------------
(***************************************************************************)
(* The two generation tasks (generateKotlinSources, generatePythonSources) *)
(* with the collector that both run: they empty the output directory,      *)
(* collect the IO definitions and the meta definitions, and write one unit *)
(* after the other.  Whatever throws ends the task.                        *)
(*                                                                         *)
(* The YAML decoder is a library.  It is modelled for mappings, to the     *)
(* extent that merging can bring forth something it refuses; the items of  *)
(* lists are decoded already.  Names are compared, never taken apart.      *)
(***************************************************************************)
EXTENDS Integers, Templates

CONSTANTS
    ApiDefs,      \* the API directories a task may be given
    Width,        \* the number of bits of an Int
    IntTexts,     \* what toIntOrNull reads
    FloatTexts    \* what toFloatOrNull reads

ASSUME WidthAssumption == Width \in Nat \ {0}

(* Files come in an order, and those that are merged are trees of Nodes.   *)
ASSUME ApiAssumption ==
    \A directory \in ApiDefs :
        /\ \A files \in {directory.io, directory.meta} :
              Len(files) \in Nat /\ DOMAIN files = 1..Len(files)
        /\ \A t \in DOMAIN directory.templates : directory.templates[t] \in Nodes
        /\ \A file \in ToSet(directory.io) \cup {meta.root : meta \in ToSet(directory.meta)} :
              IsMap(file) /\ "extends" \in DOMAIN file.entries => file \in Nodes

VARIABLES
    task,         \* which of the two
    api,          \* its apiDefPath
    phase,        \* where it is, and how it ended
    definitions,  \* the IO definitions collected
    metas,        \* the meta definitions
    written       \* the units in the output directory

vars == <<task, api, phase, definitions, metas, written>>

ApiTypes == {"boolean", "int", "float", "string", "joystick", "microstep_mode", "ok"}
Stale == [unit |-> "of an earlier run"]

-----------------------------------------------------------------------------
(* decodeYamlNode: which trees are definitions, and which they are.        *)

OneOf(node, contents) == node.kind = "scalar" /\ node.content \in contents

HasFields(node, required, optional) ==
    /\ IsMap(node)
    /\ required \subseteq DOMAIN node.entries
    /\ DOMAIN node.entries \subseteq required \cup optional

Has(node, k) == k \in DOMAIN node.entries
Items(node, k) == IF Has(node, k) THEN node.entries[k].items ELSE <<>>

IsFunction(node) ==
    /\ HasFields(node, {"command", "returnType"}, {"parameters", "constantParameters"})
    /\ node.entries["command"].kind = "scalar"
    /\ OneOf(node.entries["returnType"], ApiTypes)
    /\ \A k \in {"parameters", "constantParameters"} : Has(node, k) => node.entries[k].kind = "list"

FunctionOf(node) ==
    [command |-> node.entries["command"].content,
     parameters |-> Items(node, "parameters"),
     constantParameters |-> Items(node, "constantParameters"),
     returnType |-> node.entries["returnType"].content]

AreMembers(node) == IsMap(node) /\ \A k \in DOMAIN node.entries : IsFunction(node.entries[k])

MembersOf(node) ==
    IF Has(node, "members")
    THEN LET members == node.entries["members"].entries
         IN  [k \in DOMAIN members |-> FunctionOf(members[k])]
    ELSE <<>>

(* An Int in two's complement: halving shifts it to the right and keeps    *)
(* the sign, so nothing but the sign is left when all but one of its bits  *)
(* are shifted out.                                                        *)
Shifted(int) ==
    LET shifted[i \in Nat] == IF i = 0 THEN int ELSE shifted[i - 1] \div 2
    IN  shifted

IsInt(int) == int \in Int /\ Shifted(int)[Width - 1] \in {0, -1}

IsSubscription(node) ==
    \/ node = Null
    \/ /\ IsTagged(node)
       /\ node.tag = "value"
       /\ HasFields(node.innerNode, {"parser", "initialValue"}, {})
       /\ OneOf(node.innerNode.entries["parser"], ApiTypes)
       /\ IsFunction(node.innerNode.entries["initialValue"])
    \/ /\ IsTagged(node)
       /\ node.tag = "bitset"
       /\ node.innerNode.kind = "list"
       /\ \A e \in ToSet(node.innerNode.items) : IsInt(e.mask)

SubscriptionOf(node) ==
    CASE node = Null -> [kind |-> "none"]
      [] IsTagged(node) /\ node.tag = "value" ->
            [kind |-> "value",
             parser |-> node.innerNode.entries["parser"].content,
             initialValue |-> FunctionOf(node.innerNode.entries["initialValue"])]
      [] OTHER -> [kind |-> "bitset", entries |-> node.innerNode.items]

IsIoDefinition(node) ==
    /\ HasFields(node, {"name"}, {"init", "subscription", "members"})
    /\ node.entries["name"].kind = "scalar"
    /\ Has(node, "init") => node.entries["init"].kind = "list"
    /\ Has(node, "subscription") => IsSubscription(node.entries["subscription"])
    /\ Has(node, "members") => AreMembers(node.entries["members"])

IoDefinition(node) ==
    [name |-> node.entries["name"].content,
     init |-> Items(node, "init"),
     subscription |-> SubscriptionOf(IF Has(node, "subscription") THEN node.entries["subscription"]
                                     ELSE Null),
     members |-> MembersOf(node)]

IsMetaDefinition(node) ==
    /\ HasFields(node, {"name"}, {"members"})
    /\ node.entries["name"].kind = "scalar"
    /\ Has(node, "members") => AreMembers(node.entries["members"])

MetaDefinition(node) == [name |-> node.entries["name"].content, members |-> MembersOf(node)]

-----------------------------------------------------------------------------
(* validateIoDefinitions and what it calls.                                *)

NotBlank(text) == text \notin {"", " "}

(* Fault: the name of a microstep mode is taken for a literal of it.       *)
acceptsLiteralOfMode(type, text) ==
    CASE type = "boolean" -> text \in {"true", "false"}
      [] type = "int" -> text \in IntTexts
      [] type = "float" -> text \in FloatTexts
      [] OTHER -> type \in {"string", "microstep_mode"}

acceptsLiteral(type, text) ==
    CASE type = "boolean" -> text \in {"true", "false"}
      [] type = "int" -> text \in IntTexts
      [] type = "float" -> text \in FloatTexts
      [] OTHER -> type = "string"

(* valueText and defaultValueText: there is a text only of a scalar.       *)
HasText(node) == node.kind = "scalar"

(* A default that is not a scalar passes.                                  *)
validateParameter(parameter) ==
    /\ NotBlank(parameter.name)
    /\ parameter.type \notin {"ok", "joystick"}
    /\ HasText(parameter.defaultValue) => acceptsLiteral(parameter.type, parameter.defaultValue.content)

validateConstantParameter(parameter) ==
    /\ parameter.type \notin {"ok", "joystick"}
    /\ HasText(parameter.value)
    /\ acceptsLiteral(parameter.type, parameter.value.content)

validateFunction(function) ==
    /\ NotBlank(function.command)
    /\ \A p \in ToSet(function.parameters) : validateParameter(p)
    /\ \A p \in ToSet(function.constantParameters) : validateConstantParameter(p)

validateMembers(members) ==
    \A name \in DOMAIN members : NotBlank(name) /\ validateFunction(members[name])

(* What a state is parsed with on updates, and what the query for its      *)
(* first value returns.                                                    *)
validateState(parser, initialValue) ==
    /\ validateFunction(initialValue)
    /\ parser # "ok"
    /\ parser = initialValue.returnType

(* Its bits, numbered from the least.                                      *)
Bits(int) == {i \in 0..(Width - 1) : Shifted(int)[i] % 2 = 1}

(* Fault: zero minus one has all bits, so zero passes as one bit.          *)
IsOneBitOrNone(mask) == Bits(mask) \cap Bits(mask - 1) = {}

IsOneBit(mask) == mask > 0 /\ Bits(mask) \cap Bits(mask - 1) = {}

AllDiffer(items, field) == IsInjective([i \in DOMAIN items |-> items[i][field]])

validateBitset(entries) ==
    /\ entries # <<>>
    /\ AllDiffer(entries, "name")
    /\ AllDiffer(entries, "mask")
    /\ \A e \in ToSet(entries) : IsOneBit(e.mask) /\ validateState(e.parser, e.initialValue)

Markers(init) == {i \in DOMAIN init : init[i].step = "subscribe"}
SetIoTypes(init) == SelectSeq(init, LAMBDA s : s.step = "set_io_type")

validateIoDefinition(definition) ==
    LET subscription == definition.subscription
        subscribesOnce == \E i \in DOMAIN definition.init : Markers(definition.init) = {i}
    IN  /\ (subscription.kind # "none") = subscribesOnce
        /\ validateMembers(definition.members)
        /\ \A s \in ToSet(SetIoTypes(definition.init)) :
              \A p \in ToSet(s.parameters) : validateParameter(p)
        /\ subscription.kind = "value" => validateState(subscription.parser, subscription.initialValue)
        /\ subscription.kind = "bitset" => validateBitset(subscription.entries)

validateIoDefinitions(all) ==
    AllDiffer(all, "name") /\ \A d \in ToSet(all) : validateIoDefinition(d)

(* The checks of getMetaDefinitions: file is the name of the file.         *)
validateMetaDefinition(file, definition) ==
    /\ definition.name = file
    /\ definition.name \in {"controller", "swarm"}
    /\ validateMembers(definition.members)

ValidModes(modes) ==
    /\ modes # <<>>
    /\ AllDiffer(modes, "name")
    /\ AllDiffer(modes, "value")

-----------------------------------------------------------------------------
(* What the renderers put into the factories, and what they stumble over.  *)

Selectable(entries) == {e \in ToSet(entries) : e.enabled # "always"}

(* The bits of the masks of some entries, put together by `or`.            *)
Or(entries) == UNION {Bits(e.mask) : e \in entries}

(* The parameter of `subscribe` for what the caller has selected.          *)
subscriptionMask(entries, selection) ==
    Or({e \in ToSet(entries) : e.enabled = "always"}) \cup Or(selection)

Parameters(definition) ==
    UNION {ToSet(definition.members[k].parameters) : k \in DOMAIN definition.members}
Constants(definition) ==
    UNION {ToSet(definition.members[k].constantParameters) : k \in DOMAIN definition.members}

(* Kotlin: appendCommandFunction, which both kinds of definitions have.    *)
KotlinCommandsRender(definition) ==
    /\ \A p \in Parameters(definition) : p.type \notin {"joystick", "ok"}
    /\ \A p \in Constants(definition) :
          p.type \notin {"joystick", "microstep_mode", "ok"} /\ HasText(p.value)

Parsers(subscription) ==
    CASE subscription.kind = "none" -> {}
      [] subscription.kind = "value" -> {subscription.parser}
      [] OTHER -> {e.parser : e \in ToSet(subscription.entries)}

KotlinIoRenders(definition) ==
    /\ KotlinCommandsRender(definition)
    /\ \A s \in ToSet(SetIoTypes(definition.init)) :
          \A p \in ToSet(s.parameters) : p.type \notin {"joystick", "ok"}
    /\ "ok" \notin Parsers(definition.subscription)

(* Python: the constants of the queries are rendered too.                  *)
Queries(subscription) ==
    CASE subscription.kind = "none" -> {}
      [] subscription.kind = "value" -> {subscription.initialValue}
      [] OTHER -> {e.initialValue : e \in ToSet(subscription.entries)}

PythonIoRenders(definition) ==
    /\ \A p \in Constants(definition) : HasText(p.value)
    /\ \A q \in Queries(definition.subscription) :
          \A p \in ToSet(q.constantParameters) : HasText(p.value)

PythonMetaRenders(definition) == \A p \in Constants(definition) : HasText(p.value)

(* Whether getCode of a unit returns: some units read their file first.    *)
Renders(unit) ==
    CASE unit.unit = "VendorIdSet" -> "vendor-ids" \notin api.unreadable
      [] unit.unit = "IOTypes" -> "iotypes" \notin api.unreadable
      [] unit.unit = "MicrostepMode" -> ValidModes(api.modes)
      [] unit.unit = "types" -> api.unreadable = {} /\ ValidModes(api.modes)
      [] unit.unit = "io object" -> KotlinIoRenders(unit.of)
      [] unit.unit = "meta object" ->
            unit.of.name \in {"controller", "swarm"} /\ KotlinCommandsRender(unit.of)
      [] unit.unit = "objects" ->
            /\ \A d \in ToSet(definitions) : PythonIoRenders(d)
            /\ \A d \in ToSet(metas) : PythonMetaRenders(d)
      [] OTHER -> TRUE

Of(kind, all) == [i \in DOMAIN all |-> [unit |-> kind, of |-> all[i]]]

Units ==
    IF task = "kotlin"
    THEN <<[unit |-> "VendorIdSet"], [unit |-> "IOTypes"], [unit |-> "MicrostepMode"]>>
         \o Of("io object", definitions) \o Of("meta object", metas)
    ELSE <<[unit |-> "types"], [unit |-> "objects"], [unit |-> "__init__"]>>

-----------------------------------------------------------------------------
Init ==
    /\ task \in {"kotlin", "python"}
    /\ api \in ApiDefs
    /\ phase = "clear"
    /\ definitions = <<>>
    /\ metas = <<>>
    /\ written = <<Stale>>

Goes(here, there) == phase = here /\ phase' = there

(* Fault: what is in the output directory stays there.                     *)
ClearOutputNot ==
    /\ Goes("clear", "collectIo")
    /\ UNCHANGED <<task, api, definitions, metas, written>>

(* deleteRecursively and mkdirs.                                           *)
ClearOutput ==
    /\ Goes("clear", "collectIo")
    /\ written' = <<>>
    /\ UNCHANGED <<task, api, definitions, metas>>

Resolved(files) ==
    [i \in DOMAIN files |-> resolveTemplate(files[i], loadTemplates(api.templates))]

(* getIoDefinitions: the input files by name, then the output files.       *)
Collectable(trees) ==
    /\ loadTemplates(api.templates) # Rejected
    /\ \A i \in DOMAIN trees : trees[i] # Rejected /\ IsIoDefinition(trees[i])
    /\ validateIoDefinitions([i \in DOMAIN trees |-> IoDefinition(trees[i])])

CollectIo ==
    LET trees == Resolved(api.io)
    IN  /\ Goes("collectIo", "collectMeta")
        /\ Collectable(trees)
        /\ definitions' = [i \in DOMAIN trees |-> IoDefinition(trees[i])]
        /\ UNCHANGED <<task, api, metas, written>>

RejectIo ==
    /\ Goes("collectIo", "rejected")
    /\ ~Collectable(Resolved(api.io))
    /\ UNCHANGED <<task, api, definitions, metas, written>>

(* getMetaDefinitions: a meta file is one of a name and a tree.            *)
MetaTrees == Resolved([i \in DOMAIN api.meta |-> api.meta[i].root])

CollectableMeta ==
    \A i \in DOMAIN api.meta :
        /\ MetaTrees[i] # Rejected
        /\ IsMetaDefinition(MetaTrees[i])
        /\ validateMetaDefinition(api.meta[i].name, MetaDefinition(MetaTrees[i]))

CollectMeta ==
    /\ Goes("collectMeta", "write")
    /\ CollectableMeta
    /\ metas' = [i \in DOMAIN api.meta |-> MetaDefinition(MetaTrees[i])]
    /\ UNCHANGED <<task, api, definitions, written>>

RejectMeta ==
    /\ Goes("collectMeta", "rejected")
    /\ ~CollectableMeta
    /\ UNCHANGED <<task, api, definitions, metas, written>>

NextUnit == Units[Len(written) + 1]

WriteUnit ==
    /\ phase = "write"
    /\ Len(written) < Len(Units)
    /\ Renders(NextUnit)
    /\ written' = Append(written, NextUnit)
    /\ UNCHANGED <<task, api, phase, definitions, metas>>

FailUnit ==
    /\ Len(written) < Len(Units)
    /\ ~Renders(NextUnit)
    /\ Goes("write", "failed")
    /\ UNCHANGED <<task, api, definitions, metas, written>>

Finish ==
    /\ Len(written) = Len(Units)
    /\ Goes("write", "done")
    /\ UNCHANGED <<task, api, definitions, metas, written>>

Next ==
    \/ ClearOutput
    \/ CollectIo
    \/ RejectIo
    \/ CollectMeta
    \/ RejectMeta
    \/ WriteUnit
    \/ FailUnit
    \/ Finish

Spec == Init /\ [][Next]_vars
-----------------------------------------------------------------------------
(* Every variable has its type, units are written from the first on, and   *)
(* none of an earlier run is left beside them.                             *)
TypeOK ==
    /\ task \in {"kotlin", "python"}
    /\ phase \in {"clear", "collectIo", "collectMeta", "write", "done", "failed", "rejected"}
    /\ Len(definitions) \in {0, Len(api.io)}
    /\ Len(metas) \in {0, Len(api.meta)}
    /\ phase # "clear" => IsPrefix(written, Units)

(* A file that extends a template is merged with it as the documentation   *)
(* says: mappings and equally tagged nodes key by key, anything else       *)
(* replaced as a whole, and a null of the file deletes what it inherits -  *)
(* here stated by the paths of the three trees (mergeYamlMaps, mergeYaml). *)
MergeIsByPath ==
    phase = "collectIo" /\ loadTemplates(api.templates) # Rejected =>
        \A file \in ToSet(api.io) :
            LET templates == loadTemplates(api.templates)
                tree == resolveTemplate(file, templates)
                own == Without(file, "extends")
            IN  tree # Rejected =>
                    IF Has(file, "extends")
                    THEN IsMergeOf(Flat(tree),
                                   Flat(templates.entries[file.entries["extends"].content]),
                                   Flat(own))
                    ELSE tree = own

(* Of a bitset that validateBitset accepts, the mask which the emitted     *)
(* factory sends has the bit of an entry exactly if the entry is always    *)
(* enabled or selected: no entry comes with another, and none is lost.     *)
MasksSelectEntries ==
    phase = "collectMeta" =>
        \A d \in ToSet(definitions) : d.subscription.kind = "bitset" =>
            LET entries == d.subscription.entries
            IN  \A selection \in SUBSET Selectable(entries) : \A e \in ToSet(entries) :
                    (subscriptionMask(entries, selection) \cap Bits(e.mask) # {})
                        <=> (e.enabled = "always" \/ e \in selection)

(* What the collector has accepted no renderer of objects stumbles over,   *)
(* in either language: a task that fails while it writes, fails at a unit  *)
(* that reads another file (error() and requireNotNull in the renderers).  *)
RenderersNeverFail ==
    phase = "failed" => NextUnit.unit \in {"VendorIdSet", "IOTypes", "MicrostepMode", "types"}
=============================================================================
