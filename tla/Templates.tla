------------------------------ MODULE Templates ------------------------------
(***************************************************************************)
(* How the collector makes one YAML tree of a definition file and the      *)
(* template it extends (IoDefinitions.kt, loadTemplates to mergeYamlMaps), *)
(* and a second definition of the same by paths, to compare it with.       *)
(*                                                                         *)
(* A mapping is a function on its keys: the order of its entries is        *)
(* layout.  What a list holds is not looked at while merging, so its items *)
(* are taken as decoded already.                                           *)
(***************************************************************************)
EXTENDS Naturals, Sequences, SequencesExt

CONSTANTS
    Nodes,     \* the YAML nodes of the files, with all below them
    Height,    \* how many levels there are below a node
    Depth      \* bound: how far below its root a tree is compared by paths

Null == [kind |-> "null"]
Scalar(content) == [kind |-> "scalar", content |-> content]
ListOf(items) == [kind |-> "list", items |-> items]
Mapping(entries) == [kind |-> "map", entries |-> entries]
Tagged(tag, innerNode) == [kind |-> "tagged", tag |-> tag, innerNode |-> innerNode]

(* Stands for an IllegalArgumentException, or one of the YAML decoder's.   *)
Rejected == [kind |-> "rejected"]

IsMap(node) == node.kind = "map"
IsTagged(node) == node.kind = "tagged"

(* A document is a finite tree, which is why merging two of them ends.     *)
ASSUME NodesAssumption ==
    /\ Depth \in Nat
    /\ Height \in [Nodes -> Nat]
    /\ \A node \in Nodes :
          /\ IsMap(node) => \A k \in DOMAIN node.entries :
                /\ node.entries[k] \in Nodes
                /\ Height[node.entries[k]] < Height[node]
          /\ IsTagged(node) =>
                /\ node.innerNode \in Nodes
                /\ Height[node.innerNode] < Height[node]

Without(map, key) == Mapping(Restrict(map.entries, DOMAIN map.entries \ {key}))

-----------------------------------------------------------------------------
(* Fault: a null is a value like any other.                                *)
MergedMapsKeepNull(merge, base, concrete) ==
    Mapping([k \in DOMAIN base.entries \cup DOMAIN concrete.entries |->
        IF k \notin DOMAIN concrete.entries THEN base.entries[k]
        ELSE IF k \notin DOMAIN base.entries THEN concrete.entries[k]
        ELSE merge[base.entries[k]][concrete.entries[k]]])

(* A null in the file deletes the key, whether the template has it or not; *)
(* merge is what makes one node of two.                                    *)
MergedMaps(merge, base, concrete) ==
    LET own == DOMAIN concrete.entries
        inherited == DOMAIN base.entries \ own
    IN  Mapping([k \in inherited \cup {o \in own : concrete.entries[o] # Null} |->
            IF k \in inherited THEN base.entries[k]
            ELSE IF k \notin DOMAIN base.entries THEN concrete.entries[k]
            ELSE merge[base.entries[k]][concrete.entries[k]]])

mergeYaml[base \in Nodes] == [concrete \in Nodes |->
    CASE IsMap(base) /\ IsMap(concrete) -> MergedMaps(mergeYaml, base, concrete)
      [] IsTagged(base) /\ IsTagged(concrete) /\ base.tag = concrete.tag ->
            Tagged(concrete.tag, mergeYaml[base.innerNode][concrete.innerNode])
      [] OTHER -> concrete]

mergeYamlMaps(base, concrete) == MergedMaps(mergeYaml, base, concrete)

(* allowEmpty is for templates: a document that is null is an empty one.   *)
readRootMap(root, allowEmpty) ==
    IF IsMap(root) THEN root
    ELSE IF root = Null /\ allowEmpty THEN Mapping(<<>>)
    ELSE Rejected

(* Every template of the directory by its name, or Rejected.               *)
loadTemplates(directory) ==
    LET roots == [name \in DOMAIN directory |-> readRootMap(directory[name], TRUE)]
    IN  IF \E name \in DOMAIN roots : \/ roots[name] = Rejected
                                      \/ "extends" \in DOMAIN roots[name].entries
        THEN Rejected
        ELSE Mapping(roots)

(* The tree of one definition file.                                        *)
resolveTemplate(file, templates) ==
    LET concrete == readRootMap(file, FALSE)
        withoutExtends == Without(concrete, "extends")
        name == concrete.entries["extends"]
    IN  CASE concrete = Rejected -> Rejected
          [] concrete # Rejected /\ "extends" \notin DOMAIN concrete.entries -> withoutExtends
          [] OTHER ->
                IF name.kind # "scalar" \/ name.content \notin DOMAIN templates.entries
                THEN Rejected
                ELSE mergeYamlMaps(templates.entries[name.content], withoutExtends)

-----------------------------------------------------------------------------
(* The same by paths.  A step of a path is a key, or "!" into a tagged     *)
(* node.                                                                   *)

Steps(node) ==
    CASE IsMap(node) -> DOMAIN node.entries
      [] IsTagged(node) -> {"!"}
      [] OTHER -> {}

Child(node, step) == IF IsMap(node) THEN node.entries[step] ELSE node.innerNode

(* A tree as the function from its paths to its nodes.                     *)
Flat(root) ==
    LET flat[n \in Nat] ==
            IF n = 0 THEN [p \in {<<>>} |-> root]
            ELSE LET above == flat[n - 1]
                     below == UNION {{Append(p, s) : s \in Steps(above[p])} : p \in DOMAIN above}
                 IN  [p \in {<<>>} \cup below |->
                        IF p = <<>> THEN root ELSE Child(above[Front(p)], Last(p))]
    IN  flat[Depth]

(* What a node is, apart from what is below it.                            *)
Shape(node) ==
    CASE IsMap(node) -> [kind |-> "map"]
      [] IsTagged(node) -> [kind |-> "tagged", tag |-> node.tag]
      [] OTHER -> node

(* Both trees have mappings, or nodes of one tag, all the way to the path. *)
Shared(base, concrete, path) ==
    \A q \in Prefixes(path) :
        /\ q \in DOMAIN base \cap DOMAIN concrete
        /\ Shape(base[q]) = Shape(concrete[q])
        /\ IsMap(base[q]) \/ IsTagged(base[q])

(* The file's own nodes stay, except a null that is an entry of a mapping  *)
(* both have; of the template's nodes those stay that hang from such a     *)
(* mapping under a key which the file does not have there.                 *)
IsMergeOf(result, base, concrete) ==
    LET deleted == {p \in DOMAIN concrete \ {<<>>} :
                        /\ concrete[p] = Null
                        /\ IsMap(concrete[Front(p)])
                        /\ Shared(base, concrete, Front(p))}
        own == DOMAIN concrete \ deleted
        inherited == {p \in DOMAIN base \ DOMAIN concrete :
                        \E q \in Prefixes(p) :
                            /\ q # <<>>
                            /\ Shared(base, concrete, Front(q))
                            /\ q \notin DOMAIN concrete}
    IN  /\ DOMAIN result = own \cup inherited
        /\ \A p \in own : Shape(result[p]) = Shape(concrete[p])
        /\ \A p \in inherited : Shape(result[p]) = Shape(base[p])
=============================================================================
