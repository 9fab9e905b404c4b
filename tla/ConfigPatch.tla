----------------------------- MODULE ConfigPatch -----------------------------
(***************************************************************************)
(* ConfigPatch._compare (config/config_patch.py): the differences between  *)
(* the deployed configuration and the wanted one, found by walking both    *)
(* along the schema.  Every difference must become a change, for only      *)
(* changes are checked against the update policies (UpdateCheck).          *)
(*                                                                         *)
(* A section is a record over the keys that are present; a list of         *)
(* sections is a sequence; None stands for a missing value.  One step is   *)
(* one call of _compare_section.  The calls it makes in its turn are       *)
(* pending until their steps: a call changes nothing but the changes found *)
(* so far, of which the order is left out, so it does not matter when it   *)
(* is made.                                                                *)
(***************************************************************************)
EXTENDS ItemMatching

CONSTANTS
  None,        \* the value of a key that is not there
  Schemas,     \* the fields of each class of the schema, in their order
  Pairs,       \* the pairs <<deployed, wanted>> of configurations
  Depth        \* bound on the nesting of sections

VARIABLES
  base,        \* self.base_config
  target,      \* self.target_config
  pending,     \* the calls of _compare_section still to be made
  raised,      \* whether one of them has raised an exception
  changes      \* self.changes, as a set

patchVars == <<base, target, pending, raised, changes>>

\* self.cluster_schema
Root == "ClusterSchema"

Fields == [schema \in DOMAIN Schemas |-> { Schemas[schema][i] : i \in DOMAIN Schemas[schema] }]
-----------------------------------------------------------------------------
(* Reading a section, which may be None. *)

Get(section, key) ==
  IF section # None /\ key \in DOMAIN section THEN section[key] ELSE None

Items(section, key) ==
  LET list == Get(section, key) IN IF list = None THEN << >> ELSE list

\* The truth value of a section in Python.
Truthy(section) == section # None /\ DOMAIN section # {}

\* _get_value_from_section: the value, and the key under which it was found.
GetValue(section, key) ==
  LET sequence == Get(section, "Sequence") IN
  IF key = "Script" /\ Truthy(section) /\ Get(section, key) = None
  THEN [key   |-> IF sequence \in {None, << >>} THEN key ELSE "Sequence",
        value |-> sequence]
  ELSE [key |-> key, value |-> Get(section, key)]

\* The update keys of the items of a list.
Keys(list, update_key) == [i \in DOMAIN list |-> Get(list[i], update_key)]
-----------------------------------------------------------------------------
(* The comparison of one section. *)

\* An element of a path: a key, and for the item of a list its update key.
Step(key)        == << key, None >>
ItemStep(key, n) == << key, n >>

\* The arguments of _compare_section.
Call(b, t, schema, path) == [path |-> path, schema |-> schema, b |-> b, t |-> t]

Changed(path, key, old, new, policy, is_list) ==
  [path |-> path, key |-> key, old_value |-> old, new_value |-> new,
   update_policy |-> policy, is_list |-> is_list]

\* A custom action is given as a script in one configuration and as a
\* sequence of scripts in the other.
FormSwitched(call, field) ==
  field.kind = "param" /\ GetValue(call.b, field.key).key # GetValue(call.t, field.key).key

\* param_path when the i-th field is compared.  The comparison of a custom
\* action that has switched its form pops the name of the action.
PathAt(call, i) ==
  IF \E j \in DOMAIN Schemas[call.schema] : j < i /\ FormSwitched(call, Schemas[call.schema][j])
  THEN Front(call.path) ELSE call.path

\* mutant: a parameter is reported without comparing the values
ReportParam(call, field, path) ==
  LET bv == GetValue(call.b, field.key)
      tv == GetValue(call.t, field.key)
  IN  {Changed(path, bv.key, bv.value, tv.value, field.policy, FALSE)}

\* A simple parameter.
CompareParam(call, field, path) ==
  LET bv == GetValue(call.b, field.key)
      tv == GetValue(call.t, field.key)
  IN  IF FormSwitched(call, field)
      THEN {Changed(Front(path), Last(path)[1], bv, tv, field.policy, FALSE)}
      ELSE IF bv.value = tv.value THEN {}
           ELSE {Changed(path, bv.key, bv.value, tv.value, field.policy, FALSE)}

\* mutant: a section with another policy is walked through as well
AnySection(field) == TRUE
\* A section that appears or disappears is compared field by field when its
\* own policy is to be ignored.
Traversed(field) == field.policy = "IGNORED"

\* "-" stands for a section that is missing or empty.
Shown(section) == IF Truthy(section) THEN section ELSE None

\* Whether a single section is there in one configuration only.
OneSided(call, field) == Truthy(Get(call.b, field.key)) # Truthy(Get(call.t, field.key))

CompareSingle(call, field, path) ==
  IF OneSided(call, field) /\ ~Traversed(field)
  THEN {Changed(path, field.key, Shown(Get(call.b, field.key)), Shown(Get(call.t, field.key)),
                field.policy, FALSE)}
  ELSE {}

NestedCalls(call, field, path) ==
  LET bv == Get(call.b, field.key)
      tv == Get(call.t, field.key)
  IN  IF (Truthy(bv) /\ Truthy(tv)) \/ (OneSided(call, field) /\ Traversed(field))
      THEN {Call(bv, tv, field.schema, Append(path, Step(field.key)))} ELSE {}

MatchesOf(call, field) ==
  Matches(Keys(Items(call.b, field.key), field.update_key),
          Keys(Items(call.t, field.key), field.update_key))

CompareList(call, field, path) ==
  LET olds  == Items(call.b, field.key)
      news  == Items(call.t, field.key)
      match == MatchesOf(call, field)
  IN  { Changed(path, field.key, None, news[i], field.policy, TRUE) :
          i \in { j \in DOMAIN news : match[j] = 0 } }
      \cup { Changed(path, field.key, olds[j], None, field.policy, TRUE) :
               j \in NotVisited(olds, { match[i] : i \in DOMAIN news }) }

ItemCalls(call, field, path) ==
  LET olds  == Items(call.b, field.key)
      news  == Items(call.t, field.key)
      match == MatchesOf(call, field)
  IN  { Call(olds[match[i]], news[i], field.schema,
             Append(path, ItemStep(field.key, Get(news[i], field.update_key)))) :
          i \in { j \in DOMAIN news : match[j] # 0 } }

\* What _compare_section finds and which calls it makes for one field.
FieldChanges(call, field, path) ==
  CASE field.kind = "param"   -> CompareParam(call, field, path)
    [] field.kind = "section" -> CompareSingle(call, field, path)
    [] field.kind = "list"    -> CompareList(call, field, path)

FieldCalls(call, field, path) ==
  CASE field.kind = "param"   -> {}
    [] field.kind = "section" -> NestedCalls(call, field, path)
    [] field.kind = "list"    -> ItemCalls(call, field, path)

\* The .get of a section that is None raises: of the target always, of the
\* base as soon as there is an item to look up.
Raises(call) ==
  \E field \in Fields[call.schema] :
    /\ field.kind = "list"
    /\ call.t = None \/ (call.b = None /\ Items(call.t, field.key) # << >>)
-----------------------------------------------------------------------------
PatchInit ==
  /\ \E pair \in Pairs : base = pair[1] /\ target = pair[2]
  /\ pending = {Call(base, target, Root, << >>)}
  /\ raised = FALSE
  /\ changes = {}

CompareSection(call) ==
  /\ ~Raises(call)
  /\ LET indices == DOMAIN Schemas[call.schema]
         Field(i) == Schemas[call.schema][i]
     IN  /\ changes' = changes \cup
                UNION { FieldChanges(call, Field(i), PathAt(call, i)) : i \in indices }
         /\ pending' = (pending \ {call}) \cup
                UNION { FieldCalls(call, Field(i), PathAt(call, i)) : i \in indices }
  /\ UNCHANGED <<base, target, raised>>

\* The exception leaves ConfigPatch.__init__: there is no patch.
CompareRaises(call) ==
  /\ Raises(call)
  /\ raised' = TRUE
  /\ pending' = {}
  /\ changes' = {}
  /\ UNCHANGED <<base, target>>

PatchNext ==
  /\ pending # {}
  /\ LET call == CHOOSE c \in pending : TRUE IN CompareSection(call) \/ CompareRaises(call)

PatchSpec == PatchInit /\ [][PatchNext]_patchVars

Done == pending = {} /\ ~raised
-----------------------------------------------------------------------------
(* The reference: a configuration as a set of facts, an address and a value.  *)

\* A section, its class and where it is.
Node(section, schema, path) == [path |-> path, schema |-> schema, section |-> section]

ChildrenBy(node, field) ==
  LET nested == Get(node.section, field.key)
      items  == Items(node.section, field.key)
  IN  CASE field.kind = "param" -> {}
        [] field.kind = "section" ->
             IF Truthy(nested)
             THEN {Node(nested, field.schema, Append(node.path, Step(field.key)))} ELSE {}
        [] field.kind = "list" ->
             { Node(items[i], field.schema,
                    Append(node.path, ItemStep(field.key, Get(items[i], field.update_key)))) :
                 i \in DOMAIN items }

Children(node) == UNION { ChildrenBy(node, field) : field \in Fields[node.schema] }

\* The sections up to n levels below a node.
Below(node) ==
  LET reached[n \in 0..Depth] ==
        IF n = 0 THEN {node}
        ELSE reached[n-1] \cup UNION { Children(x) : x \in reached[n-1] }
  IN  reached

NodesOf(config) == Below(Node(config, Root, << >>))[Depth]

Fact(address, key, value) == [address |-> address, key |-> key, value |-> value]

\* Script and Sequence are the two forms of one parameter.  That a section is
\* set is a fact, unless its policy says that only its fields count.
FactsBy(node, field) ==
  LET v    == GetValue(node.section, field.key)
      here == Append(node.path, Step(field.key))
  IN  CASE field.kind = "param" ->
             IF v.value = None THEN {} ELSE {Fact(here, v.key, v.value)}
        [] field.kind = "section" ->
             IF Truthy(Get(node.section, field.key)) /\ field.policy # "IGNORED"
             THEN {Fact(here, "", "set")} ELSE {}
        [] field.kind = "list" -> {}

FactsAt(node) == UNION { FactsBy(node, field) : field \in Fields[node.schema] }

FactsOf(nodes) == UNION { FactsAt(x) : x \in nodes }

Differences ==
  LET b == FactsOf(NodesOf(base))
      t == FactsOf(NodesOf(target))
  IN  { f.address : f \in (b \ t) \cup (t \ b) }

Update_key(key) ==
  CASE key = "S3Access" -> "BucketName" [] key = "Tags" -> "Key"
    [] key = "AdditionalIamPolicies" -> "Policy" [] key = "Instances" -> "InstanceType"
    [] OTHER -> "Name"

\* Where a change takes place.  The change of a list is about one item.
AddressOf(change) ==
  LET item == IF change.old_value = None THEN change.new_value ELSE change.old_value
  IN  Append(change.path,
             CASE change.is_list -> ItemStep(change.key, Get(item, Update_key(change.key)))
               [] ~change.is_list /\ change.key = "Sequence" -> Step("Script")
               [] OTHER -> Step(change.key))
-----------------------------------------------------------------------------
(* What is assumed of schema and configurations. *)

ActionKeys == {"OnNodeStart", "OnNodeConfigured", "OnNodeUpdated"}

\* Classes with the two forms of a custom action.
IsAction(schema) == \E field \in Fields[schema] : field.key = "Script"

HasList(schema) == \E field \in Fields[schema] : field.kind = "list"

FieldAssumption(schema, field) ==
  /\ field.kind \in {"param", "section", "list"}
  /\ field.key \notin {"", "Sequence"}
  /\ field.kind # "param" => field.schema \in DOMAIN Schemas \ {Root}
  /\ field.policy = "IGNORED" =>
       field.kind = "section" \/ (field.kind = "param" /\ field.key = "QueueUpdateStrategy")
  /\ field.kind = "list" =>
       /\ field.update_key = Update_key(field.key)
       /\ \E f \in Fields[field.schema] : f.kind = "param" /\ f.key = field.update_key
       /\ ~IsAction(field.schema)
  /\ field.kind = "section" /\ IsAction(field.schema) => field.key \in ActionKeys
  /\ IsAction(schema) => field.kind = "param" /\ field.key \in {"Script", "Args"}

\* The lists of sections that IGNORED lets the walk enter from one side.
LustreAssumption(schema, field) ==
  /\ field.kind = "section" /\ field.policy = "IGNORED" /\ HasList(field.schema) =>
       schema = "SharedStorageSchema" /\ field.key = "FsxLustreSettings"
  /\ field.kind # "param" /\ field.schema = "SharedStorageSchema" =>
       schema = Root /\ field.kind = "list" /\ field.key = "SharedStorage"

ASSUME SchemasAssumption ==
  /\ Root \in DOMAIN Schemas /\ ~IsAction(Root) /\ Depth \in Nat
  /\ \A schema \in DOMAIN Schemas :
       /\ DOMAIN Schemas[schema] \subseteq Nat
       /\ \A i, j \in DOMAIN Schemas[schema] : Schemas[schema][i].key = Schemas[schema][j].key => i = j
       /\ \A field \in Fields[schema] :
            FieldAssumption(schema, field) /\ LustreAssumption(schema, field)

\* A list is a list, and what is in it has its update key.
WellFormed(node) ==
  \A field \in Fields[node.schema] :
    LET items == Items(node.section, field.key) IN
    field.kind = "list" =>
      /\ items \in Seq(Range(items))
      /\ \A i \in DOMAIN items : items[i] # None /\ Get(items[i], field.update_key) # None

ASSUME PairsAssumption ==
  \A config \in { pair[1] : pair \in Pairs } \cup { pair[2] : pair \in Pairs } :
    LET nodes == NodesOf(config) IN
    config # None /\ \A node \in nodes : WellFormed(node) /\ Children(node) \subseteq nodes

\* No list has two items with one update key.  Validators refuse them, but for
\* S3Access.
KeysAreUnique ==
  \A node \in NodesOf(base) \cup NodesOf(target) : \A field \in Fields[node.schema] :
    LET keys == Keys(Items(node.section, field.key), field.update_key) IN
    field.kind = "list" => \A i, j \in DOMAIN keys : keys[i] = keys[j] => i = j

\* The form of a custom action has changed between Script and Sequence.
FormChanged(c) ==
  /\ c.key = "Args"
  /\ \E d \in changes : d.path = c.path /\ d.key \in ActionKeys

\* A storage of the same name gains or loses its FsxLustreSettings.
LustreSwitched ==
  \E old \in Range(Items(base, "SharedStorage")), new \in Range(Items(target, "SharedStorage")) :
    /\ old.Name = new.Name
    /\ Truthy(Get(old, "FsxLustreSettings")) # Truthy(Get(new, "FsxLustreSettings"))
-----------------------------------------------------------------------------
(* A patch is complete or not made at all; a change of a list adds or removes *)
(* one item, and no change leaves a value as it was.                          *)
PatchTypeOK ==
  /\ raised \in BOOLEAN
  /\ raised => changes = {}
  /\ \A c \in changes :
       /\ c.old_value # c.new_value
       /\ c.is_list \in BOOLEAN
       /\ c.is_list => None \in {c.old_value, c.new_value}

(* Whatever differs between the two configurations lies under a change whose  *)
(* policy is not IGNORED, so that no difference reaches the stack unchecked.  *)
(* The one parameter that may always change is QueueUpdateStrategy.           *)
PatchIsComplete ==
  Done =>
    \A a \in Differences : \E c \in changes :
      /\ IsPrefix(AddressOf(c), a)
      /\ c.update_policy = "IGNORED" => Last(a) = Step("QueueUpdateStrategy")

(* Every change is about a difference: neither the order of the items of a    *)
(* list nor an empty section is taken for one.  Two exceptions are the        *)
(* code's: items with the same update key are all compared with the first,    *)
(* and beside a change of form the path of the arguments lacks the action.    *)
PatchIsExact ==
  Done /\ KeysAreUnique =>
    LET differences == Differences IN
    \A c \in changes :
      \/ \E a \in differences : IsPrefix(AddressOf(c), a)
      \/ FormChanged(c)

(* A comparison raises only when a storage gains or loses FsxLustreSettings,  *)
(* where _compare_list meets a section that is None: nowhere else does the    *)
(* schema have a list in a section that is walked through when it appears.    *)
RaisesOnlyOnLustre == raised => LustreSwitched
=============================================================================
