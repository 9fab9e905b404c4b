---------------------------- MODULE MCConfigPatch ----------------------------
(* ConfigPatch on two families of pairs.  Every key of the schema set or not, *)
(* with one of two values, against every other key of the same part; and all  *)
(* small variants of the parts in which the comparison has a special case:    *)
(* custom actions, lists whose key repeats, nested lists, ignored sections.   *)
EXTENDS ConfigPatch, ClusterSchemas, TLC

-----------------------------------------------------------------------------
(* Configurations drawn from the schema. *)

RECURSIVE Filled(_), Values(_, _)

\* The required keys and nothing else.
Filled(fields) ==
  LET required == { i \in DOMAIN fields : fields[i].required }
      The(key)  == fields[CHOOSE i \in required : fields[i].key = key]
  IN  [key \in { fields[i].key : i \in required } |->
         CASE The(key).kind = "param"   -> IF key = "Script" THEN << "v1" >> ELSE "v1"
           [] The(key).kind = "section" -> Filled(SchemaClasses[The(key).schema])
           [] The(key).kind = "list"    -> << Filled(SchemaClasses[The(key).schema]) >>]

\* One key more, or one of the required keys with another value.
One(fields, v) ==
  UNION { { (fields[i].key :> x) @@ Filled(fields) : x \in Values(fields[i], v) } : i \in DOMAIN fields }

Values(field, v) ==
  CASE field.kind = "param"   -> { IF field.key = "Script" THEN << v >> ELSE v }
    [] field.kind = "section" -> One(SchemaClasses[field.schema], v)
    [] field.kind = "list"    -> { << x >> : x \in One(SchemaClasses[field.schema], v) }

Minimal == Filled(ClusterSchema)

SchemaPairs ==
  UNION { LET With(v) == { (f.key :> x) @@ Minimal : x \in Values(f, v) } \cup {Minimal}
          IN  With("v1") \X With("v2") : f \in ToSet(ClusterSchema) }
-----------------------------------------------------------------------------
(* The special cases. *)

\* No, one or two items, in any order; unless Twice, with different names.
Lists(items, key, Twice) ==
  {<< >>} \cup { << x >> : x \in items }
    \cup { l \in items \X items : Twice \/ l[1][key] # l[2][key] }

\* With the key, for every value given, or without it.
Maybe(key, values) == {<< >>} \cup { key :> v : v \in values }

Merge(sections, others) == { s @@ o : s \in sections, o \in others }

Actions ==
  { [Script |-> s] : s \in {<<"s1">>, <<"s2">>} }
    \cup { [Script |-> << "s1" >>, Args |-> "x"] }
    \cup { [Sequence |-> s] : s \in {<< >>, <<"s1">>, <<"s1", "s2">>} }

CustomActions == Merge(Maybe("OnNodeUpdated", Actions),
                       Maybe("OnNodeConfigured", { [Script |-> <<"s1">>] }))

Accesses == [BucketName : {"b1", "b2"}, KeyName : {"k1", "k2"}]

\* The actions vary without S3Access, S3Access varies without actions.
HeadNodes ==
  Maybe("CustomActions", CustomActions)
    \cup Maybe("Iam", Maybe("S3Access", Lists(Accesses, "BucketName", TRUE)))

ComputeResources == [Name : {"c1", "c2"}, MaxCount : {1, 2}]

Queues ==
  Merge([Name : {"q1"}], Maybe("ComputeResources", Lists(ComputeResources, "Name", FALSE)))
    \cup Merge([Name : {"q2"}], Maybe("ComputeResources", { << [Name |-> "c1", MaxCount |-> 1] >> }))

Associations == [Name : {"d1"}, DataRepositoryPath : {"x", "y"}, FileSystemPath : {"v1"}]

Lustre == Merge(Maybe("StorageCapacity", {1, 2}),
                Maybe("DataRepositoryAssociations", { << a >> : a \in Associations }))

SharedStorages ==
  Merge([Name : {"fs1"}, MountDir : {"a", "b"}], Maybe("FsxLustreSettings", Lustre))
    \cup [Name : {"fs2"}, MountDir : {"a", "b"}]

Square(S) == S \X S

SpecialPairs ==
  LET Complete(sections, fields) == Merge(sections, {Filled(fields)})
      Part(key, values)          == { (key :> x) @@ Minimal : x \in values }
  IN  Square(Part("HeadNode", Complete(HeadNodes, HeadNodeSchema)))
      \cup Square(Part("Scheduling",
                { [SlurmQueues |-> l] @@ Filled(SchedulingSchema) :
                    l \in Lists(Complete(Queues, SlurmQueueSchema), "Name", FALSE) \ {<< >>} }))
      \cup Square(Part("SharedStorage",
                Lists(Complete(SharedStorages, SharedStorageSchema), "Name", FALSE)))

MCPairs == SchemaPairs \cup SpecialPairs
=============================================================================
